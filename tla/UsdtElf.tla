------------------------------ MODULE UsdtElf ------------------------------
(***************************************************************************)
(* The decoders of src/src/core/user/proc.rs that turn what the kernel and *)
(* the files provide into the values Process works on:                     *)
(*   - UsdtInfo::new and UsdtNote::from_elf: the .stapsdt.base address and *)
(*     the .note.stapsdt notes of an ELF file, each note's descriptor      *)
(*     decoded byte by byte;                                               *)
(*   - ProcessMap::from_string and get_process_maps: a line of             *)
(*     /proc/<pid>/maps, split at white space.                             *)
(*                                                                         *)
(* An ELF file is a record [readable, base, notes]: readable is FALSE when *)
(* fs::read, minimal_parse or a section lookup fails (every `?` before the *)
(* notes), base is the sh_addr of .stapsdt.base or NoSection, and notes is *)
(* the parsed .note.stapsdt section, each [variant, n_type, name, desc]    *)
(* with desc a sequence of bytes (no section: no notes).  A name or a     *)
(* string of a note is a sequence of byte values.                          *)
(***************************************************************************)
EXTENDS Naturals, Sequences, SequencesExt

CONSTANTS
    AddrBytes,   \* size_of::<Address>(): 8 on 64-bit targets, 4 on 32-bit
    NonUtf8Names \* path words the kernel writes with bytes that are not UTF-8

STAPSDT_TYPE == 3
NoSection == -1

\* A UsdtNote; a failed decoding carries the empty one.
NoteRec(addr, base, sema, provider, name, args) ==
    [provider |-> provider, name |-> name, addr |-> addr,
     base_addr |-> base, sema_addr |-> sema, args |-> args]
BadNote == [ok |-> FALSE, note |-> NoteRec(0, 0, 0, <<>>, <<>>, <<>>)]

\* Bytes that occur in no UTF-8 string.  Over strings whose other bytes are
\* ASCII, which is all the instance uses, str::from_utf8 fails exactly when
\* one of them is present.
NonUtf8 == {192, 193} \cup 245..255
Utf8(s) == \A i \in DOMAIN s : s[i] \notin NonUtf8

-----------------------------------------------------------------------------
(* UsdtNote::from_elf *)

\* read_u64::<Endian> (read_u32 on 32-bit targets) at byte pos: AddrBytes
\* bytes, least significant first on the little-endian targets.
ReadAddr(d, pos) ==
    FoldRight(LAMBDA b, acc : b + 256 * acc, SubSeq(d, pos, pos + AddrBytes - 1), 0)

\* A string that may run to the end of the descriptor.
ReadCStrToEof(d, pos) ==
    LET rest == SubSeq(d, pos, Len(d))
        nul == SelectInSeq(rest, LAMBDA b : b = 0)
        s == IF nul = 0 THEN rest ELSE SubSeq(rest, 1, nul - 1)
    IN [ok |-> Utf8(s), str |-> s, next |-> pos + Len(s) + 1]

\* cursor.read_until(b'\0', &mut buf)? then
\* CStr::from_bytes_with_nul(&buf)?.to_str()?: the bytes up to the next
\* nul.  read_until stops at the end of the data without error, and
\* from_bytes_with_nul then fails on the unterminated (or empty) buffer.
ReadCStr(d, pos) ==
    LET rest == SubSeq(d, pos, Len(d))
        nul == SelectInSeq(rest, LAMBDA b : b = 0)
        s == SubSeq(rest, 1, nul - 1)
    IN [ok |-> nul # 0 /\ Utf8(s), str |-> s, next |-> pos + nul]

\* The three addresses (each `?` fails on a short descriptor), then the
\* provider, the probe name and the argument format; trailing bytes are
\* not looked at.
FromElf(d) ==
    LET W == AddrBytes
        provider == ReadCStr(d, 3 * W + 1)
        name == ReadCStr(d, provider.next)
        args == ReadCStr(d, name.next)
    IN IF Len(d) < 3 * W \/ ~provider.ok \/ ~name.ok \/ ~args.ok THEN BadNote
       ELSE [ok |-> TRUE,
             note |-> NoteRec(ReadAddr(d, 1), ReadAddr(d, W + 1), ReadAddr(d, 2 * W + 1),
                              provider.str, name.str, args.str)]

-----------------------------------------------------------------------------
(* UsdtInfo::new, as Binary::new keeps it: ok is FALSE for usdt_info None *)

EmptyInfo(ok) == [ok |-> ok, base_addr |-> 0, notes |-> <<>>]

\* A note is accepted when it is Note::Unknown of type STAPSDT_TYPE and
\* name "stapsdt" and its descriptor decodes; any other note bails.
NoteAccepted(n) ==
    /\ n.variant = "unknown"
    /\ n.n_type = STAPSDT_TYPE /\ n.name = "stapsdt"
    /\ FromElf(n.desc).ok

\* A reading that drops the notes it cannot decode and keeps the others.
UsdtInfoNewSkipBad(f) ==
    CASE ~f.readable -> EmptyInfo(FALSE)
      [] f.base = NoSection -> EmptyInfo(TRUE)
      [] OTHER -> [ok |-> TRUE, base_addr |-> f.base,
                   notes |-> [i \in 1..Len(SelectSeq(f.notes, NoteAccepted)) |->
                                 FromElf(SelectSeq(f.notes, NoteAccepted)[i].desc).note]]

\* An unreadable file is an error; a file without .stapsdt.base is
\* UsdtInfo::default(); one bad note fails the whole file, and
\* Binary::new then warns and keeps no USDT information.
UsdtInfoNew(f) ==
    CASE ~f.readable -> EmptyInfo(FALSE)
      [] f.base = NoSection -> EmptyInfo(TRUE)
      [] \A i \in DOMAIN f.notes : NoteAccepted(f.notes[i]) ->
            [ok |-> TRUE, base_addr |-> f.base,
             notes |-> [i \in DOMAIN f.notes |-> FromElf(f.notes[i].desc).note]]
      [] OTHER -> EmptyInfo(FALSE)

-----------------------------------------------------------------------------
(***************************************************************************)
(* ProcessMap::from_string on the words of a maps line.  The first word    *)
(* is the address range, given as [lo]: the kernel always writes it as two *)
(* hex numbers, so the split('-') and from_str_radix checks of the code    *)
(* cannot fail on its lines.  A path is a sequence of words: the kernel    *)
(* writes it with its spaces, and the code keeps parts.get(5), one word.   *)
(***************************************************************************)
NoMap == [ok |-> FALSE, map |-> [start |-> 0, path |-> <<>>]]

MapFromString(parts) ==
    IF Len(parts) < 5 THEN NoMap
    ELSE [ok |-> TRUE,
          map |-> [start |-> parts[1].lo,
                   path |-> IF Len(parts) >= 6 THEN <<parts[6]>> ELSE <<>>]]

\* BufRead::lines() yields an error for a line that is not UTF-8: a mapped
\* path with such bytes (the range is hex, the other fields ASCII).
LineUtf8(parts) == \A i \in 2..Len(parts) : parts[i] \notin NonUtf8Names

\* get_process_maps: every line read (line?) and parsed in order; the
\* first bad line fails the whole read.
GetProcessMaps(lines) ==
    LET parsed == [i \in DOMAIN lines |-> MapFromString(lines[i])]
    IN IF \A i \in DOMAIN lines : LineUtf8(lines[i]) /\ parsed[i].ok
       THEN [ok |-> TRUE, maps |-> [i \in DOMAIN parsed |-> parsed[i].map]]
       ELSE [ok |-> FALSE, maps |-> <<>>]

-----------------------------------------------------------------------------
(***************************************************************************)
(* The other side of the format, as the comment of from_elf lays it out    *)
(* (lines 144-150) and the kernel writes a maps line: used by the          *)
(* instances to build the inputs from what was written.                    *)
(***************************************************************************)
\* x as w bytes, least significant first.
RECURSIVE LEBytes(_, _)
LEBytes(x, w) == IF w = 0 THEN <<>> ELSE <<x % 256>> \o LEBytes(x \div 256, w - 1)

\* The descriptor sdt.h emits for a note, with w-byte addresses.
SdtDesc(n, w) ==
    LEBytes(n.addr, w) \o LEBytes(n.base_addr, w) \o LEBytes(n.sema_addr, w)
        \o n.provider \o <<0>> \o n.name \o <<0>> \o n.args \o <<0>>

\* A .note.stapsdt entry as the linker leaves it.
SdtNote(n, w) == [variant |-> "unknown", n_type |-> STAPSDT_TYPE, name |-> "stapsdt",
                  desc |-> SdtDesc(n, w)]

\* /proc/<pid>/maps: "start-end perms offset dev inode [path]", split at
\* white space (the fields the code does not keep are placeholders).
MapsLine(m) == <<[lo |-> m.start], "perms", "offset", "dev", "inode">> \o m.path

=============================================================================
