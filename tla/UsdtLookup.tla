----------------------------- MODULE UsdtLookup -----------------------------
(***************************************************************************)
(* The USDT side of src/src/core/user/proc.rs: Process::new building the   *)
(* executable and its libraries from /proc/<pid>/maps, Process::all, and  *)
(* the two lookups a probe attachment makes on the result:                 *)
(* get_note_from_symbol (a runtime address to its note) and get_note (a   *)
(* "provider::name" target to its note and binary).                        *)
(*                                                                         *)
(* Addresses are AddrBits-bit words and the code's u64 arithmetic is done  *)
(* modulo 2^AddrBits, as the release profile does (no overflow checks).   *)
(* The files are constants: Elf gives each file's bytes as UsdtElf reads   *)
(* them, and Info is what UsdtInfo::new makes of them (ok = FALSE for      *)
(* usdt_info None).  The maps are what the process has mapped; Process::new *)
(* reads them as the text lines the kernel writes.  A path is a sequence   *)
(* of words, a provider or a name a sequence of bytes.                     *)
(***************************************************************************)
EXTENDS Integers, Sequences, SequencesExt, UsdtElf

CONSTANTS
    AddrBits,    \* width of an address
    ExePath,     \* the executable's path (read_link of exe, or all's path)
    Elf,         \* path -> the file, as UsdtElf describes it
    Written,     \* path -> [kind, base_addr, notes]: what the file was built with
    Pseudo,      \* map names in brackets: "[heap]", "[vdso]", "[stack]"
    MapsInputs,  \* the maps a process may have, ascending: [start, path]
    Symbols,     \* runtime addresses that are looked up
    Targets      \* [provider, name] targets, and Malformed

PID_ALL == -1
\* A target without "::" (no name holds a nul); the no-note and the error
\* results.
Malformed == [provider |-> <<>>, name |-> <<0>>]
NoAddr == -1
None == [path |-> <<>>, note |-> BadNote.note]
Error == [path |-> <<"error">>, note |-> BadNote.note]
Word == 2^AddrBits

VARIABLES
    pid,      \* the pid Process::new is called with
    maps,     \* what the process has mapped, as [start, path]
    phase,    \* "new", "ready" (a Process exists) or "failed"
    proc,     \* [exec, libs], each Binary a [path, addr]
    query,    \* the last lookup: [kind, arg]
    answer    \* its result: None, Error or [path, note]

vars == <<pid, maps, phase, proc, query, answer>>

-----------------------------------------------------------------------------
(* The code *)

\* Binary::new's UsdtInfo of each file; a path with no file behind it fails
\* fs::read, and its Binary has no USDT information.
Info == [f \in DOMAIN Elf |-> UsdtInfoNew(Elf[f])]
InfoOf(path) == IF path \in DOMAIN Elf THEN Info[path] ELSE EmptyInfo(FALSE)

\* u64 arithmetic of the release build.
Wrap(x) == x % Word

\* A ProcessMap backed by a file (is_file): not "[...]" and not empty.
IsFileNoBrackets(path) == path # <<>>
IsFile(path) == ~(path \in Pseudo \/ path = <<>>)

\* maps.dedup_by(|a, b| a.path.eq(&b.path)): consecutive maps of one path
\* collapse into the first.
DedupByPath(ms) ==
    FoldLeft(LAMBDA acc, m : IF acc # <<>> /\ Last(acc).path = m.path
                             THEN acc ELSE Append(acc, m),
             <<>>, ms)

Binary(path, addr) == [path |-> path, addr |-> addr]

\* The note's link-time address with the prelink compensation (line 120),
\* without it.
LinkAddrNoPrelink(info, n) == Wrap(n.addr)
LinkAddr(info, n) == Wrap(n.addr + info.base_addr - n.base_addr)

\* Binary::get_note_from_offset and UsdtInfo::get_note_from_offset: the
\* first note whose link address is addr.
NoteFromOffset(b, addr) ==
    LET info == InfoOf(b.path)
        i == SelectInSeq(info.notes, LAMBDA n : LinkAddr(info, n) = addr)
    IN IF ~info.ok \/ i = 0 THEN None ELSE [path |-> b.path, note |-> info.notes[i]]

\* Process::get_note_from_symbol: the executable, then every library, each
\* with the symbol made relative to its load address.
GetNoteFromSymbol(p, symbol) ==
    LET bins == <<p.exec>> \o p.libs
        hit(b) == b.addr # NoAddr /\ NoteFromOffset(b, Wrap(symbol - b.addr)) # None
        i == SelectInSeq(bins, hit)
    IN IF i = 0 THEN None ELSE NoteFromOffset(bins[i], Wrap(symbol - bins[i].addr))

\* UsdtInfo::get_note: split_once("::") fails on a target without the
\* separator; otherwise the first note of the target.
NoteOfTarget(b, t) ==
    LET info == InfoOf(b.path)
        i == SelectInSeq(info.notes, LAMBDA n : n.provider = t.provider /\ n.name = t.name)
    IN CASE t = Malformed -> Error
         [] i = 0 -> None
         [] OTHER -> [path |-> b.path, note |-> info.notes[i]]

\* Binary::get_note: Ok(None) for a binary without usdt_info.
BinaryGetNote(b, t) == IF InfoOf(b.path).ok THEN NoteOfTarget(b, t) ELSE None

\* A search of the libraries before the executable.
GetNoteLibsFirst(p, t) ==
    LET bins == p.libs \o <<p.exec>>
        i == SelectInSeq(bins, LAMBDA b : BinaryGetNote(b, t) # None)
    IN IF i = 0 THEN None ELSE BinaryGetNote(bins[i], t)

\* Process::get_note (and is_usdt, its `is_some`): the executable, then the
\* libraries; the first binary that answers a note or an error ends it.
GetNote(p, t) ==
    LET bins == <<p.exec>> \o p.libs
        i == SelectInSeq(bins, LAMBDA b : BinaryGetNote(b, t) # None)
    IN IF i = 0 THEN None ELSE BinaryGetNote(bins[i], t)

-----------------------------------------------------------------------------
\* Process::from_pid (get_process_maps done) or Process::all, which bails
\* with NotFound, and makes no Process, when its path does not exist.
Init ==
    /\ pid \in {PID_ALL, 1}
    /\ pid = PID_ALL => ExePath \in DOMAIN Elf
    /\ maps \in IF pid = PID_ALL THEN {<<>>} ELSE MapsInputs
    /\ phase = "new"
    /\ proc = [exec |-> Binary(ExePath, NoAddr), libs |-> <<>>]
    /\ query = [kind |-> "none", arg |-> 0]
    /\ answer = None

(***************************************************************************)
(* Process::new.  For PID_ALL an unloaded executable and no library.      *)
(* Otherwise get_process_maps parses the lines of the maps file (a bad    *)
(* line is an error), the first map gives the executable's address (no    *)
(* map: an error), then the deduplicated file maps other than the         *)
(* executable are the libraries, loaded at their first address, in order. *)
(***************************************************************************)
New ==
    /\ phase = "new"
    /\ LET read == GetProcessMaps([i \in DOMAIN maps |-> MapsLine(maps[i])])
           ms == read.maps
       IN IF pid = PID_ALL
          THEN phase' = "ready" /\ UNCHANGED proc
          ELSE IF ~read.ok \/ ms = <<>>
          THEN phase' = "failed" /\ UNCHANGED proc
          ELSE LET libs == SelectSeq(DedupByPath(ms),
                                     LAMBDA m : IsFile(m.path) /\ m.path # ExePath)
               IN /\ phase' = "ready"
                  /\ proc' = [exec |-> Binary(ExePath, ms[1].start),
                              libs |-> [i \in DOMAIN libs |-> Binary(libs[i].path, libs[i].start)]]
    /\ UNCHANGED <<pid, maps, query, answer>>

QuerySymbol ==
    /\ phase = "ready"
    /\ \E s \in Symbols :
         /\ query' = [kind |-> "symbol", arg |-> s]
         /\ answer' = GetNoteFromSymbol(proc, s)
    /\ UNCHANGED <<pid, maps, phase, proc>>

QueryTarget ==
    /\ phase = "ready"
    /\ \E t \in Targets :
         /\ query' = [kind |-> "target", arg |-> t]
         /\ answer' = GetNote(proc, t)
    /\ UNCHANGED <<pid, maps, phase, proc>>

Next == New \/ QuerySymbol \/ QueryTarget

Spec == Init /\ [][Next]_vars

-----------------------------------------------------------------------------
(***************************************************************************)
(* The reference: where a probe is at run time.  A file mapped into the   *)
(* process (by its whole path) is loaded at the start of its first map; the *)
(* probes of a file are the notes it was built with when its notes are    *)
(* all well formed (a file UsdtInfo::new rejects has none), and a note's  *)
(* probe is at that load address plus its link-time address, corrected by *)
(* the distance the .stapsdt.base section moved since the note was written *)
(* (the SystemTap "prelink" rule cited at line 119), in exact arithmetic. *)
(***************************************************************************)
LoadedFiles ==
    IF phase # "ready" \/ pid = PID_ALL THEN {}
    ELSE {f \in DOMAIN Elf : \E i \in DOMAIN maps : maps[i].path = f}
LoadAddr(f) == maps[SelectInSeq(maps, LAMBDA m : m.path = f)].start
ProbeAddr(f, n) == LoadAddr(f) + n.addr + Written[f].base_addr - n.base_addr
NotesOf(f) == IF Written[f].kind = "sdt" THEN ToSet(Written[f].notes) ELSE {}
\* Files whose .note.stapsdt (or its absence) UsdtInfo::new accepts.
HasUsdtInfo(f) == Written[f].kind \in {"sdt", "nobase"}

\* The probes at runtime address s.
ProbesAt(s) ==
    {x \in [path : LoadedFiles, note : UNION {NotesOf(f) : f \in LoadedFiles}] :
        x.note \in NotesOf(x.path) /\ ProbeAddr(x.path, x.note) = s}

\* The files of the process whose notes declare target t.
Holders(t) ==
    {f \in LoadedFiles \cup {ExePath} :
        \E n \in NotesOf(f) : n.provider = t.provider /\ n.name = t.name}

-----------------------------------------------------------------------------
(* Properties *)

Answers == {None, Error} \cup
           [path : DOMAIN Elf, note : UNION {ToSet(Info[f].notes) : f \in DOMAIN Elf}]
TypeOK ==
    /\ phase \in {"new", "ready", "failed"}
    /\ proc.exec.path = ExePath /\ proc.exec.addr \in {NoAddr} \cup 0..(Word - 1)
    /\ proc.libs \in Seq([path : DOMAIN Elf \ {ExePath}, addr : 0..(Word - 1)])
    /\ answer \in Answers

\* get_note_from_symbol, with its wrapping u64 subtractions (the symbol
\* minus each binary's load address, the note's prelink correction),
\* returns a note whose probe really is at the symbol, and returns None
\* only when no loaded file has a probe there: a symbol below a binary
\* that is searched, or a note moved below its section, never gives a
\* false match or hides the right one.
SymbolLookupAsSpecified ==
    query.kind = "symbol" =>
        IF ProbesAt(query.arg) = {} THEN answer = None
        ELSE answer \in ProbesAt(query.arg)

\* get_note answers a target with a note of that provider and name from a
\* file of the process that declares it, the executable's own note when
\* the executable declares it, None when no file does; a target without
\* "::" is an error once a file with USDT information is searched, and
\* None in a process that has none.
TargetLookupAsSpecified ==
    query.kind = "target" =>
        LET t == query.arg IN
        CASE t = Malformed ->
                answer = IF \E f \in LoadedFiles \cup {ExePath} : HasUsdtInfo(f)
                         THEN Error ELSE None
          [] Holders(t) = {} -> answer = None
          [] OTHER -> /\ answer.path \in Holders(t)
                      /\ answer.note.provider = t.provider
                      /\ answer.note.name = t.name
                      /\ ExePath \in Holders(t) => answer.path = ExePath

=============================================================================
