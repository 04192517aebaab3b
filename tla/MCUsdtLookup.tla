---------------------------- MODULE MCUsdtLookup ----------------------------
(***************************************************************************)
(* UsdtLookup on a 6-bit address space, a 64-bit target (8-byte addresses  *)
(* in the notes).  The executable "app" is mapped first, at 4, in two      *)
(* maps; "libc" has a note whose probe lies below its load address         *)
(* (base_addr above .stapsdt.base), so both of the code's subtractions     *)
(* wrap; "ld" has no .stapsdt.base (UsdtInfo::default) and "libm" is not a *)
(* readable ELF.  A target "a::d" is declared by the executable and by     *)
(* libc.  In place of libc a process may map one of three damaged copies   *)
(* of it: a note cut before its last nul, a note the elf crate parses as a *)
(* GNU build id, a provider that is not UTF-8.                             *)
(***************************************************************************)
EXTENDS UsdtLookup

\* Providers, names and argument formats, as bytes.
A == <<97>>      C == <<99>>      X == <<120>>
S == <<115>>     T == <<116>>     D == <<100>>
J == <<106>>     U == <<117>>     Y == <<121>>
ARGS == <<45, 52, 64, 120>>

\* The address size of the target (AddrBytes).
W == 8

N(prov, name, addr, base) == NoteRec(addr, base, 0, prov, name, ARGS)
Map(start, path) == [start |-> start, path |-> path]

AppNotes == <<N(A, S, 3, 10), N(A, T, 40, 42), NoteRec(5, 10, 12, A, D, <<>>)>>
LibcNotes == <<N(C, J, 2, 0), N(C, U, 2, 5), N(A, D, 7, 0)>>

MCWritten ==
    [f \in {<<"app">>, <<"libc">>, <<"ld">>, <<"libm">>,
            <<"libc-cut">>, <<"libc-gnu">>, <<"libc-utf">>} |->
        CASE f = <<"app">> -> [kind |-> "sdt", base_addr |-> 10, notes |-> AppNotes]
          [] f = <<"libc">> -> [kind |-> "sdt", base_addr |-> 0, notes |-> LibcNotes]
          [] f = <<"ld">> -> [kind |-> "nobase", base_addr |-> 0, notes |-> <<>>]
          [] f = <<"libm">> -> [kind |-> "unreadable", base_addr |-> 0, notes |-> <<>>]
          [] OTHER -> [kind |-> "corrupt", base_addr |-> 0, notes |-> LibcNotes]]

LibcElf == [readable |-> TRUE, base |-> 0,
            notes |-> [i \in 1..3 |-> SdtNote(LibcNotes[i], W)]]

\* The files on disk: each built from what it was written with, the three
\* copies of libc damaged in one note.
MCElf ==
    [f \in DOMAIN MCWritten |->
        CASE MCWritten[f].kind = "sdt" ->
                [readable |-> TRUE, base |-> MCWritten[f].base_addr,
                 notes |-> [i \in DOMAIN MCWritten[f].notes |-> SdtNote(MCWritten[f].notes[i], W)]]
          [] MCWritten[f].kind = "nobase" -> [readable |-> TRUE, base |-> NoSection, notes |-> <<>>]
          [] MCWritten[f].kind = "unreadable" -> [readable |-> FALSE, base |-> NoSection, notes |-> <<>>]
          [] f = <<"libc-cut">> ->
                [LibcElf EXCEPT !.notes[3].desc = SubSeq(@, 1, Len(@) - 1)]
          [] f = <<"libc-gnu">> ->
                [LibcElf EXCEPT !.notes[2].variant = "gnu_build_id"]
          [] f = <<"libc-utf">> ->
                [LibcElf EXCEPT !.notes[1].desc = SdtDesc(N(<<99, 255>>, J, 2, 0), W)]]

MCExePath == <<"app">>

\* A library whose path holds a byte that is not UTF-8.
MCNonUtf8 == {"lib-latin1"}

MCPseudo == {<<"[heap]">>, <<"[vdso]">>, <<"[stack]">>}

\* A process with every kind of map, libc (or a copy) mapped in two.
FullMaps(libc) ==
    <<Map(4, <<"app">>), Map(6, <<"app">>), Map(10, <<"[heap]">>), Map(16, libc),
      Map(20, libc), Map(21, <<>>), Map(24, <<"ld">>), Map(28, <<"libm">>),
      Map(30, <<"[vdso]">>)>>

MCMaps ==
    {FullMaps(l) : l \in {<<"libc">>, <<"libc-cut">>, <<"libc-gnu">>, <<"libc-utf">>}}
    \cup
    { <<Map(4, <<"app">>), Map(8, <<"[heap]">>), Map(16, <<"ld">>), Map(40, <<"libc">>),
        Map(44, <<"libc">>), Map(60, <<"[stack]">>)>>,
      <<Map(4, <<"app">>), Map(16, <<"lib-latin1">>)>>,
      <<>> }

MCSymbols == 0..63

MCTargets ==
    {[provider |-> A, name |-> S], [provider |-> A, name |-> D],
     [provider |-> C, name |-> J], [provider |-> C, name |-> U],
     [provider |-> X, name |-> Y], Malformed}

ASSUME AddrBytes = W

\* Every probe lies inside the address space, as it does in a process.
ASSUME \A ms \in MCMaps : \A i \in DOMAIN ms :
         ms[i].path \in DOMAIN MCWritten =>
           \A n \in ToSet(MCWritten[ms[i].path].notes) :
             ms[i].start + n.addr + MCWritten[ms[i].path].base_addr - n.base_addr \in 0..63

=============================================================================
