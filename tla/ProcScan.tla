------------------------------ MODULE ProcScan ------------------------------
(***************************************************************************)
(* Process lookup by command name, Process::from_cmd of                    *)
(* src/src/core/user/proc.rs, followed by Process::from_pid, Process::new  *)
(* and get_process_maps, against a /proc that other processes change while *)
(* it is read.                                                             *)
(*                                                                         *)
(* Every filesystem call the code makes on /proc is one step (is_dir,      *)
(* exists, read_to_string, read_link, File::open, the read of maps), and   *)
(* processes start and exit between any two of them.  A process is an     *)
(* incarnation [pid, comm]; a pid may be reused by a later incarnation     *)
(* when PidReuse holds.  The caller (SelfInc) never exits.                 *)
(*                                                                         *)
(* read_dir is modelled as one getdents batch: the entries are those of    *)
(* /proc when iteration starts, the fixed entries "self" and "thread-self" *)
(* first, then the pids in increasing order, as procfs lists them.         *)
(***************************************************************************)
EXTENDS Integers, Sequences, FiniteSets

CONSTANTS
    Incarnations,  \* every process that may exist: [pid, comm]
    SelfInc,       \* the calling process
    Cmds,          \* the command names a lookup may ask for
    PidReuse       \* whether a pid may be taken by a later process

ASSUME SelfInc \in Incarnations

VARIABLES
    live,      \* the processes alive now
    born,      \* the processes that have ever been alive
    cmd,       \* the `cmd` argument
    pc,        \* the statement of from_cmd / from_pid being executed
    entries,   \* the read_dir batch
    idx,       \* index of the next entry
    entry,     \* the current DirEntry
    pid,       \* `pid`: PID_ALL until a matching numeric entry is seen
    matched,   \* the process whose comm matched when pid was set
    exeOf,     \* the process whose exe link was read
    mapsOf,    \* the process whose maps file was opened
    startLive, \* processes alive when from_cmd was called (history)
    seen       \* processes alive at some point of the call (history)

vars == <<live, born, cmd, pc, entries, idx, entry, pid, matched, exeOf,
          mapsOf, startLive, seen>>
scan == <<cmd, entries, idx, entry, pid, matched, exeOf, mapsOf>>

PID_ALL == -1
NoProc == [pid |-> PID_ALL, comm |-> ""]

Pids == {i.pid : i \in Incarnations}
\* A directory entry: its name's kind and the pid directory it leads to.
\* The fixed entries are links to the caller's own directory.
Entry(name, p) == [name |-> name, dir |-> p]
Fixed == <<Entry("self", SelfInc.pid), Entry("thread-self", SelfInc.pid)>>

\* The process that /proc/<p> shows now, if any.
At(p) == {i \in live : i.pid = p}
Exists(p) == At(p) # {}
Proc(p) == CHOOSE i \in At(p) : TRUE

Done == {"ok", "NotFound", "TooMany", "IoComm", "NoExe", "NoMaps", "MapsEmpty"}

-----------------------------------------------------------------------------
(* The environment *)

\* A process exits; its /proc directory disappears.
Exit(i) ==
    /\ pc \notin Done
    /\ i \in live \ {SelfInc}
    /\ live' = live \ {i}
    /\ UNCHANGED <<born, pc, startLive, seen>> /\ UNCHANGED scan

\* A process starts under a free pid.
Spawn(i) ==
    /\ pc \notin Done
    /\ i \notin born
    /\ ~Exists(i.pid)
    /\ PidReuse \/ \A j \in born : j.pid # i.pid
    /\ live' = live \cup {i}
    /\ born' = born \cup {i}
    /\ seen' = seen \cup {i}
    /\ UNCHANGED <<pc, startLive>> /\ UNCHANGED scan

-----------------------------------------------------------------------------
(* from_cmd *)

Init ==
    /\ live \in {L \in SUBSET Incarnations :
                    /\ SelfInc \in L
                    /\ \A i, j \in L : i.pid = j.pid => i = j}
    /\ born = live
    /\ cmd \in Cmds
    /\ pc = "read_dir"
    /\ entries = <<>>
    /\ idx = 1
    /\ entry = Entry("", PID_ALL)
    /\ pid = PID_ALL
    /\ matched = NoProc
    /\ exeOf = NoProc
    /\ mapsOf = NoProc
    /\ startLive = live
    /\ seen = live

Step(to) == pc' = to /\ UNCHANGED <<live, born, startLive, seen>>

\* Path::new("/proc/").read_dir(): one batch of entries.
ReadDir ==
    LET pids == {p \in Pids : Exists(p)}
        RECURSIVE Ascending(_)
        Ascending(s) == IF s = {} THEN <<>>
                        ELSE LET m == CHOOSE p \in s : \A q \in s : p <= q
                             IN <<m>> \o Ascending(s \ {m})
    IN /\ pc = "read_dir"
       /\ entries' = Fixed \o [k \in 1..Cardinality(pids) |-> Entry("pid", Ascending(pids)[k])]
       /\ Step("next")
       /\ UNCHANGED <<cmd, idx, entry, pid, matched, exeOf, mapsOf>>

\* A loop head that stops one entry early.
NextEntrySkipLast ==
    /\ pc = "next"
    /\ IF idx >= Len(entries)
       THEN Step("after") /\ UNCHANGED <<idx, entry>>
       ELSE Step("is_dir") /\ entry' = entries[idx] /\ idx' = idx + 1
    /\ UNCHANGED <<cmd, entries, pid, matched, exeOf, mapsOf>>

\* A loop head that calls next() twice per iteration.
NextEntryTwice ==
    /\ pc = "next"
    /\ IF idx > Len(entries)
       THEN Step("after") /\ UNCHANGED <<idx, entry>>
       ELSE Step("is_dir") /\ entry' = entries[idx] /\ idx' = idx + 2
    /\ UNCHANGED <<cmd, entries, pid, matched, exeOf, mapsOf>>

\* The `for entry in ...` head: the next entry, or the end of the loop.
NextEntry ==
    /\ pc = "next"
    /\ IF idx > Len(entries)
       THEN Step("after") /\ UNCHANGED <<idx, entry>>
       ELSE Step("is_dir") /\ entry' = entries[idx] /\ idx' = idx + 1
    /\ UNCHANGED <<cmd, entries, pid, matched, exeOf, mapsOf>>

\* entry.path().is_dir(), then entry.path().join("comm").exists():
\* a directory that is gone makes the entry `continue`.
IsDir ==
    /\ pc \in {"is_dir", "comm_exists"}
    /\ Step(IF ~Exists(entry.dir) THEN "next"
            ELSE IF pc = "is_dir" THEN "comm_exists" ELSE "read_comm")
    /\ UNCHANGED scan

\* A pid taken from the directory the entry leads to (read_link of self),
\* so the fixed entries count as the caller's pid.
ReadCommSelfAsPid ==
    /\ pc = "read_comm"
    /\ IF ~Exists(entry.dir) THEN Step("IoComm") /\ UNCHANGED scan
       ELSE LET p == Proc(entry.dir) IN
            CASE p.comm # cmd -> Step("next") /\ UNCHANGED scan
              [] pid # PID_ALL -> Step("TooMany") /\ UNCHANGED scan
              [] OTHER ->
                    /\ Step("next")
                    /\ pid' = entry.dir
                    /\ matched' = p
                    /\ UNCHANGED <<cmd, entries, idx, entry, exeOf, mapsOf>>

(***************************************************************************)
(* fs::read_to_string(comm)? .trim().ne(cmd): a read of a directory that   *)
(* has gone returns an error and `?` ends from_cmd.  On a match, a second  *)
(* match is TooMany; the entry name is then parsed as a pid, and a name    *)
(* that is not a number (self, thread-self) is skipped.                    *)
(***************************************************************************)
ReadComm ==
    /\ pc = "read_comm"
    /\ IF ~Exists(entry.dir) THEN Step("IoComm") /\ UNCHANGED scan
       ELSE LET p == Proc(entry.dir) IN
            CASE p.comm # cmd -> Step("next") /\ UNCHANGED scan
              [] pid # PID_ALL -> Step("TooMany") /\ UNCHANGED scan
              [] entry.name = "pid" ->
                    /\ Step("next")
                    /\ pid' = entry.dir
                    /\ matched' = p
                    /\ UNCHANGED <<cmd, entries, idx, entry, exeOf, mapsOf>>
              [] OTHER -> Step("next") /\ UNCHANGED scan

\* After the loop: NotFound, or Process::from_pid(pid).
AfterScan ==
    /\ pc = "after"
    /\ Step(IF pid = PID_ALL THEN "NotFound" ELSE "proc_exists")
    /\ UNCHANGED scan

-----------------------------------------------------------------------------
(* from_pid, Process::new, get_process_maps *)

\* proc_dir.exists(), then proc_dir.join("exe").read_link().
FromPid ==
    /\ pc \in {"proc_exists", "read_exe"}
    /\ CASE ~Exists(pid) -> Step(IF pc = "proc_exists" THEN "NotFound" ELSE "NoExe")
                            /\ UNCHANGED scan
         [] pc = "proc_exists" -> Step("read_exe") /\ UNCHANGED scan
         [] OTHER -> /\ Step("maps_exists")
                     /\ exeOf' = Proc(pid)
                     /\ UNCHANGED <<cmd, entries, idx, entry, pid, matched, mapsOf>>

\* maps_file.exists(), then fs::File::open(maps_file)?: the open file
\* belongs to the process that holds the pid at that moment.
OpenMaps ==
    /\ pc \in {"maps_exists", "maps_open"}
    /\ CASE ~Exists(pid) -> Step("NoMaps") /\ UNCHANGED scan
         [] pc = "maps_exists" -> Step("maps_open") /\ UNCHANGED scan
         [] OTHER -> /\ Step("maps_read")
                     /\ mapsOf' = Proc(pid)
                     /\ UNCHANGED <<cmd, entries, idx, entry, pid, matched, exeOf>>

\* The lines of maps, then maps.get(0): the maps of a process that has
\* exited read as empty and the lookup fails.
ReadMaps ==
    /\ pc = "maps_read"
    /\ Step(IF mapsOf \in live THEN "ok" ELSE "MapsEmpty")
    /\ UNCHANGED scan

Scanner == ReadDir \/ NextEntry \/ IsDir \/ ReadComm \/ AfterScan \/ FromPid
           \/ OpenMaps \/ ReadMaps

Next ==
    \/ Scanner
    \/ \E i \in Incarnations : Exit(i) \/ Spawn(i)

Spec == Init /\ [][Next]_vars

Finished == pc \in Done

-----------------------------------------------------------------------------
(* Properties *)

Stages == {"read_dir", "next", "is_dir", "comm_exists", "read_comm", "after",
           "proc_exists", "read_exe", "maps_exists", "maps_open", "maps_read"}
TypeOK ==
    /\ live \subseteq born /\ born \subseteq Incarnations /\ SelfInc \in live
    /\ cmd \in Cmds
    /\ pc \in Stages \cup Done
    /\ idx \in 1..(Len(entries) + 1)
    /\ pid \in Pids \cup {PID_ALL}
    /\ {matched, exeOf, mapsOf} \subseteq Incarnations \cup {NoProc}

\* When from_cmd returns a Process, the executable link and the maps file
\* it read belong to the very process whose comm matched `cmd` during the
\* scan, although that process may have exited and its pid been taken
\* between the scan and from_pid.
FoundIsTarget ==
    pc = "ok" => /\ matched.comm = cmd
                /\ exeOf = matched
                /\ mapsOf = matched

\* from_cmd never answers NotFound while a process with the command lives
\* through the whole call: the /proc scan sees every such process.
LiveTargetNotMissed ==
    pc = "NotFound" => \A i \in startLive \cap live : i.comm # cmd

\* from_cmd answers TooMany only if two distinct processes with the command
\* were alive during the call: the caller, seen again through /proc/self
\* and /proc/thread-self, is not counted twice.
TooManyOnlyIfTwo ==
    pc = "TooMany" => Cardinality({i \in seen : i.comm = cmd}) >= 2

\* A lookup of a command that exactly one process has, and that process
\* lives through the call, returns that process: the exit of any other
\* process during the scan does not make from_cmd fail.
FindsUniqueTarget ==
    (/\ Finished
     /\ \E i \in startLive \cap live : i.comm = cmd
     /\ Cardinality({i \in seen : i.comm = cmd}) = 1)
    => pc = "ok"

=============================================================================
