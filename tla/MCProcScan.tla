----------------------------- MODULE MCProcScan -----------------------------
(***************************************************************************)
(* ProcScan with three pids.  Pids 1 and 2 may each be taken by a process  *)
(* running "ovs" or "retis"; pid 3 is the caller, itself a "retis".  A     *)
(* lookup asks for either command, so it meets no match, one match, the    *)
(* caller itself, and two matches, with processes exiting and starting at  *)
(* every step of the scan.                                                 *)
(***************************************************************************)
EXTENDS ProcScan

MCSelf == [pid |-> 3, comm |-> "retis"]
MCIncarnations == {[pid |-> p, comm |-> c] : p \in {1, 2}, c \in {"ovs", "retis"}} \cup {MCSelf}
MCCmds == {"ovs", "retis"}

=============================================================================
