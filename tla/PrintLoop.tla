------------------------------ MODULE PrintLoop ------------------------------
(***************************************************************************)
(* The event loop of the `print` subcommand, Print::run of                 *)
(* src/retis/src/process/cli/print.rs, against a termination signal that   *)
(* arrives at any moment and an event file read one record at a time.      *)
(*                                                                         *)
(* The file holds FileLen records, identified by their position.  The      *)
(* first unreadable record, if any, is BadAt (0: none).  The signal        *)
(* handler of Running and FileEventsFactory::next_event are outside src/   *)
(* and follow spec section 6: the handler clears the running flag; the     *)
(* factory returns the next record, Eof at the end of the file, an error   *)
(* on an unreadable record, or Timeout after its one-second wait (at most  *)
(* MaxTimeouts times, a bound of the model).                               *)
(***************************************************************************)
EXTENDS Naturals, Sequences

CONSTANTS FileLen, MaxTimeouts

VARIABLES
    pc,        \* "setup", "head" (the while condition), "next", "process", "done", "error"
    running,   \* the flag of Running, cleared by the signal handler
    badAt,     \* the first unreadable record, 0 if none (fixed per file)
    pos,       \* records consumed by the factory
    event,     \* the event returned by the last next_event
    printed,   \* the events written to stdout, in order
    timeouts,  \* Timeout results so far (bounded)
    sigAt      \* Len(printed) when the signal arrived, or NoSignal

vars == <<pc, running, badAt, pos, event, printed, timeouts, sigAt>>

NoSignal == FileLen + 1
Returned == {"done", "error"}

-----------------------------------------------------------------------------
\* Running::new(): the flag is set and the file is unread.
Init ==
    /\ pc = "setup"
    /\ running = TRUE
    /\ badAt \in 0..FileLen
    /\ pos = 0
    /\ event = 0
    /\ printed = <<>>
    /\ timeouts = 0
    /\ sigAt = NoSignal

\* register_term_signals()? and FileEventsFactory::new(..)?: the handler
\* is installed and the file opened, or either fails and run() returns the
\* error before the loop.
Setup ==
    /\ pc = "setup"
    /\ pc' \in {"head", "error"}
    /\ UNCHANGED <<running, badAt, pos, event, printed, timeouts, sigAt>>

\* The handler of SIGINT/SIGTERM, which may run at any time once it is
\* registered and while run() has not returned.
Signal ==
    /\ running
    /\ pc \notin Returned \cup {"setup"}
    /\ running' = FALSE
    /\ sigAt' = Len(printed)
    /\ UNCHANGED <<pc, badAt, pos, event, printed, timeouts>>

\* A loop that no longer looks at the flag.
WhileRunningIgnoresFlag ==
    /\ pc = "head"
    /\ pc' = "next"
    /\ UNCHANGED <<running, badAt, pos, event, printed, timeouts, sigAt>>

\* while run.running(): enter the body, or leave the loop with Ok(()).
WhileRunning ==
    /\ pc = "head"
    /\ pc' = IF running THEN "next" ELSE "done"
    /\ UNCHANGED <<running, badAt, pos, event, printed, timeouts, sigAt>>

(***************************************************************************)
(* match factory.next_event(Some(1s))? : one action per outcome.           *)
(***************************************************************************)

\* A read that accepts one record past the end.
GotEventPastEnd ==
    /\ pc = "next" /\ pos <= FileLen /\ pos + 1 # badAt
    /\ pos' = pos + 1 /\ event' = pos + 1 /\ pc' = "process"
    /\ UNCHANGED <<running, badAt, printed, timeouts, sigAt>>

\* Event(event): the next record, handed to process_one.
GotEvent ==
    /\ pc = "next" /\ pos < FileLen /\ pos + 1 # badAt
    /\ pos' = pos + 1 /\ event' = pos + 1 /\ pc' = "process"
    /\ UNCHANGED <<running, badAt, printed, timeouts, sigAt>>

\* An unreadable record: `?` returns the error from run().
GotError ==
    /\ pc = "next" /\ pos < FileLen /\ pos + 1 = badAt
    /\ pc' = "error"
    /\ UNCHANGED <<running, badAt, pos, event, printed, timeouts, sigAt>>

\* An end of file reported one record early.
GotEofEarly ==
    /\ pc = "next" /\ pos + 1 >= FileLen
    /\ pc' = "done"
    /\ UNCHANGED <<running, badAt, pos, event, printed, timeouts, sigAt>>

\* An end of file handled as `continue`.
GotEofContinues ==
    /\ pc = "next" /\ pos = FileLen
    /\ pc' = "head"
    /\ UNCHANGED <<running, badAt, pos, event, printed, timeouts, sigAt>>

\* Eof => break.
GotEof ==
    /\ pc = "next" /\ pos = FileLen
    /\ pc' = "done"
    /\ UNCHANGED <<running, badAt, pos, event, printed, timeouts, sigAt>>

\* Timeout => continue: back to the loop head, nothing consumed.
GotTimeout ==
    /\ pc = "next" /\ timeouts < MaxTimeouts
    /\ timeouts' = timeouts + 1 /\ pc' = "head"
    /\ UNCHANGED <<running, badAt, pos, event, printed, sigAt>>

NextEvent == GotEvent \/ GotError \/ GotEof \/ GotTimeout

\* output.process_one(&event)? : the event is written, or the write fails
\* and run() returns the error.
Process ==
    /\ pc = "process"
    /\ \/ printed' = Append(printed, event) /\ pc' = "head"
       \/ pc' = "error" /\ UNCHANGED printed
    /\ UNCHANGED <<running, badAt, pos, event, timeouts, sigAt>>

Loop == Setup \/ WhileRunning \/ NextEvent \/ Process

Next == Loop \/ Signal

\* next_event waits at most one second, so each step of the loop is taken;
\* the signal is the environment's and is not assumed to come.
Spec == Init /\ [][Next]_vars /\ WF_vars(Loop)

-----------------------------------------------------------------------------
(* Properties *)

TypeOK ==
    /\ pc \in {"setup", "head", "next", "process"} \cup Returned
    /\ running \in BOOLEAN
    /\ badAt \in 0..FileLen
    /\ pos \in 0..FileLen /\ event \in 0..FileLen
    /\ printed \in Seq(1..FileLen)
    /\ timeouts \in 0..MaxTimeouts
    /\ sigAt \in 0..FileLen \cup {NoSignal}

\* After SIGINT/SIGTERM at most the event being handled is still printed
\* (spec section 6, "clean termination after flushing the current event"):
\* the loop looks at the flag before every next_event.
AtMostOneAfterSignal ==
    sigAt # NoSignal => Len(printed) <= sigAt + 1

\* run() returns Ok(()) without a signal only at the end of the file, and
\* then every record has been printed.
CleanEofPrintsAll ==
    (pc = "done" /\ sigAt = NoSignal) => Len(printed) = FileLen

\* print always returns: at the end of the file, after a signal, or with
\* an error; a Timeout does not keep it looping forever.
Terminates == <>(pc \in Returned)

=============================================================================
