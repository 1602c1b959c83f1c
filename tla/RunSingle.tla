----------------------------- MODULE RunSingle -----------------------------
(***************************************************************************)
(* What executing a program means: one instruction after the other, each   *)
(* fetched from what memory holds at that moment.  This is                 *)
(* Hart::run_single (src/hart.cpp) called until run_ is false, with the    *)
(* entry into user mode and the count of executed instructions of          *)
(* Hart::run.  There is no cache here and nothing is remembered.           *)
(***************************************************************************)
EXTENDS HartExec

VARIABLE st  \* "idle", "running" or "thrown"

Init == ArchInit /\ st = "idle"

Start == st = "idle" /\ st' = "running" /\ StartRun

\* One call of run_single while the run lasts.
FetchFault == st = "running" /\ FetchFaults /\ RaiseException /\ UNCHANGED st

Execute ==
  /\ st = "running" /\ ~FetchFaults
  /\ LET i == Fetched(pc) IN
       \/ Completes(i) /\ Executed /\ UNCHANGED st
       \/ Traps(i) /\ UNCHANGED st
       \/ Throws(i) /\ st' = "thrown" /\ UNCHANGED arch

Next ==
  \/ Start
  \/ run_ /\ (FetchFault \/ Execute)

Spec == Init /\ [][Next]_<<arch, st>>
=============================================================================
