------------------------------ MODULE MC_Traps ------------------------------
(***************************************************************************)
(* An instance of Traps.                                                   *)
(***************************************************************************)
EXTENDS Traps

\* The machine handler is at 0, the supervisor one at 4, written with the
\* vectored mode bit set.
MCWritten(n) ==
  CASE n = "mtvec" -> {0}
    [] n = "stvec" -> {5}
    [] n \in {"mepc", "sepc"} -> Pc
    [] n \in {"mstatus", "sstatus"} -> {{12}, MPP \cup {SPP}}
    [] n = "medeleg" -> {{PageFault}}
    [] n = "satp" -> {9}
    [] OTHER -> {0}
=============================================================================
