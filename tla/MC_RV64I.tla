------------------------------ MODULE MC_RV64I ------------------------------
(***************************************************************************)
(* The programs of Idioms on operands at the limits of the types: 0, 1, -1 *)
(* and the extremes of signed and unsigned numbers of 32 and of 64 bits.   *)
(***************************************************************************)
EXTENDS Idioms, TLC

MCReg == 0 .. 6

MCValues ==
  {{}, {0}, {1, 5}, 0 .. 30, {31}, 0 .. 31, {32}, 31 .. 63, 0 .. 62, {63}, 0 .. 63,
   {2, 30, 33, 40}}

\* Offsets of functions: near and far, forward and backward, with a tag in bit 0.
Far == {Num(64), Num(65), Num(2048), {11, 12}, {20, 5}, {30, 4}, {31}, 6 .. 31}
Near20 == {Num(64), Neg(64), {19}, {5, 11}}

MCStarts ==
  WordOps(MCValues) \cup Straights(MCValues) \cup Wides({{}, {0}, 0 .. 63})
  \cup Constants(MCValues) \cup Calls(Far, Near20)
  \cup Memories({<<{}, 0 .. 63>>, <<{7, 15, 31, 40, 63}, {0, 9, 23, 55}>>})
  \cup Decisions(MCValues) \cup Loops(MCValues)

\* The instance is one of those the theorems are about.
ASSUME ProgramsAssumption ==
  /\ WordPrograms /\ StraightPrograms /\ WidePrograms /\ ConstantPrograms
  /\ CallPrograms /\ CopyPrograms /\ BranchPrograms /\ LoopPrograms
=============================================================================
