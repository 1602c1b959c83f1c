----------------------------- MODULE MC_Loader -----------------------------
(***************************************************************************)
(* An instance of Loader: four levels of tables of two entries, which map  *)
(* eight pages of two words with the sign bit clear, the last one the top  *)
(* of the stack.  A text and a data segment at any two addresses, in either*)
(* order, overlapping or not; or a text segment after one of another kind. *)
(***************************************************************************)
EXTENDS Loader

MCSegment(va, memory_size, file_size, flags, loadable) ==
  [va |-> va, memory_size |-> memory_size, file_size |-> file_size,
   flags |-> flags, loadable |-> loadable]

Text == {MCSegment(v, m, m, {"R", "E"}, TRUE) : v \in 0 .. 9, m \in {1, 4}}

Data == {MCSegment(v, 5, f, {"R", "W"}, TRUE) : v \in 0 .. 9, f \in {0, 3}}

Other == {MCSegment(2, 1, 1, {"R"}, FALSE), MCSegment(7, 3, 2, {}, TRUE), MCSegment(4, 1, 1, {"W"}, TRUE)}

MCElfs ==
  {<<t, d>> : t \in Text, d \in Data} \cup {<<d, t>> : t \in Text, d \in Data}
  \cup {<<o, t>> : o \in Other, t \in Text}

MCByte(k, j) == [zero EXCEPT !.ppn = 10 * k + j + 1]

MCTrap == [zero EXCEPT !.ppn = 99]

\* What the theorem about the walk takes for granted holds here.
ASSUME PagesAssumption == PagesTranslated
=============================================================================
