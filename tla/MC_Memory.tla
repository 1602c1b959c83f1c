----------------------------- MODULE MC_Memory -----------------------------
(***************************************************************************)
(* An instance of Memory: three levels of tables of two entries.  Page 1   *)
(* is the root, 2 the table below it, 3 a table of leaves; pages 4 and 5   *)
(* hold data and page 6 follows them.  Which leaves there are, and with    *)
(* which flags, varies.                                                    *)
(***************************************************************************)
EXTENDS Memory

Pointer(f) == [zero EXCEPT !.V = TRUE, !.U = TRUE, !.ppn = f]

Leaf(f, flags) ==
  [zero EXCEPT !.V = TRUE, !.ppn = f, !.R = "R" \in flags, !.W = "W" \in flags,
               !.E = "E" \in flags, !.U = "U" \in flags,
               !.D = "D" \in flags]

\* The entries of the table of leaves and the upper half of the table above:
\* data pages, one marked dirty but never accessed, a leaf of the middle level,
\* aligned or not, a table mapped.
Low == {Leaf(4, f) : f \in {{"R", "W"}, {"E", "D"}, {"W", "U"}}}
High == {Leaf(5, {"R", "W", "U"}), Leaf(3, {"R", "U"}), Pointer(4)}
Upper == {zero, Leaf(4, {"R", "W", "U"}), Leaf(5, {"R", "W", "U"}), Pointer(3)}

MCImages ==
  {[p \in Address |->
      CASE p = 2 -> Pointer(2) [] p = 4 -> Pointer(3) [] p = 5 -> up
        [] p = 6 -> low [] p = 7 -> high [] OTHER -> zero] :
     low \in Low, high \in High, up \in Upper}

\* User mode; supervisor mode without SUM, with it, and with MXR; machine mode
\* with the translation of user mode, and without.
MCContexts ==
  {[priv |-> c[1], mpp |-> U, mprv |-> c[2], sum |-> c[3], mxr |-> c[4]] :
     c \in {<<U, FALSE, FALSE, FALSE>>, <<S, FALSE, FALSE, FALSE>>,
            <<S, FALSE, TRUE, FALSE>>, <<S, FALSE, FALSE, TRUE>>,
            <<M, TRUE, FALSE, FALSE>>, <<M, FALSE, FALSE, FALSE>>}}

\* What programs store would be an entry that grants everything.
MCStored == {Leaf(3, {"R", "W", "E", "U"})}

\* The machine maps page 5 for reading, which withdraws the right to write it.
MCMachineStores == {<<7, Leaf(5, {"R"})>>}
=============================================================================
