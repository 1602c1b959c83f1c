----------------------------- MODULE PageTable -----------------------------
(***************************************************************************)
(* Page tables in physical memory and the walk through them: the part of   *)
(* Memory::translate_address (include/yarvs/memory/memory.hpp) that finds  *)
(* the leaf entry of an address, with PTE and VirtualAddress.              *)
(*                                                                         *)
(* A page holds Slots words and a table of the same size has Slots         *)
(* entries; the code has 512.  A word is an entry of a page table whether  *)
(* it is used as one or not: 64 bits are the flags, the reserved bits and  *)
(* the page number, and a word of data is told by its page number.         *)
(* Addresses count words.                                                  *)
(***************************************************************************)
EXTENDS Integers

CONSTANTS
  Levels,  \* depth of the tree: 3, 4 or 5 in the code
  Slots,   \* entries of a table
  Beyond   \* number of values of the address bits above the translated ones

ASSUME PageTableAssumption ==
  /\ Levels \in Nat \ {0}
  /\ Slots \in Nat \ {0, 1}
  /\ Beyond \in Nat \ {0}

Word == [V : BOOLEAN, R : BOOLEAN, W : BOOLEAN, E : BOOLEAN, U : BOOLEAN,
         A : BOOLEAN, D : BOOLEAN, reserved : BOOLEAN, ppn : Nat]

zero == [V |-> FALSE, R |-> FALSE, W |-> FALSE, E |-> FALSE, U |-> FALSE,
         A |-> FALSE, D |-> FALSE, reserved |-> FALSE, ppn |-> 0]

is_pointer_to_next_level_pte(w) == ~w.R /\ ~w.W /\ ~w.E

is_rwx_reserved(w) == w.W /\ ~w.R

-----------------------------------------------------------------------------
(* Virtual addresses. *)

\* An entry of level i stands for span[i] pages, which have span[i + 1] words.
span[n \in 0 .. Levels + 1] == IF n = 0 THEN 1 ELSE Slots * span[n - 1]

\* The addresses with the translated bits only, and all there are.
Width == span[Levels + 1]

Virtual == 0 .. Beyond * Width - 1

\* Mutant of get_page_offset: the page number is not masked out.
OffsetUnmasked(va) == va

get_page_offset(va) == va % Slots

get_vpn(va, i) == (va \div span[i + 1]) % Slots

\* sext<39>, <48>, <57>: the sign bit is flipped and its weight subtracted;
\* the bits above it are not masked.
sext(va) ==
  LET sign == Width \div 2
      flipped == IF (va \div sign) % 2 = 1 THEN va - sign ELSE va + sign
  IN  (flipped - sign) % (Beyond * Width)

-----------------------------------------------------------------------------
(* The walk. *)

NoLeaf == [level |-> Levels, at |-> 0]

\* Where the leaf of va is, for each level i and each page a there may be a
\* table in.  An entry that is not valid, or a pointer on the last level, ends
\* the walk.
descend(m, va) ==
  LET down[i \in 0 .. Levels - 1] == [a \in Nat |->
        LET at == a * Slots + get_vpn(va, i)
            pte == m[at]
        IN  IF ~pte.V \/ is_rwx_reserved(pte) \/ pte.reserved THEN NoLeaf
            ELSE IF ~is_pointer_to_next_level_pte(pte) THEN [level |-> i, at |-> at]
            ELSE IF i = 0 THEN NoLeaf
            ELSE down[i - 1][pte.ppn]]
  IN  down

walk(m, root, va) == descend(m, va)[Levels - 1][root]

\* get_lower_ppn(i - 1): a leaf of level i must be aligned to the pages it spans.
misaligned(pte, i) == pte.ppn % span[i] # 0

\* upper and lower page number together, and the offset in the page: a leaf of
\* a higher level gives the first page it spans.
result(pte, va) == pte.ppn * Slots + get_page_offset(va)
=============================================================================
