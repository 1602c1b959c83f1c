------------------------------ MODULE LRUSpec ------------------------------
(***************************************************************************)
(* What a least-recently-used cache promises (include/yarvs/cache/lru.hpp),*)
(* stated without a list, a hash table or an eviction: the cache answers   *)
(* for a key exactly when the key has been stored and fewer than Capacity  *)
(* other keys have been used since it was last used.  A key is used when   *)
(* it is stored and when it is found.                                      *)
(***************************************************************************)
EXTENDS Naturals, FiniteSets

CONSTANTS Key, Page, Capacity, End

VARIABLES
  written,  \* the last page stored for each key since the last clear
  since,    \* for each such key, the other keys used since its last use
  ret       \* what the last lookup returned

vars == <<written, since, ret>>

Resident(k) == k \in DOMAIN written /\ Cardinality(since[k]) < Capacity

\* k is used now: it has nothing after it, and comes after every other key.
Use(k) ==
  since' = [j \in DOMAIN since \cup {k} |-> IF j = k THEN {} ELSE since[j] \cup {k}]

Init ==
  /\ written = << >>
  /\ since = << >>
  /\ ret = End

lookup(k) ==
  /\ IF Resident(k)
     THEN Use(k) /\ ret' = [key |-> k, page |-> written[k]]
     ELSE UNCHANGED since /\ ret' = End
  /\ UNCHANGED written

update(k, p) ==
  /\ ~Resident(k)
  /\ written' = [j \in DOMAIN written \cup {k} |-> IF j = k THEN p ELSE written[j]]
  /\ Use(k)
  /\ UNCHANGED ret

clear ==
  /\ written' = << >>
  /\ since' = << >>
  /\ UNCHANGED ret

Next ==
  \/ \E k \in Key : lookup(k)
  \/ \E k \in Key, p \in Page : update(k, p)
  \/ clear

Spec == Init /\ [][Next]_vars
=============================================================================
