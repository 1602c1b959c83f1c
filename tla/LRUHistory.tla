----------------------------- MODULE LRUHistory -----------------------------
(***************************************************************************)
(* LRU with the two history variables its specification LRUSpec talks      *)
(* about, and the refinement.  The history only watches: it constrains no  *)
(* step of the cache.                                                      *)
(***************************************************************************)
EXTENDS LRU

VARIABLES
  written,  \* the last page stored for each key since the last clear
  since     \* for each such key, the other keys used since its last use

Abstract == INSTANCE LRUSpec

HInit == Init /\ written = << >> /\ since = << >>

HNext ==
  \/ \E k \in Key : LookupHit(k) /\ Abstract!Use(k) /\ UNCHANGED written
  \/ \E k \in Key : LookupMiss(k) /\ UNCHANGED <<written, since>>
  \/ \E k \in Key, p \in Page :
       /\ Contract(k) /\ update(k, p)
       /\ written' = [j \in DOMAIN written \cup {k} |-> IF j = k THEN p ELSE written[j]]
       /\ Abstract!Use(k)
  \/ clear /\ written' = << >> /\ since' = << >>

HSpec == HInit /\ [][HNext]_<<vars, written, since>>

-----------------------------------------------------------------------------
\* The list is in order of use: the keys used after the key at place i are
\* exactly the keys at the places before it.  lookup's splice and update's
\* emplace_front are what maintains it.
RecencyOrder ==
  \A i \in DOMAIN pages :
    since[entry[pages[i]].key] = {entry[pages[j]].key : j \in 1 .. i - 1}

\* The cache implements its specification: it answers for exactly the keys
\* the last Capacity distinct uses name, with the page last stored for each.
ImplementsLRU == Abstract!Spec
=============================================================================
