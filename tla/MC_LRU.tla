--------------------------- MODULE MC_LRU ---------------------------
(* A small instance of LRUHistory, with more keys than the cache can hold.  *)
EXTENDS LRUHistory, TLC

Symmetry == Permutations(Key) \cup Permutations(Page) \cup Permutations(Node)
=============================================================================
