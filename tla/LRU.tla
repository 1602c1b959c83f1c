-------------------------------- MODULE LRU --------------------------------
(***************************************************************************)
(* The least-recently-used cache of include/yarvs/cache/lru.hpp, the one   *)
(* Hart keeps its translated basic blocks in.                              *)
(*                                                                         *)
(* The class holds a std::list of (key, page) pairs, most recently used    *)
(* first, and a std::unordered_map from keys to iterators into that list.  *)
(* The point of modelling it at this level is that the two containers must *)
(* agree at all times: an iterator is the address of a list node, so the   *)
(* list is modelled as a sequence of node addresses and the nodes' contents*)
(* as a function of the addresses that are allocated.  Freed addresses are *)
(* reused, as an allocator does.                                           *)
(***************************************************************************)
EXTENDS Naturals, FiniteSets, SequencesExt

CONSTANTS
  Key,       \* the keys
  Page,      \* the cached values
  Node,      \* the addresses the allocator can give to a list node
  Capacity,  \* LRU::capacity_
  End        \* what lookup returns on a miss: pages_.end()

\* A cache of capacity 0 is full when empty: update would pop from an empty
\* list.  Hart builds its cache with kDefaultCacheCapacity = 64.
ASSUME CapacityAssumption == Capacity \in Nat \ {0}

VARIABLES
  pages,  \* the list: node addresses, front first
  entry,  \* contents of the allocated nodes
  table,  \* hash_table_: from keys to node addresses
  ret     \* what the last lookup returned: the pair referred to, or End

vars == <<pages, entry, table, ret>>

Pair == [key : Key, page : Page]

-----------------------------------------------------------------------------
(* Operations on the containers. *)

\* Mutants of Splice: the node is copied to the front, or nothing is moved.
SpliceCopies(s, i) == <<s[i]>> \o s

SpliceForgotten(s, i) == s

\* pages_.splice(pages_.begin(), pages_, it): the i-th node goes to the front,
\* the nodes that were before it move one place back.
Splice(s, i) ==
  [j \in 1 .. Len(s) |-> IF j = 1 THEN s[i] ELSE IF j <= i THEN s[j - 1] ELSE s[j]]

\* hash_table_.emplace(key, value): an existing binding is not overwritten.
Emplace(f, k, v) ==
  [x \in DOMAIN f \cup {k} |-> IF x \in DOMAIN f THEN f[x] ELSE v]

\* Mutant of Erase: the key of the freed node stays in the table.
EraseForgotten(f, k) == f

\* hash_table_.erase(key)
Erase(f, k) == [x \in DOMAIN f \ {k} |-> f[x]]

size == Cardinality(DOMAIN table)

\* Mutants of is_full: one too late, one too early.
FullTooLate == size > Capacity

FullTooEarly == size + 1 >= Capacity

is_full == size = Capacity

-----------------------------------------------------------------------------
Init ==
  /\ pages = << >>
  /\ entry = << >>
  /\ table = << >>
  /\ ret = End

LookupHit(k) ==
  /\ k \in DOMAIN table
  /\ \E i \in DOMAIN pages :
       /\ pages[i] = table[k]
       /\ pages' = Splice(pages, i)
  /\ ret' = entry[table[k]]
  /\ UNCHANGED <<entry, table>>

LookupMiss(k) ==
  /\ k \notin DOMAIN table
  /\ ret' = End
  /\ UNCHANGED <<pages, entry, table>>

lookup(k) == LookupHit(k) \/ LookupMiss(k)

\* What is left of the two containers once update has made room: when the
\* cache is full, the key of the last node is erased and the node is freed.
RoomInTable == IF is_full THEN Erase(table, entry[Last(pages)].key) ELSE table

RoomInPages == IF is_full THEN Front(pages) ELSE pages

\* The body of update_impl.  It has a precondition (see Contract), which the
\* code asserts and a release build does not check.
update(k, p) ==
  \E n \in Node \ Range(RoomInPages) :
    /\ pages' = Cons(n, RoomInPages)
    /\ entry' = [m \in Range(RoomInPages) \cup {n} |->
                   IF m = n THEN [key |-> k, page |-> p] ELSE entry[m]]
    /\ table' = Emplace(RoomInTable, k, n)
    /\ UNCHANGED ret

\* assert(!hash_table_.contains(key)): what the caller of update owes.
Contract(k) == k \notin DOMAIN table

clear ==
  /\ pages' = << >>
  /\ entry' = << >>
  /\ table' = << >>
  /\ UNCHANGED ret

Next ==
  \/ \E k \in Key : lookup(k)
  \/ \E k \in Key, p \in Page : Contract(k) /\ update(k, p)
  \/ clear

Spec == Init /\ [][Next]_vars

-----------------------------------------------------------------------------
(* Properties. *)

\* Every variable has its type: the list and the table hold addresses of
\* allocated nodes, never of nodes update or clear has freed.
TypeOK ==
  /\ pages \in Seq(DOMAIN entry)
  /\ entry \in [DOMAIN entry -> Pair] /\ DOMAIN entry \subseteq Node
  /\ table \in [DOMAIN table -> DOMAIN entry] /\ DOMAIN table \subseteq Key
  /\ ret \in Pair \cup {End}

\* The list and the hash table describe the same cache: no node is twice in
\* the list, every allocated node is in it, the table finds every listed node
\* under that node's own key, and every key of the table leads to a node that
\* carries that key.  lookup's splice and update's erase/pop_back/emplace
\* change the two containers one after the other and must keep this.
Consistent ==
  /\ IsInjective(pages)
  /\ Range(pages) = DOMAIN entry
  /\ \A n \in DOMAIN entry : entry[n].key \in DOMAIN table /\ table[entry[n].key] = n
  /\ \A k \in DOMAIN table : entry[table[k]].key = k

\* The cache never holds more than its capacity, and is_full, which asks the
\* table, speaks for the list as well.
Bounded ==
  /\ Len(pages) <= Capacity
  /\ size = Len(pages)
=============================================================================
