----------------------------- MODULE LRU_proofs -----------------------------
(***************************************************************************)
(* The list and the hash table of LRU always agree and never outgrow the   *)
(* capacity, the list is in order of use, and the cache implements         *)
(* LRUSpec: for every set of keys and pages and every capacity.            *)
(***************************************************************************)
EXTENDS LRUHistory, SequenceTheorems, FiniteSetTheorems, TLAPS

\* What the three list operations do to a list without repetitions.
LEMMA SpliceLemma ==
  ASSUME NEW S, NEW s \in Seq(S), IsInjective(s), NEW i \in 1 .. Len(s)
  PROVE  /\ Splice(s, i) \in Seq(S)
         /\ Len(Splice(s, i)) = Len(s)
         /\ IsInjective(Splice(s, i))
         /\ Range(Splice(s, i)) = Range(s)
PROOF
<1> DEFINE t == Splice(s, i)
<1>1. Len(s) \in Nat /\ DOMAIN s = 1 .. Len(s) /\ \A j \in 1 .. Len(s) : s[j] \in S
  BY LenProperties, ElementOfSeq
<1>2. /\ DOMAIN t = 1 .. Len(s)
      /\ \A j \in 1 .. Len(s) : t[j] = IF j = 1 THEN s[i] ELSE IF j <= i THEN s[j - 1] ELSE s[j]
  BY <1>1 DEF Splice
<1>3. \A j \in 1 .. Len(s) : t[j] \in S
  BY <1>1, <1>2
<1>4. t \in Seq(S) /\ Len(t) = Len(s)
  <2>1. t \in [1 .. Len(s) -> S]
    BY <1>3 DEF Splice
  <2>. QED BY <2>1, <1>1, <1>2
<1>5. IsInjective(t)
  BY <1>1, <1>2 DEF IsInjective
<1>6. Range(t) = Range(s)
  <2>1. ASSUME NEW x \in Range(s) PROVE x \in Range(t)
    <3>1. PICK j \in 1 .. Len(s) : x = s[j]
      BY <1>1 DEF Range
    <3>2. CASE j = i
      BY <3>1, <3>2, <1>1, <1>2 DEF Range
    <3>3. CASE j < i
      <4>1. j + 1 \in 1 .. Len(s) /\ t[j + 1] = x
        BY <3>1, <3>3, <1>1, <1>2
      <4>. QED BY <4>1, <1>2 DEF Range
    <3>4. CASE j > i
      BY <3>1, <3>4, <1>1, <1>2 DEF Range
    <3>. QED BY <3>2, <3>3, <3>4, <1>1
  <2>2. Range(t) \subseteq Range(s)
    BY <1>1, <1>2 DEF Range
  <2>. QED BY <2>1, <2>2
<1>. QED BY <1>4, <1>5, <1>6

LEMMA FrontLemma ==
  ASSUME NEW S, NEW s \in Seq(S), IsInjective(s), Len(s) > 0
  PROVE  /\ Len(Front(s)) = Len(s) - 1
         /\ IsInjective(Front(s))
         /\ Range(Front(s)) = Range(s) \ {Last(s)}
         /\ Last(s) \in Range(s)
         /\ Front(s) \in Seq(Range(Front(s)))
PROOF
<1> DEFINE t == Front(s)
<1>1. Len(s) \in Nat /\ DOMAIN s = 1 .. Len(s) /\ \A j \in 1 .. Len(s) : s[j] \in S
  BY LenProperties, ElementOfSeq
<1>2. t \in Seq(S) /\ Len(t) = Len(s) - 1 /\ \A j \in 1 .. Len(s) - 1 : t[j] = s[j]
  BY <1>1, SubSeqProperties DEF Front
<1>3. DOMAIN t = 1 .. Len(s) - 1
  BY <1>2, LenProperties
<1>4. IsInjective(t)
  BY <1>1, <1>2, <1>3 DEF IsInjective
<1>5. Range(t) = Range(s) \ {Last(s)}
  BY <1>1, <1>2, <1>3 DEF Range, Last, IsInjective
<1>6. Last(s) \in Range(s)
  BY <1>1 DEF Range, Last
<1>7. t \in Seq(Range(t))
  <2>1. t \in [1 .. Len(t) -> Range(t)]
    BY <1>2, <1>3 DEF Range
  <2>. QED BY <2>1, <1>2, <1>1
<1>. QED BY <1>2, <1>4, <1>5, <1>6, <1>7

LEMMA ConsLemma ==
  ASSUME NEW S, NEW s \in Seq(S), IsInjective(s), NEW n, n \notin Range(s)
  PROVE  /\ Cons(n, s) \in Seq(S \cup {n})
         /\ Len(Cons(n, s)) = Len(s) + 1
         /\ IsInjective(Cons(n, s))
         /\ Range(Cons(n, s)) = Range(s) \cup {n}
PROOF
<1> DEFINE t == Cons(n, s)
<1>1. Len(s) \in Nat /\ DOMAIN s = 1 .. Len(s) /\ \A j \in 1 .. Len(s) : s[j] \in S
  BY LenProperties, ElementOfSeq
<1>2. s \in Seq(S \cup {n}) /\ <<n>> \in Seq(S \cup {n}) /\ Len(<<n>>) = 1 /\ <<n>>[1] = n
  <2>1. s \in [1 .. Len(s) -> S \cup {n}]
    BY <1>1
  <2>. QED BY <2>1, <1>1
<1>3. /\ t \in Seq(S \cup {n})
      /\ Len(t) = Len(s) + 1
      /\ \A j \in 1 .. Len(s) + 1 : t[j] = IF j <= 1 THEN <<n>>[j] ELSE s[j - 1]
  <2>. HIDE DEF t
  <2>1. t = <<n>> \o s
    BY DEF t, Cons
  <2>. QED BY <1>1, <1>2, <2>1, ConcatProperties
<1>4. DOMAIN t = 1 .. Len(s) + 1
  BY <1>3, LenProperties
<1>5. t[1] = n /\ \A j \in 1 .. Len(s) : t[j + 1] = s[j]
  BY <1>1, <1>2, <1>3
<1>6. \A j \in 1 .. Len(s) + 1 : j = 1 \/ (j - 1 \in 1 .. Len(s) /\ t[j] = s[j - 1])
  <2>. HIDE DEF t
  <2>. QED BY <1>1, <1>3
<1>7. IsInjective(t)
  <2>. HIDE DEF t
  <2>1. \A j \in 1 .. Len(s) : s[j] # n
    BY <1>1 DEF Range
  <2>2. SUFFICES ASSUME NEW a \in 1 .. Len(s) + 1, NEW b \in 1 .. Len(s) + 1, t[a] = t[b]
                 PROVE  a = b
    BY <1>4 DEF IsInjective
  <2>3. CASE a = 1 \/ b = 1
    BY <1>5, <1>6, <2>1, <2>2, <2>3
  <2>4. CASE a # 1 /\ b # 1
    <3>1. a - 1 \in 1 .. Len(s) /\ b - 1 \in 1 .. Len(s) /\ s[a - 1] = s[b - 1]
      BY <1>6, <2>2, <2>4
    <3>2. a - 1 = b - 1
      BY <3>1, <1>1 DEF IsInjective
    <3>. QED BY <3>2, <1>1
  <2>. QED BY <2>3, <2>4
<1>8. Range(t) = Range(s) \cup {n}
  <2>. HIDE DEF t
  <2>1. Range(t) \subseteq Range(s) \cup {n}
    <3>1. SUFFICES ASSUME NEW j \in 1 .. Len(s) + 1 PROVE t[j] \in Range(s) \cup {n}
      BY <1>4 DEF Range
    <3>2. j = 1 \/ (j - 1 \in DOMAIN s /\ t[j] = s[j - 1])
      BY <1>1, <1>6
    <3>. QED BY <1>5, <3>2 DEF Range
  <2>2. n \in Range(t)
    BY <1>1, <1>4, <1>5 DEF Range
  <2>3. Range(s) \subseteq Range(t)
    BY <1>1, <1>4, <1>5 DEF Range
  <2>. QED BY <2>1, <2>2, <2>3
<1>. QED BY <1>3, <1>7, <1>8

-----------------------------------------------------------------------------
\* The inductive invariant: the three invariants together, and the finiteness
\* of the table that the cardinalities need.
IInv == TypeOK /\ Consistent /\ Bounded /\ IsFiniteSet(DOMAIN table)

\* Between making room and adding the new node: the list and the table still
\* agree and there is a place for one more.
LEMMA RoomLemma ==
  ASSUME IInv
  PROVE  /\ RoomInPages \in Seq(Range(RoomInPages))
         /\ IsInjective(RoomInPages)
         /\ Range(RoomInPages) \subseteq DOMAIN entry
         /\ DOMAIN RoomInTable \subseteq DOMAIN table
         /\ IsFiniteSet(DOMAIN RoomInTable)
         /\ Cardinality(DOMAIN RoomInTable) = Len(RoomInPages)
         /\ Len(RoomInPages) \in Nat /\ Len(RoomInPages) < Capacity
         /\ \A n \in Range(RoomInPages) :
              entry[n].key \in DOMAIN RoomInTable /\ RoomInTable[entry[n].key] = n
         /\ \A k \in DOMAIN RoomInTable :
              RoomInTable[k] \in Range(RoomInPages) /\ entry[RoomInTable[k]].key = k
PROOF
<1>. USE CapacityAssumption
<1>1. Len(pages) \in Nat /\ DOMAIN pages = 1 .. Len(pages)
  BY LenProperties DEF IInv, TypeOK
<1>2. CASE ~is_full
  <2>1. RoomInPages = pages /\ RoomInTable = table
    BY <1>2 DEF RoomInPages, RoomInTable
  <2>2. Len(pages) < Capacity
    BY <1>1, <1>2 DEF IInv, Bounded, is_full
  <2>. QED
    BY <1>1, <2>1, <2>2 DEF IInv, TypeOK, Consistent, Bounded, size
<1>3. CASE is_full
  <2> DEFINE v == Last(pages)
             vk == entry[v].key
  <2>1. RoomInPages = Front(pages) /\ RoomInTable = Erase(table, vk)
    BY <1>3 DEF RoomInPages, RoomInTable
  <2>2. Len(pages) = Capacity
    BY <1>3 DEF IInv, Bounded, is_full
  <2>3. /\ Len(Front(pages)) = Len(pages) - 1
        /\ IsInjective(Front(pages))
        /\ Range(Front(pages)) = DOMAIN entry \ {v}
        /\ v \in DOMAIN entry
        /\ Front(pages) \in Seq(Range(Front(pages)))
    BY <2>2, FrontLemma DEF IInv, TypeOK, Consistent
  <2>4. vk \in DOMAIN table /\ table[vk] = v
    BY <2>3 DEF IInv, Consistent
  <2>5. /\ DOMAIN RoomInTable = DOMAIN table \ {vk}
        /\ \A k \in DOMAIN table \ {vk} : RoomInTable[k] = table[k]
    BY <2>1 DEF Erase
  <2>6. IsFiniteSet(DOMAIN RoomInTable) /\ Cardinality(DOMAIN RoomInTable) = Len(pages) - 1
    <3>1. IsFiniteSet(DOMAIN table) /\ Cardinality(DOMAIN table) = Len(pages)
      BY DEF IInv, Bounded, size
    <3>2. /\ IsFiniteSet(DOMAIN table \ {vk})
          /\ Cardinality(DOMAIN table \ {vk}) = Cardinality(DOMAIN table) - 1
      <4>. HIDE DEF vk
      <4>. QED BY <2>4, <3>1, FS_RemoveElement
    <3>. QED BY <2>5, <3>1, <3>2
  <2>7. \A n \in DOMAIN entry \ {v} :
          entry[n].key \in DOMAIN RoomInTable /\ RoomInTable[entry[n].key] = n
    BY <2>4, <2>5 DEF IInv, Consistent
  <2>8. \A k \in DOMAIN RoomInTable :
          RoomInTable[k] \in DOMAIN entry \ {v} /\ entry[RoomInTable[k]].key = k
    BY <2>4, <2>5 DEF IInv, TypeOK, Consistent
  <2>. QED
    BY <1>1, <2>1, <2>2, <2>3, <2>5, <2>6, <2>7, <2>8
<1>. QED BY <1>2, <1>3

LEMMA InitInv == Init => IInv
PROOF
<1>. SUFFICES ASSUME Init PROVE IInv
  OBVIOUS
<1>1. DOMAIN pages = {} /\ DOMAIN entry = {} /\ DOMAIN table = {} /\ Len(pages) = 0
  BY DEF Init
<1>2. TypeOK
  BY DEF Init, TypeOK
<1>3. Consistent
  BY <1>1 DEF Consistent, IsInjective, Range
<1>4. Bounded /\ IsFiniteSet(DOMAIN table)
  BY <1>1, FS_EmptySet, CapacityAssumption DEF Bounded, size
<1>. QED BY <1>2, <1>3, <1>4 DEF IInv

LEMMA UpdateInv ==
  ASSUME IInv, NEW k \in Key, NEW p \in Page, Contract(k), update(k, p)
  PROVE  IInv'
PROOF
<1> DEFINE P == RoomInPages
           T == RoomInTable
<1>1. PICK n \in Node \ Range(P) :
        /\ pages' = Cons(n, P)
        /\ entry' = [m \in Range(P) \cup {n} |->
                       IF m = n THEN [key |-> k, page |-> p] ELSE entry[m]]
        /\ table' = Emplace(T, k, n)
        /\ ret' = ret
  BY DEF update
<1>2. /\ P \in Seq(Range(P)) /\ IsInjective(P) /\ Range(P) \subseteq DOMAIN entry
      /\ DOMAIN T \subseteq DOMAIN table /\ IsFiniteSet(DOMAIN T)
      /\ Cardinality(DOMAIN T) = Len(P) /\ Len(P) \in Nat /\ Len(P) < Capacity
      /\ \A m \in Range(P) : entry[m].key \in DOMAIN T /\ T[entry[m].key] = m
      /\ \A j \in DOMAIN T : T[j] \in Range(P) /\ entry[T[j]].key = j
  BY RoomLemma
<1>. HIDE DEF P, T
<1>3. k \notin DOMAIN T
  BY <1>2 DEF Contract
<1>4. /\ pages' \in Seq(Range(P) \cup {n}) /\ Len(pages') = Len(P) + 1
      /\ IsInjective(pages') /\ Range(pages') = Range(P) \cup {n}
  BY <1>1, <1>2, ConsLemma
<1>5. /\ DOMAIN entry' = Range(P) \cup {n}
      /\ entry'[n] = [key |-> k, page |-> p]
      /\ \A m \in Range(P) : entry'[m] = entry[m]
  BY <1>1
<1>6. /\ DOMAIN table' = DOMAIN T \cup {k}
      /\ table'[k] = n
      /\ \A j \in DOMAIN T : table'[j] = T[j]
  BY <1>1, <1>3 DEF Emplace
<1>7. TypeOK'
  <2>1. pages' \in Seq(DOMAIN entry')
    BY <1>4, <1>5
  <2>2. entry' \in [DOMAIN entry' -> Pair] /\ DOMAIN entry' \subseteq Node
    BY <1>1, <1>2, <1>5 DEF IInv, TypeOK, Pair
  <2>3. table' \in [DOMAIN table' -> DOMAIN entry'] /\ DOMAIN table' \subseteq Key
    <3>1. \A j \in DOMAIN table' : table'[j] \in DOMAIN entry'
      BY <1>2, <1>5, <1>6
    <3>2. table' = [j \in DOMAIN table' |-> table'[j]]
      BY <1>1 DEF Emplace
    <3>. QED BY <3>1, <3>2, <1>2, <1>6 DEF IInv, TypeOK
  <2>4. ret' \in Pair \cup {End}
    BY <1>1 DEF IInv, TypeOK
  <2>. QED BY <2>1, <2>2, <2>3, <2>4 DEF TypeOK
<1>8. Consistent'
  <2>1. \A m \in DOMAIN entry' : entry'[m].key \in DOMAIN table' /\ table'[entry'[m].key] = m
    BY <1>2, <1>5, <1>6
  <2>2. \A j \in DOMAIN table' : entry'[table'[j]].key = j
    BY <1>2, <1>5, <1>6
  <2>. QED BY <1>4, <1>5, <2>1, <2>2 DEF Consistent
<1>9. Bounded' /\ IsFiniteSet(DOMAIN table')
  <2>1. IsFiniteSet(DOMAIN table') /\ Cardinality(DOMAIN table') = Len(P) + 1
    <3>1. /\ IsFiniteSet(DOMAIN T \cup {k})
          /\ Cardinality(DOMAIN T \cup {k}) = Cardinality(DOMAIN T) + 1
      BY <1>2, <1>3, FS_AddElement
    <3>. QED BY <3>1, <1>2, <1>6
  <2>. QED BY <2>1, <1>2, <1>4, CapacityAssumption DEF Bounded, size
<1>. QED BY <1>7, <1>8, <1>9 DEF IInv

LEMMA StepInv == IInv /\ [Next]_vars => IInv'
PROOF
<1>. SUFFICES ASSUME IInv, [Next]_vars PROVE IInv'
  OBVIOUS
<1>1. ASSUME NEW k \in Key, LookupHit(k) PROVE IInv'
  <2>1. PICK i \in DOMAIN pages : pages' = Splice(pages, i)
    BY <1>1 DEF LookupHit
  <2>2. UNCHANGED <<entry, table>> /\ ret' = entry[table[k]] /\ k \in DOMAIN table
    BY <1>1 DEF LookupHit
  <2>3. /\ pages' \in Seq(DOMAIN entry) /\ Len(pages') = Len(pages)
        /\ IsInjective(pages') /\ Range(pages') = Range(pages)
    <3>1. i \in 1 .. Len(pages)
      BY LenProperties DEF IInv, TypeOK
    <3>. QED BY <2>1, <3>1, SpliceLemma DEF IInv, TypeOK, Consistent
  <2>4. TypeOK'
    BY <2>2, <2>3 DEF IInv, TypeOK
  <2>5. Consistent'
    BY <2>2, <2>3 DEF IInv, Consistent
  <2>6. Bounded' /\ IsFiniteSet(DOMAIN table')
    BY <2>2, <2>3 DEF IInv, Bounded, size
  <2>. QED BY <2>4, <2>5, <2>6 DEF IInv
<1>2. ASSUME NEW k \in Key, LookupMiss(k) PROVE IInv'
  BY <1>2 DEF LookupMiss, IInv, TypeOK, Consistent, Bounded, size
<1>3. ASSUME NEW k \in Key, NEW p \in Page, Contract(k), update(k, p) PROVE IInv'
  BY <1>3, UpdateInv
<1>4. CASE clear
  <2>1. pages' = << >> /\ DOMAIN entry' = {} /\ DOMAIN table' = {} /\ ret' = ret
    BY <1>4 DEF clear
  <2>2. TypeOK'
    BY <1>4, <2>1 DEF clear, IInv, TypeOK
  <2>3. Consistent'
    BY <2>1 DEF Consistent, IsInjective, Range
  <2>4. Bounded' /\ IsFiniteSet(DOMAIN table')
    BY <2>1, FS_EmptySet, CapacityAssumption DEF Bounded, size
  <2>. QED BY <2>2, <2>3, <2>4 DEF IInv
<1>5. CASE UNCHANGED vars
  BY <1>5 DEF vars, IInv, TypeOK, Consistent, Bounded, size
<1>. QED BY <1>1, <1>2, <1>3, <1>4, <1>5 DEF Next, lookup

\* Every address in the list and in the hash table is that of an allocated
\* node, whatever the order of lookups, updates and clears.
THEOREM TypeCorrect == Spec => []TypeOK
PROOF
<1>1. IInv => TypeOK
  BY DEF IInv
<1>. QED BY <1>1, InitInv, StepInv, PTL DEF Spec

\* The list and the hash table of the cache describe the same entries: no key
\* leads to a node update has freed, and no node is unreachable by its key.
THEOREM AlwaysConsistent == Spec => []Consistent
PROOF
<1>1. IInv => Consistent
  BY DEF IInv
<1>. QED BY <1>1, InitInv, StepInv, PTL DEF Spec

\* The cache never holds more entries than its capacity.
THEOREM AlwaysBounded == Spec => []Bounded
PROOF
<1>1. IInv => Bounded
  BY DEF IInv
<1>. QED BY <1>1, InitInv, StepInv, PTL DEF Spec

-----------------------------------------------------------------------------
(* With the history: the order of use and the refinement. *)

\* The key of the i-th node of the list, and the keys of the nodes before it.
key(i) == entry[pages[i]].key

Before(i) == {key(j) : j \in 1 .. i - 1}

\* The history is about keys: which have been stored, and which used since.
HistoryOK ==
  /\ DOMAIN since = DOMAIN written /\ DOMAIN written \subseteq Key
  /\ \A k \in DOMAIN since : IsFiniteSet(since[k])

\* A key of the table has its last page in its node; a key that has left the
\* table has had as many others used since as the cache has room for.
Remembered ==
  /\ \A k \in DOMAIN table : k \in DOMAIN written /\ entry[table[k]].page = written[k]
  /\ \A k \in DOMAIN written \ DOMAIN table : Capacity <= Cardinality(since[k])

HInv == IInv /\ HistoryOK /\ Remembered /\ RecencyOrder

-----------------------------------------------------------------------------
\* The list numbers the keys of the table: each key at one place.
LEMMA PlacesLemma ==
  ASSUME IInv
  PROVE  /\ Len(pages) \in Nat /\ DOMAIN pages = 1 .. Len(pages)
         /\ \A i \in DOMAIN pages : /\ pages[i] \in DOMAIN entry
                                    /\ key(i) \in DOMAIN table /\ table[key(i)] = pages[i]
         /\ \A i, j \in DOMAIN pages : key(i) = key(j) => i = j
         /\ \A k \in DOMAIN table : \E i \in DOMAIN pages : pages[i] = table[k] /\ key(i) = k
PROOF
<1>1. Len(pages) \in Nat /\ DOMAIN pages = 1 .. Len(pages)
  BY LenProperties DEF IInv, TypeOK
<1>2. \A i \in DOMAIN pages : pages[i] \in DOMAIN entry
  BY DEF IInv, Consistent, Range
<1>3. \A i \in DOMAIN pages : key(i) \in DOMAIN table /\ table[key(i)] = pages[i]
  BY <1>2 DEF IInv, Consistent, key
<1>4. \A i, j \in DOMAIN pages : key(i) = key(j) => i = j
  BY <1>3 DEF IInv, Consistent, IsInjective
<1>5. ASSUME NEW k \in DOMAIN table
      PROVE  \E i \in DOMAIN pages : pages[i] = table[k] /\ key(i) = k
  <2>1. table[k] \in Range(pages)
    BY DEF IInv, TypeOK, Consistent
  <2>2. PICK i \in DOMAIN pages : pages[i] = table[k]
    BY <2>1 DEF Range
  <2>. QED BY <2>2 DEF IInv, Consistent, key
<1>. QED BY <1>1, <1>2, <1>3, <1>4, <1>5

\* The keys before a place are fewer than the capacity: those the table holds
\* are resident in the sense of the specification.
LEMMA BeforeLemma ==
  ASSUME IInv, NEW i \in DOMAIN pages
  PROVE  IsFiniteSet(Before(i)) /\ Cardinality(Before(i)) < Capacity
PROOF
<1>. USE CapacityAssumption
<1>1. Len(pages) \in Nat /\ i \in 1 .. Len(pages) /\ Len(pages) <= Capacity
  BY PlacesLemma DEF IInv, Bounded
<1>2. IsFiniteSet(1 .. i - 1) /\ Cardinality(1 .. i - 1) = i - 1
  <2>1. 1 \in Int /\ i - 1 \in Int
    BY <1>1
  <2>2. IsFiniteSet(1 .. i - 1)
        /\ Cardinality(1 .. i - 1) = IF 1 > i - 1 THEN 0 ELSE (i - 1) - 1 + 1
    BY <2>1, FS_Interval
  <2>. QED BY <2>2, <1>1
<1>3. IsFiniteSet(Before(i)) /\ Cardinality(Before(i)) <= i - 1
  <2> DEFINE f == [j \in 1 .. i - 1 |-> key(j)]
  <2>1. Before(i) = {f[j] : j \in 1 .. i - 1}
    BY DEF Before
  <2>2. f \in Surjection(1 .. i - 1, Before(i))
    BY DEF Before, Surjection
  <2>. HIDE DEF f
  <2>3. IsFiniteSet(Before(i)) /\ Cardinality(Before(i)) <= Cardinality(1 .. i - 1)
    BY <2>2, <1>2, FS_Surjection
  <2>. QED BY <2>3, <1>2
<1>4. Cardinality(Before(i)) \in Nat
  BY <1>3, FS_CardinalityType
<1>. QED BY <1>1, <1>3, <1>4

\* The specification counts as everybody does: its own instance of FiniteSets
\* has the same definition.
LEMMA SameCardinality == \A S : Abstract!Cardinality(S) = Cardinality(S)
PROOF BY DEF Cardinality, Abstract!Cardinality

\* The cache answers for the keys the specification says it answers for.
LEMMA ResidentLemma ==
  ASSUME HInv, NEW k
  PROVE  Abstract!Resident(k) <=> k \in DOMAIN table
PROOF
<1>. USE CapacityAssumption
<1>1. CASE k \in DOMAIN table
  <2>1. PICK i \in DOMAIN pages : key(i) = k
    BY <1>1, PlacesLemma DEF HInv
  <2>2. since[k] = Before(i)
    BY <2>1 DEF HInv, RecencyOrder, Before, key
  <2>3. k \in DOMAIN written
    BY <1>1 DEF HInv, Remembered
  <2>4. Cardinality(since[k]) < Capacity
    BY <2>2, BeforeLemma DEF HInv
  <2>. QED BY <1>1, <2>3, <2>4, SameCardinality DEF Abstract!Resident
<1>2. CASE k \in DOMAIN written \ DOMAIN table
  <2>1. Cardinality(since[k]) \in Nat /\ Capacity <= Cardinality(since[k])
    BY <1>2, FS_CardinalityType DEF HInv, HistoryOK, Remembered
  <2>2. ~(Cardinality(since[k]) < Capacity)
    <3> DEFINE c == Cardinality(since[k])
    <3>1. c \in Nat /\ Capacity <= c
      BY <2>1
    <3>. HIDE DEF c
    <3>2. ~(c < Capacity)
      BY <3>1
    <3>. QED BY <3>2 DEF c
  <2>. QED BY <1>2, <2>2, SameCardinality DEF Abstract!Resident
<1>. QED BY <1>1, <1>2 DEF Abstract!Resident

-----------------------------------------------------------------------------
LEMMA InitHistory == HInit => HInv
PROOF
<1>. SUFFICES ASSUME HInit PROVE HInv
  OBVIOUS
<1>1. IInv
  BY InitInv DEF HInit
<1>2. DOMAIN written = {} /\ DOMAIN since = {} /\ DOMAIN table = {} /\ DOMAIN pages = {}
  BY DEF HInit, Init
<1>. QED BY <1>1, <1>2 DEF HInv, HistoryOK, Remembered, RecencyOrder

LEMMA StepConcrete == IInv /\ [HNext]_<<vars, written, since>> => IInv'
PROOF
<1>1. [HNext]_<<vars, written, since>> => [Next]_vars
  BY DEF HNext, Next, lookup, vars
<1>. QED BY <1>1, StepInv

\* A use keeps the history one of keys, and no set of it becomes smaller.
LEMMA UseLemma ==
  ASSUME HistoryOK, NEW k \in Key, Abstract!Use(k)
  PROVE  /\ DOMAIN since' = DOMAIN since \cup {k}
         /\ since'[k] = {}
         /\ \A j \in DOMAIN since : j # k => /\ since'[j] = since[j] \cup {k}
                                             /\ Cardinality(since[j]) <= Cardinality(since'[j])
         /\ \A j \in DOMAIN since' : IsFiniteSet(since'[j])
PROOF
<1>1. /\ DOMAIN since' = DOMAIN since \cup {k}
      /\ since'[k] = {}
      /\ \A j \in DOMAIN since : j # k => since'[j] = since[j] \cup {k}
  BY DEF Abstract!Use
<1>2. ASSUME NEW j \in DOMAIN since, j # k
      PROVE  IsFiniteSet(since'[j]) /\ Cardinality(since[j]) <= Cardinality(since'[j])
  <2> DEFINE S == since[j]
  <2>1. IsFiniteSet(S) /\ since'[j] = S \cup {k}
    BY <1>1, <1>2 DEF HistoryOK
  <2>. HIDE DEF S
  <2>2. IsFiniteSet(S \cup {k})
    BY <2>1, FS_AddElement
  <2>3. Cardinality(S) <= Cardinality(S \cup {k})
    BY <2>2, FS_Subset
  <2>. QED BY <2>1, <2>2, <2>3 DEF S
<1>. QED BY <1>1, <1>2, FS_EmptySet

LEMMA HitHistory ==
  ASSUME HInv, NEW k \in Key, LookupHit(k), Abstract!Use(k), UNCHANGED written
  PROVE  HistoryOK' /\ Remembered' /\ RecencyOrder'
PROOF
<1>1. PICK i \in DOMAIN pages : pages[i] = table[k] /\ pages' = Splice(pages, i)
  BY DEF LookupHit
<1>2. k \in DOMAIN table /\ UNCHANGED <<entry, table, written>>
  BY DEF LookupHit
<1>3. /\ Len(pages) \in Nat /\ DOMAIN pages = 1 .. Len(pages) /\ i \in 1 .. Len(pages)
      /\ key(i) = k
      /\ \A j \in DOMAIN pages : key(j) \in DOMAIN table
      /\ \A j, l \in DOMAIN pages : key(j) = key(l) => j = l
  <2>1. key(i) = k
    BY <1>1, <1>2 DEF HInv, IInv, Consistent, key
  <2>. QED BY <2>1, PlacesLemma DEF HInv
<1>4. /\ DOMAIN pages' = 1 .. Len(pages)
      /\ \A j \in 1 .. Len(pages) :
           key(j)' = IF j = 1 THEN k ELSE IF j <= i THEN key(j - 1) ELSE key(j)
  BY <1>1, <1>2, <1>3 DEF Splice, key
<1>5. \A j \in DOMAIN pages : since[key(j)] = Before(j)
  BY DEF HInv, RecencyOrder, Before, key
<1>6. /\ DOMAIN since' = DOMAIN since \cup {k} /\ k \in DOMAIN since
      /\ since'[k] = {}
      /\ \A j \in DOMAIN since : j # k => /\ since'[j] = since[j] \cup {k}
                                          /\ Cardinality(since[j]) <= Cardinality(since'[j])
      /\ \A j \in DOMAIN since' : IsFiniteSet(since'[j])
  BY <1>2, UseLemma DEF HInv, HistoryOK, Remembered
<1>7. HistoryOK'
  BY <1>2, <1>6 DEF HInv, HistoryOK
<1>8. Remembered'
  <2>1. ASSUME NEW j \in DOMAIN written \ DOMAIN table
        PROVE  Capacity <= Cardinality(since'[j])
    <3>1. j # k /\ j \in DOMAIN since /\ Capacity <= Cardinality(since[j])
      BY <1>2 DEF HInv, HistoryOK, Remembered
    <3>2. IsFiniteSet(since[j]) /\ IsFiniteSet(since'[j])
      BY <3>1, <1>6 DEF HInv, HistoryOK
    <3>3. Cardinality(since[j]) \in Nat /\ Cardinality(since'[j]) \in Nat
      BY <3>2, FS_CardinalityType
    <3>. QED BY <3>1, <3>3, <1>6, CapacityAssumption
  <2>. QED BY <2>1, <1>2 DEF HInv, Remembered
<1>9. ASSUME NEW j \in 1 .. Len(pages) PROVE since'[key(j)'] = Before(j)'
  <2>1. Before(j)' = {key(l)' : l \in 1 .. j - 1}
    BY DEF Before
  <2>2. CASE j = 1
    BY <2>1, <2>2, <1>4, <1>6
  <2>3. CASE j # 1 /\ j <= i
    <3>1. j - 1 \in 1 .. Len(pages) /\ key(j)' = key(j - 1) /\ key(j - 1) # k
      BY <2>3, <1>3, <1>4
    <3>2. key(j - 1) \in DOMAIN since
      BY <3>1, <1>3 DEF HInv, HistoryOK, Remembered
    <3>3. since'[key(j)'] = Before(j - 1) \cup {k}
      BY <3>1, <3>2, <1>3, <1>5, <1>6
    <3>4. Before(j)' = Before(j - 1) \cup {k}
      <4>1. ASSUME NEW x \in Before(j)' PROVE x \in Before(j - 1) \cup {k}
        <5>1. PICK l \in 1 .. j - 1 : x = key(l)'
          BY <2>1
        <5>2. l \in 1 .. Len(pages) /\ l <= i
          BY <2>3, <1>3
        <5>3. l = 1 \/ (l - 1 \in 1 .. (j - 1) - 1 /\ x = key(l - 1))
          BY <5>1, <5>2, <1>4, <1>3
        <5>. QED BY <5>1, <5>2, <5>3, <1>4 DEF Before
      <4>2. ASSUME NEW x \in Before(j - 1) PROVE x \in Before(j)'
        <5>1. PICK l \in 1 .. (j - 1) - 1 : x = key(l)
          BY DEF Before
        <5>2. l + 1 \in 1 .. j - 1 /\ l + 1 \in 1 .. Len(pages) /\ l + 1 <= i /\ l + 1 # 1
              /\ (l + 1) - 1 = l
          BY <2>3, <1>3
        <5>3. x = key(l + 1)'
          BY <5>1, <5>2, <1>4
        <5>. QED BY <5>2, <5>3, <2>1
      <4>3. k \in Before(j)'
        <5>1. 1 \in 1 .. j - 1 /\ 1 \in 1 .. Len(pages)
          BY <2>3, <1>3
        <5>. QED BY <5>1, <2>1, <1>4
      <4>. QED BY <4>1, <4>2, <4>3
    <3>. QED BY <3>3, <3>4
  <2>4. CASE j > i
    <3>1. j # 1 /\ key(j)' = key(j) /\ key(j) # k
      BY <2>4, <1>3, <1>4
    <3>2. key(j) \in DOMAIN since
      BY <3>1, <1>3 DEF HInv, HistoryOK, Remembered
    <3>3. since'[key(j)'] = Before(j) \cup {k}
      BY <3>1, <3>2, <1>3, <1>5, <1>6
    <3>4. k \in Before(j)
      <4>1. i \in 1 .. j - 1
        BY <2>4, <1>3
      <4>. QED BY <4>1, <1>3 DEF Before
    <3>5. Before(j)' = Before(j)
      <4>1. ASSUME NEW x \in Before(j)' PROVE x \in Before(j)
        <5>1. PICK l \in 1 .. j - 1 : x = key(l)'
          BY <2>1
        <5>2. l \in 1 .. Len(pages)
          BY <1>3
        <5>3. \/ x = k
              \/ l - 1 \in 1 .. j - 1 /\ x = key(l - 1)
              \/ x = key(l)
          BY <5>1, <5>2, <1>4, <1>3
        <5>. QED BY <5>1, <5>3, <3>4 DEF Before
      <4>2. ASSUME NEW x \in Before(j) PROVE x \in Before(j)'
        <5>1. PICK l \in 1 .. j - 1 : x = key(l)
          BY DEF Before
        <5>2. CASE l < i
          <6>1. l + 1 \in 1 .. j - 1 /\ l + 1 \in 1 .. Len(pages) /\ l + 1 <= i /\ l + 1 # 1
                /\ (l + 1) - 1 = l
            BY <5>2, <2>4, <1>3
          <6>2. x = key(l + 1)'
            BY <5>1, <6>1, <1>4
          <6>. QED BY <6>1, <6>2, <2>1
        <5>3. CASE l = i
          <6>1. 1 \in 1 .. j - 1 /\ 1 \in 1 .. Len(pages)
            BY <2>4, <1>3
          <6>. QED BY <6>1, <5>1, <5>3, <2>1, <1>3, <1>4
        <5>4. CASE l > i
          <6>1. l \in 1 .. Len(pages) /\ l # 1 /\ ~(l <= i)
            BY <5>4, <1>3
          <6>2. x = key(l)'
            BY <5>1, <6>1, <1>4
          <6>. QED BY <6>2, <2>1
        <5>. QED BY <5>2, <5>3, <5>4, <1>3
      <4>. QED BY <4>1, <4>2
    <3>. QED BY <3>3, <3>4, <3>5
  <2>. QED BY <2>2, <2>3, <2>4, <1>3
<1>10. RecencyOrder'
  BY <1>4, <1>9 DEF RecencyOrder, Before, key
<1>. QED BY <1>7, <1>8, <1>10

LEMMA UpdateHistory ==
  ASSUME HInv, NEW k \in Key, NEW p \in Page, Contract(k), update(k, p),
         written' = [j \in DOMAIN written \cup {k} |-> IF j = k THEN p ELSE written[j]],
         Abstract!Use(k)
  PROVE  HistoryOK' /\ Remembered' /\ RecencyOrder'
PROOF
<1>. USE CapacityAssumption
<1> DEFINE P == RoomInPages
           T == RoomInTable
<1>1. PICK n \in Node \ Range(P) :
        /\ pages' = Cons(n, P)
        /\ entry' = [m \in Range(P) \cup {n} |->
                       IF m = n THEN [key |-> k, page |-> p] ELSE entry[m]]
        /\ table' = Emplace(T, k, n)
  BY DEF update
<1>2. /\ P \in Seq(Range(P)) /\ IsInjective(P) /\ Range(P) \subseteq DOMAIN entry
      /\ DOMAIN T \subseteq DOMAIN table
      /\ Cardinality(DOMAIN T) = Len(P) /\ Len(P) \in Nat /\ Len(P) < Capacity
      /\ \A m \in Range(P) : entry[m].key \in DOMAIN T /\ T[entry[m].key] = m
      /\ \A j \in DOMAIN T : T[j] \in Range(P) /\ entry[T[j]].key = j
  BY RoomLemma DEF HInv
<1>3. k \notin DOMAIN table /\ k \notin DOMAIN T
  BY <1>2 DEF Contract
<1>4. /\ Len(pages) \in Nat /\ DOMAIN pages = 1 .. Len(pages)
      /\ DOMAIN P = 1 .. Len(P) /\ Len(P) <= Len(pages)
      /\ \A j \in DOMAIN P : P[j] = pages[j] /\ P[j] \in Range(P)
  <2>1. Len(pages) \in Nat /\ DOMAIN pages = 1 .. Len(pages)
    BY PlacesLemma DEF HInv
  <2>2. DOMAIN P = 1 .. Len(P) /\ \A j \in DOMAIN P : P[j] \in Range(P)
    BY <1>2, LenProperties DEF Range
  <2>3. CASE ~is_full
    BY <2>1, <2>2, <2>3 DEF RoomInPages
  <2>4. CASE is_full
    <3>1. Len(pages) = Capacity /\ P = Front(pages)
      BY <2>4 DEF HInv, IInv, Bounded, is_full, RoomInPages
    <3>2. Len(P) = Len(pages) - 1 /\ \A j \in 1 .. Len(pages) - 1 : Front(pages)[j] = pages[j]
      <4>1. pages \in Seq(DOMAIN entry)
        BY DEF HInv, IInv, TypeOK
      <4>2. 1 \in 1 .. Len(pages) + 1 /\ Len(pages) - 1 \in 1 - 1 .. Len(pages)
        BY <3>1, <2>1
      <4>. QED BY <3>1, <4>1, <4>2, <2>1, SubSeqProperties DEF Front
    <3>. QED BY <3>1, <3>2, <2>1, <2>2
  <2>. QED BY <2>3, <2>4
<1>5. ASSUME NEW j \in 1 .. Len(P)
      PROVE  since[key(j)] = Before(j) /\ key(j) \in DOMAIN T
  <2>. HIDE DEF P, T
  <2>1. j \in DOMAIN pages /\ pages[j] = P[j] /\ P[j] \in Range(P)
    BY <1>2, <1>4
  <2>2. since[key(j)] = Before(j)
    BY <2>1 DEF HInv, RecencyOrder, Before, key
  <2>3. key(j) \in DOMAIN T
    BY <2>1, <1>2 DEF key
  <2>. QED BY <2>2, <2>3
<1>6. /\ DOMAIN since' = DOMAIN since \cup {k}
      /\ since'[k] = {}
      /\ \A j \in DOMAIN since : j # k => /\ since'[j] = since[j] \cup {k}
                                          /\ Cardinality(since[j]) <= Cardinality(since'[j])
      /\ \A j \in DOMAIN since' : IsFiniteSet(since'[j])
  BY UseLemma DEF HInv
<1>7. HistoryOK'
  BY <1>6 DEF HInv, HistoryOK
<1>8. /\ DOMAIN table' = DOMAIN T \cup {k} /\ table'[k] = n
      /\ \A j \in DOMAIN T : table'[j] = T[j]
      /\ entry'[n] = [key |-> k, page |-> p]
      /\ \A m \in Range(P) : entry'[m] = entry[m]
  BY <1>1, <1>3 DEF Emplace
<1>9. \A j \in DOMAIN T : T[j] = table[j]
  BY <1>2 DEF RoomInTable, Erase
<1>10. Remembered'
  <2>1. ASSUME NEW j \in DOMAIN table'
        PROVE  j \in DOMAIN written' /\ entry'[table'[j]].page = written'[j]
    <3>1. CASE j = k
      BY <3>1, <1>8
    <3>2. CASE j # k
      <4>1. j \in DOMAIN T /\ j \in DOMAIN table /\ entry'[table'[j]] = entry[table[j]]
        BY <3>2, <1>2, <1>8, <1>9
      <4>. QED BY <3>2, <4>1 DEF HInv, Remembered
    <3>. QED BY <3>1, <3>2
  <2>2. ASSUME NEW j \in DOMAIN written' \ DOMAIN table'
        PROVE  Capacity <= Cardinality(since'[j])
    <3>1. j # k /\ j \in DOMAIN written /\ j \in DOMAIN since /\ j \notin DOMAIN T
      BY <1>8 DEF HInv, HistoryOK
    <3>2. CASE j \notin DOMAIN table
      <4>1. IsFiniteSet(since[j]) /\ IsFiniteSet(since'[j])
        BY <3>1, <1>6 DEF HInv, HistoryOK
      <4>2. Cardinality(since[j]) \in Nat /\ Cardinality(since'[j]) \in Nat
        BY <4>1, FS_CardinalityType
      <4>3. Capacity <= Cardinality(since[j])
        BY <3>1, <3>2 DEF HInv, Remembered
      <4>. QED BY <3>1, <4>2, <4>3, <1>6
    <3>3. CASE j \in DOMAIN table
      <4>1. is_full /\ j = entry[Last(pages)].key
        BY <3>1, <3>3 DEF RoomInTable, Erase
      <4>2. Len(pages) = Capacity /\ Cardinality(DOMAIN table) = Capacity
            /\ IsFiniteSet(DOMAIN table)
        BY <4>1 DEF HInv, IInv, Bounded, is_full, size
      <4>3. j = key(Len(pages)) /\ Len(pages) \in DOMAIN pages
        BY <4>1, <4>2, <1>4 DEF Last, key
      <4>4. since[j] = Before(Len(pages))
        BY <4>3 DEF HInv, RecencyOrder, Before, key
      <4>5. Before(Len(pages)) = DOMAIN table \ {j}
        <5>1. ASSUME NEW x \in Before(Len(pages)) PROVE x \in DOMAIN table \ {j}
          <6>1. PICK l \in 1 .. Len(pages) - 1 : x = key(l)
            BY DEF Before
          <6>2. Len(pages) \in Nat
            BY PlacesLemma DEF HInv
          <6>3. l \in DOMAIN pages /\ l # Len(pages)
            <7>1. l \in 1 .. Len(pages) /\ l # Len(pages)
              BY <6>2
            <7>2. DOMAIN pages = 1 .. Len(pages)
              BY PlacesLemma DEF HInv
            <7>. QED BY <7>1, <7>2
          <6>4. x \in DOMAIN table
            BY <6>1, <6>3, PlacesLemma DEF HInv
          <6>5. x # key(Len(pages))
            BY <6>1, <6>3, <4>3, PlacesLemma DEF HInv
          <6>. QED BY <6>4, <6>5, <4>3
        <5>2. ASSUME NEW x \in DOMAIN table \ {j} PROVE x \in Before(Len(pages))
          <6>1. PICK l \in DOMAIN pages : x = key(l)
            BY PlacesLemma DEF HInv
          <6>2. l \in 1 .. Len(pages) - 1
            BY <6>1, <4>3, <1>4
          <6>. QED BY <6>1, <6>2 DEF Before
        <5>. QED BY <5>1, <5>2
      <4> DEFINE S == DOMAIN table \ {j}
      <4>6. IsFiniteSet(S) /\ Cardinality(S) = Capacity - 1
        BY <4>2, <3>3, FS_RemoveElement
      <4>7. since'[j] = S \cup {k} /\ k \notin S
        BY <3>1, <4>4, <4>5, <1>3, <1>6
      <4>. HIDE DEF S
      <4>8. Cardinality(S \cup {k}) = Cardinality(S) + 1
        BY <4>6, <4>7, FS_AddElement
      <4>. QED BY <4>6, <4>7, <4>8
    <3>. QED BY <3>2, <3>3
  <2>. QED BY <2>1, <2>2 DEF Remembered
<1>11. /\ DOMAIN pages' = 1 .. Len(P) + 1
       /\ key(1)' = k
       /\ \A j \in 1 .. Len(P) : key(j + 1)' = key(j)
  <2>1. /\ Len(pages') = Len(P) + 1 /\ pages' \in Seq(Range(P) \cup {n})
    BY <1>1, <1>2, ConsLemma
  <2>2. /\ pages'[1] = n
        /\ \A j \in 1 .. Len(P) : pages'[j + 1] = P[j]
    <3>. HIDE DEF P
    <3>1. pages' = <<n>> \o P
      BY <1>1 DEF Cons
    <3>2. P \in Seq(Range(P) \cup {n}) /\ <<n>> \in Seq(Range(P) \cup {n})
          /\ Len(<<n>>) = 1 /\ <<n>>[1] = n
      <4>1. P \in [1 .. Len(P) -> Range(P) \cup {n}]
        BY <1>2, <1>4
      <4>. QED BY <4>1, <1>2
    <3>3. \A j \in 1 .. Len(P) + 1 : pages'[j] = IF j <= 1 THEN <<n>>[j] ELSE P[j - 1]
      BY <3>1, <3>2, <1>2, ConcatProperties
    <3>4. 1 \in 1 .. Len(P) + 1
      BY <1>2
    <3>5. pages'[1] = n
      BY <3>2, <3>3, <3>4
    <3>6. ASSUME NEW j \in 1 .. Len(P) PROVE pages'[j + 1] = P[j]
      <4>1. j + 1 \in 1 .. Len(P) + 1 /\ ~(j + 1 <= 1) /\ (j + 1) - 1 = j
        BY <1>2
      <4>. QED BY <4>1, <3>3
    <3>. QED BY <3>5, <3>6
  <2>3. DOMAIN pages' = 1 .. Len(P) + 1
    BY <2>1, LenProperties
  <2>4. ASSUME NEW j \in 1 .. Len(P) PROVE key(j + 1)' = key(j)
    <3>1. P[j] = pages[j] /\ P[j] \in Range(P) /\ pages'[j + 1] = P[j]
      BY <1>4, <2>2
    <3>. QED BY <3>1, <1>8 DEF key
  <2>. QED BY <2>2, <2>3, <2>4, <1>8 DEF key
<1>. HIDE DEF P, T
<1>12. ASSUME NEW j \in 1 .. Len(P) + 1 PROVE since'[key(j)'] = Before(j)'
  <2>1. Before(j)' = {key(l)' : l \in 1 .. j - 1}
    BY DEF Before
  <2>2. CASE j = 1
    BY <2>1, <2>2, <1>6, <1>11
  <2>3. CASE j # 1
    <3>1. j - 1 \in 1 .. Len(P) /\ (j - 1) + 1 = j
      BY <2>3, <1>2
    <3>2. key(j)' = key(j - 1)
      BY <3>1, <1>11
    <3>3. key(j - 1) \in DOMAIN T /\ key(j - 1) # k /\ key(j - 1) \in DOMAIN since
      BY <3>1, <1>2, <1>3, <1>5 DEF HInv, HistoryOK, Remembered
    <3>4. since'[key(j)'] = Before(j - 1) \cup {k}
      BY <3>1, <3>2, <3>3, <1>5, <1>6
    <3>5. Before(j)' = Before(j - 1) \cup {k}
      <4>1. ASSUME NEW x \in Before(j)' PROVE x \in Before(j - 1) \cup {k}
        <5>1. PICK l \in 1 .. j - 1 : x = key(l)'
          BY <2>1
        <5>2. l = 1 \/ (l - 1 \in 1 .. (j - 1) - 1 /\ l - 1 \in 1 .. Len(P) /\ (l - 1) + 1 = l)
          BY <3>1, <1>2
        <5>3. l = 1 \/ (l - 1 \in 1 .. (j - 1) - 1 /\ x = key(l - 1))
          BY <5>1, <5>2, <1>11
        <5>. QED BY <5>1, <5>3, <1>11 DEF Before
      <4>2. ASSUME NEW x \in Before(j - 1) PROVE x \in Before(j)'
        <5>1. PICK l \in 1 .. (j - 1) - 1 : x = key(l)
          BY DEF Before
        <5>2. l + 1 \in 1 .. j - 1 /\ l \in 1 .. Len(P)
          BY <3>1, <1>2
        <5>. QED BY <5>1, <5>2, <2>1, <1>11
      <4>3. k \in Before(j)'
        <5>1. 1 \in 1 .. j - 1
          BY <3>1, <1>2
        <5>. QED BY <5>1, <2>1, <1>11
      <4>. QED BY <4>1, <4>2, <4>3
    <3>. QED BY <3>4, <3>5
  <2>. QED BY <2>2, <2>3
<1>13. RecencyOrder'
  BY <1>11, <1>12 DEF RecencyOrder, Before, key
<1>. QED BY <1>7, <1>10, <1>13

-----------------------------------------------------------------------------
LEMMA StepHistory == HInv /\ [HNext]_<<vars, written, since>> => HInv'
PROOF
<1>. SUFFICES ASSUME HInv, [HNext]_<<vars, written, since>> PROVE HInv'
  OBVIOUS
<1>1. IInv'
  BY StepConcrete DEF HInv
<1>2. ASSUME NEW k \in Key, LookupHit(k), Abstract!Use(k), UNCHANGED written PROVE HInv'
  BY <1>1, <1>2, HitHistory DEF HInv
<1>3. ASSUME NEW k \in Key, LookupMiss(k), UNCHANGED <<written, since>> PROVE HInv'
  BY <1>1, <1>3 DEF LookupMiss, HInv, HistoryOK, Remembered, RecencyOrder
<1>4. ASSUME NEW k \in Key, NEW p \in Page, Contract(k), update(k, p),
             written' = [j \in DOMAIN written \cup {k} |-> IF j = k THEN p ELSE written[j]],
             Abstract!Use(k)
      PROVE  HInv'
  BY <1>1, <1>4, UpdateHistory DEF HInv
<1>5. CASE clear /\ written' = << >> /\ since' = << >>
  <2>1. DOMAIN written' = {} /\ DOMAIN since' = {} /\ DOMAIN table' = {} /\ DOMAIN pages' = {}
    BY <1>5 DEF clear
  <2>. QED BY <1>1, <2>1 DEF HInv, HistoryOK, Remembered, RecencyOrder
<1>6. CASE UNCHANGED <<vars, written, since>>
  BY <1>1, <1>6 DEF vars, HInv, HistoryOK, Remembered, RecencyOrder
<1>. QED BY <1>2, <1>3, <1>4, <1>5, <1>6 DEF HNext

\* Every step of the cache is a step of its specification, or none of its
\* business.
LEMMA StepImplements ==
  HInv /\ [HNext]_<<vars, written, since>> => [Abstract!Next]_(Abstract!vars)
PROOF
<1>. SUFFICES ASSUME HInv, HNext PROVE Abstract!Next
  BY DEF Abstract!vars, vars
<1>1. ASSUME NEW k \in Key, LookupHit(k), Abstract!Use(k), UNCHANGED written
      PROVE  Abstract!lookup(k)
  <2>1. k \in DOMAIN table /\ ret' = entry[table[k]]
    BY <1>1 DEF LookupHit
  <2>2. entry[table[k]] = [key |-> k, page |-> written[k]]
    <3>1. table[k] \in DOMAIN entry /\ entry[table[k]] \in Pair
      BY <2>1 DEF HInv, IInv, TypeOK
    <3>2. entry[table[k]].key = k /\ entry[table[k]].page = written[k]
      BY <2>1 DEF HInv, IInv, Consistent, Remembered
    <3>. QED BY <3>1, <3>2 DEF Pair
  <2>3. Abstract!Resident(k)
    BY <2>1, ResidentLemma
  <2>. QED BY <1>1, <2>1, <2>2, <2>3 DEF Abstract!lookup
<1>2. ASSUME NEW k \in Key, LookupMiss(k), UNCHANGED <<written, since>>
      PROVE  Abstract!lookup(k)
  BY <1>2, ResidentLemma DEF LookupMiss, Abstract!lookup
<1>3. ASSUME NEW k \in Key, NEW p \in Page, Contract(k), update(k, p),
             written' = [j \in DOMAIN written \cup {k} |-> IF j = k THEN p ELSE written[j]],
             Abstract!Use(k)
      PROVE  Abstract!update(k, p)
  BY <1>3, ResidentLemma DEF Contract, update, Abstract!update
<1>4. CASE clear /\ written' = << >> /\ since' = << >>
  BY <1>4 DEF clear, Abstract!clear, Abstract!Next
<1>. QED BY <1>1, <1>2, <1>3, <1>4 DEF HNext, Abstract!Next

\* The list is in the order the keys were last used in.
THEOREM AlwaysInOrderOfUse == HSpec => []RecencyOrder
PROOF
<1>1. HInv => RecencyOrder
  BY DEF HInv
<1>. QED BY <1>1, InitHistory, StepHistory, PTL DEF HSpec

\* The cache with its list, its table and its evictions implements what
\* LRUSpec promises: it answers for exactly the keys with fewer than Capacity
\* others used since, with the page last stored for each.
THEOREM RefinesLRUSpec == HSpec => ImplementsLRU
PROOF
<1>1. HInit => Abstract!Init
  BY DEF HInit, Init, Abstract!Init
<1>. QED
  BY <1>1, InitHistory, StepHistory, StepImplements, PTL DEF HSpec, ImplementsLRU, Abstract!Spec
=============================================================================
