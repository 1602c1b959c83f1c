--------------------------- MODULE Memory_proofs ---------------------------
(***************************************************************************)
(* Whatever the programs below machine mode do, memory keeps its types,    *)
(* changes only where machine mode let it, and has the stores recorded in  *)
(* its dirty bits: for every number of levels, every size of a table,      *)
(* every contents of memory and every sequence of accesses.                *)
(***************************************************************************)
EXTENDS Memory, PageTable_proofs

\* Memory a walk does not leave.
Image(m) == m \in [Address -> Word] /\ InRange(m)

Frame == 0 .. Frames - 1

LEMMA AddressLemma ==
  ASSUME NEW f \in Frame, NEW o \in 0 .. Slots - 1
  PROVE  f * Slots + o \in Address /\ (f * Slots + o) \div Slots = f
PROOF
<1>. USE PageTableAssumption, MemoryAssumption
<1>1. f \in Nat /\ Slots \in Nat \ {0} /\ o \in Nat /\ o < Slots /\ f + 1 <= Frames
  BY DEF Frame
<1>2. (f * Slots + o) \div Slots = f
  BY <1>1, QuotientUnique
<1>3. f * Slots + o < Frames * Slots /\ f * Slots + o \in Nat
  <2>1. (f + 1) * Slots <= Frames * Slots
    BY <1>1
  <2>. QED BY <1>1, <2>1
<1>. QED BY <1>2, <1>3 DEF Address

\* The entry for va of a table in memory is in that page of memory.
LEMMA EntryLemma ==
  ASSUME NEW va \in Nat, NEW i \in 0 .. Levels - 1, NEW f \in Frame
  PROVE  /\ f * Slots + get_vpn(va, i) \in Address
         /\ (f * Slots + get_vpn(va, i)) \div Slots = f
BY VpnType, AddressLemma

LEMMA RootLemma == root \in Frame /\ root \in Nat
BY MemoryAssumption DEF root, Frame

-----------------------------------------------------------------------------
(* The tables of an image, depth by depth. *)

\* The recursive function of the tables exists, so it satisfies its definition.
LEMMA TablesDef ==
  ASSUME NEW m
  PROVE  TablesAt(m) = [d \in 0 .. Levels - 1 |->
           IF d = 0 THEN {root}
           ELSE {m[at].ppn : at \in {p \in Address : p \div Slots \in TablesAt(m)[d - 1]
                                       /\ m[p].V /\ is_pointer_to_next_level_pte(m[p])}}]
PROOF
<1> DEFINE B(f, d) == IF d = 0 THEN {root}
             ELSE {m[at].ppn : at \in {p \in Address : p \div Slots \in f[d - 1]
                                         /\ m[p].V /\ is_pointer_to_next_level_pte(m[p])}}
           G(k) == \E f : f = [d \in 0 .. k |-> B(f, d)]
           T == {k \in Nat : G(k)}
<1>1. G(0)
  <2> DEFINE f == [d \in 0 .. 0 |-> B(<< >>, d)]
  <2>1. B(<< >>, 0) = B(f, 0)
    OBVIOUS
  <2>. HIDE DEF B
  <2>2. f = [d \in 0 .. 0 |-> B(f, d)]
    BY <2>1
  <2>. HIDE DEF f
  <2>. QED BY <2>2
<1>2. ASSUME NEW k \in Nat, G(k) PROVE G(k + 1)
  <2>1. PICK f : f = [d \in 0 .. k |-> B(f, d)]
    BY <1>2
  <2> DEFINE g == [d \in 0 .. k + 1 |-> IF d <= k THEN f[d] ELSE B(f, k + 1)]
  <2>2. ASSUME NEW d \in 0 .. k + 1 PROVE g[d] = B(g, d)
    <3>1. g[d] = B(f, d)
      <4>. HIDE DEF B
      <4>1. CASE d <= k
        BY <4>1, <2>1
      <4>2. CASE d = k + 1
        BY <4>2
      <4>. QED BY <4>1, <4>2
    <3>2. d # 0 => d - 1 \in 0 .. k /\ d - 1 \in 0 .. k + 1 /\ d - 1 <= k
      OBVIOUS
    <3>3. d # 0 => g[d - 1] = f[d - 1]
      BY <3>2
    <3>. HIDE DEF g
    <3>4. B(f, d) = B(g, d)
      BY <3>3
    <3>. QED BY <3>1, <3>4
  <2>. HIDE DEF B
  <2>3. g = [d \in 0 .. k + 1 |-> B(g, d)]
    BY <2>2
  <2>. HIDE DEF g
  <2>. QED BY <2>3
<1>. HIDE DEF G
<1>3. 0 \in T /\ \A k \in Nat : k \in T => k + 1 \in T
  BY <1>1, <1>2
<1>. HIDE DEF T
<1>4. Levels - 1 \in T
  BY <1>3, Induction, PageTableAssumption
<1>5. G(Levels - 1)
  BY <1>4 DEF T
<1>. QED BY <1>5 DEF TablesAt, G

LEMMA RootTable ==
  ASSUME NEW m PROVE TablesAt(m)[0] = {root}
BY TablesDef, PageTableAssumption

\* An entry that points to a table makes its page one.
LEMMA PointerLemma ==
  ASSUME NEW m, Image(m), NEW d \in 0 .. Levels - 1, d + 1 <= Levels - 1,
         NEW at \in Address, at \div Slots \in TablesAt(m)[d],
         m[at].V, is_pointer_to_next_level_pte(m[at])
  PROVE  m[at].ppn \in TablesAt(m)[d + 1] /\ m[at].ppn \in Frame
PROOF
<1>. USE PageTableAssumption
<1>1. d + 1 \in 0 .. Levels - 1 /\ d + 1 # 0 /\ (d + 1) - 1 = d
  OBVIOUS
<1>2. TablesAt(m)[d + 1] =
        {m[e].ppn : e \in {p \in Address : p \div Slots \in TablesAt(m)[d]
                             /\ m[p].V /\ is_pointer_to_next_level_pte(m[p])}}
  BY <1>1, TablesDef
<1>3. m[at].ppn \in Frame
  <2>1. m[at] \in Word
    BY DEF Image
  <2>. QED BY <2>1, MemoryAssumption DEF Image, InRange, Word, Frame
<1>. QED BY <1>2, <1>3

\* A table the walk meets on level i is one level from the root further down.
At(m, i) == TablesAt(m)[Levels - 1 - i] \cap Frame

LEMMA AtLemma ==
  ASSUME NEW m, Image(m)
  PROVE  /\ root \in At(m, Levels - 1)
         /\ \A i \in 0 .. Levels - 1 : At(m, i) \subseteq Tables(m) /\ At(m, i) \subseteq Nat
         /\ \A i \in 0 .. Levels - 2, va \in Nat : \A f \in At(m, i + 1) :
              LET pte == m[f * Slots + get_vpn(va, i + 1)] IN
                pte.V /\ is_pointer_to_next_level_pte(pte) => pte.ppn \in At(m, i)
PROOF
<1>. USE PageTableAssumption
<1>1. root \in At(m, Levels - 1)
  <2>1. Levels - 1 - (Levels - 1) = 0
    OBVIOUS
  <2>. QED BY <2>1, RootTable, RootLemma DEF At
<1>2. ASSUME NEW i \in 0 .. Levels - 1
      PROVE  At(m, i) \subseteq Tables(m) /\ At(m, i) \subseteq Nat
  <2>1. Levels - 1 - i \in 0 .. Levels - 1
    OBVIOUS
  <2>. QED BY <2>1 DEF At, Tables, Frame
<1>3. ASSUME NEW i \in 0 .. Levels - 2, NEW f \in At(m, i + 1), NEW va \in Nat,
             m[f * Slots + get_vpn(va, i + 1)].V,
             is_pointer_to_next_level_pte(m[f * Slots + get_vpn(va, i + 1)])
      PROVE  m[f * Slots + get_vpn(va, i + 1)].ppn \in At(m, i)
  <2> DEFINE d == Levels - 1 - (i + 1)
             at == f * Slots + get_vpn(va, i + 1)
  <2>1. d \in 0 .. Levels - 1 /\ d + 1 <= Levels - 1 /\ d + 1 = Levels - 1 - i
        /\ i + 1 \in 0 .. Levels - 1
    OBVIOUS
  <2>2. f \in TablesAt(m)[d] /\ f \in Frame
    BY DEF At
  <2>3. at \in Address /\ at \div Slots = f
    BY <2>1, <2>2, EntryLemma
  <2>. HIDE DEF d, at
  <2>4. m[at].ppn \in TablesAt(m)[d + 1] /\ m[at].ppn \in Frame
    BY <1>3, <2>1, <2>2, <2>3, PointerLemma DEF at
  <2>. QED BY <2>1, <2>4 DEF At, at
<1>. QED BY <1>1, <1>2, <1>3

-----------------------------------------------------------------------------
(* What the walk finds. *)

\* A leaf lies in a table, and its entry is valid.
LeafOf(m, leaf) ==
  leaf # NoLeaf => /\ leaf.at \in Address /\ leaf.at \div Slots \in Tables(m)
                   /\ m[leaf.at].V

LEMMA LeafLemma ==
  ASSUME NEW m, Image(m), NEW va \in Nat
  PROVE  \A i \in 0 .. Levels - 1 : \A f \in At(m, i) : LeafOf(m, descend(m, va)[i][f])
PROOF
<1>. USE PageTableAssumption
<1> DEFINE T == {i \in Nat : i <= Levels - 1 => \A f \in At(m, i) : LeafOf(m, descend(m, va)[i][f])}
<1>1. ASSUME NEW i \in 0 .. Levels - 1, NEW f \in At(m, i),
             i # 0 => \A g \in At(m, i - 1) : LeafOf(m, descend(m, va)[i - 1][g])
      PROVE  LeafOf(m, descend(m, va)[i][f])
  <2> DEFINE at == f * Slots + get_vpn(va, i)
  <2>1. f \in Frame /\ f \in Nat /\ f \in Tables(m)
    BY AtLemma DEF At
  <2>2. at \in Address /\ at \div Slots = f
    BY <2>1, EntryLemma
  <2>3. descend(m, va)[i][f] = outcome(m, va, i, at)
    BY <2>1, WalkStep
  <2>. HIDE DEF at
  <2>4. CASE /\ outcome(m, va, i, at) = descend(m, va)[i - 1][m[at].ppn]
             /\ m[at].V /\ is_pointer_to_next_level_pte(m[at]) /\ i # 0
    <3>1. i - 1 \in 0 .. Levels - 2 /\ (i - 1) + 1 = i
      BY <2>4
    <3>2. m[at].ppn \in At(m, i - 1)
      BY <2>4, <3>1, AtLemma DEF at
    <3>. QED BY <1>1, <2>3, <2>4, <3>2
  <2>5. CASE outcome(m, va, i, at) = [level |-> i, at |-> at] /\ m[at].V
    BY <2>1, <2>2, <2>3, <2>5 DEF LeafOf
  <2>6. CASE outcome(m, va, i, at) = NoLeaf
    BY <2>3, <2>6 DEF LeafOf
  <2>7. m[at] \in Word
    BY <2>2 DEF Image
  <2>. QED BY <2>4, <2>5, <2>6, <2>7, FoundLemma
<1>2. 0 \in T
  BY <1>1
<1>3. ASSUME NEW i \in Nat, i \in T PROVE i + 1 \in T
  <2>1. SUFFICES ASSUME i + 1 <= Levels - 1
                 PROVE  \A f \in At(m, i + 1) : LeafOf(m, descend(m, va)[i + 1][f])
    OBVIOUS
  <2>2. i + 1 \in 0 .. Levels - 1 /\ (i + 1) - 1 = i /\ i <= Levels - 1
    BY <2>1
  <2>. QED BY <1>1, <1>3, <2>2
<1>. HIDE DEF T
<1>4. Nat \subseteq T
  BY <1>2, <1>3, Induction
<1>. QED BY <1>4 DEF T

LEMMA WalkLemma ==
  ASSUME NEW m, Image(m), NEW va \in Nat, walk(m, root, va) # NoLeaf
  PROVE  LET at == walk(m, root, va).at IN
           /\ at \in Address /\ at \div Slots \in Tables(m)
           /\ m[at] \in Word /\ m[at].V /\ m[at].ppn \in Frame
PROOF
<1> DEFINE at == walk(m, root, va).at
<1>1. Levels - 1 \in 0 .. Levels - 1
  BY PageTableAssumption
<1>2. at \in Address /\ at \div Slots \in Tables(m) /\ m[at].V
  BY <1>1, AtLemma, LeafLemma DEF walk, LeafOf
<1>. HIDE DEF at
<1>3. m[at] \in Word /\ m[at].ppn \in Frame
  BY <1>2, MemoryAssumption DEF Image, InRange, Word, Frame
<1>. QED BY <1>2, <1>3 DEF at

-----------------------------------------------------------------------------
(* Accessed and dirty bits do not matter to the walk. *)

LEMMA UnmarkedLemma ==
  ASSUME NEW v \in Word, NEW w \in Word
  PROVE  Unmarked(v) = Unmarked(w) <=>
           /\ v.V = w.V /\ v.R = w.R /\ v.W = w.W /\ v.E = w.E /\ v.U = w.U
           /\ v.reserved = w.reserved /\ v.ppn = w.ppn
BY DEF Unmarked, Word

\* Two images whose entries differ in these bits alone, in the tables of one.
SameTables(m, n) ==
  \A p \in Address : p \div Slots \in Tables(m) => Unmarked(m[p]) = Unmarked(n[p])

LEMMA SameWalk ==
  ASSUME NEW m, NEW n, Image(m), Image(n), SameTables(m, n), NEW va \in Nat
  PROVE  walk(m, root, va) = walk(n, root, va)
PROOF
<1>. USE PageTableAssumption
<1> DEFINE Same(i) == \A f \in At(m, i) : descend(m, va)[i][f] = descend(n, va)[i][f]
           T == {i \in Nat : i <= Levels - 1 => Same(i)}
<1>1. ASSUME NEW i \in 0 .. Levels - 1, NEW f \in At(m, i), i # 0 => Same(i - 1)
      PROVE  descend(m, va)[i][f] = descend(n, va)[i][f]
  <2> DEFINE at == f * Slots + get_vpn(va, i)
  <2>1. f \in Frame /\ f \in Nat /\ f \in Tables(m)
    BY AtLemma DEF At
  <2>2. at \in Address /\ at \div Slots = f
    BY <2>1, EntryLemma
  <2>3. /\ descend(m, va)[i][f] = outcome(m, va, i, at)
        /\ descend(n, va)[i][f] = outcome(n, va, i, at)
    BY <2>1, WalkStep
  <2>4. m[at].V /\ is_pointer_to_next_level_pte(m[at]) /\ i # 0 =>
          descend(m, va)[i - 1][m[at].ppn] = descend(n, va)[i - 1][m[at].ppn]
    <3>1. SUFFICES ASSUME m[at].V, is_pointer_to_next_level_pte(m[at]), i # 0
                   PROVE  descend(m, va)[i - 1][m[at].ppn] = descend(n, va)[i - 1][m[at].ppn]
      OBVIOUS
    <3>2. i - 1 \in 0 .. Levels - 2 /\ (i - 1) + 1 = i
      BY <3>1
    <3>3. m[at].ppn \in At(m, i - 1)
      BY <3>1, <3>2, AtLemma
    <3>. QED BY <1>1, <3>1, <3>3
  <2>. HIDE DEF at
  <2>5. m[at] \in Word /\ n[at] \in Word /\ Unmarked(m[at]) = Unmarked(n[at])
    BY <2>1, <2>2 DEF Image, SameTables
  <2>6. outcome(m, va, i, at) = outcome(n, va, i, at)
    <3>1. /\ m[at].V = n[at].V /\ m[at].R = n[at].R /\ m[at].W = n[at].W /\ m[at].E = n[at].E
          /\ m[at].reserved = n[at].reserved /\ m[at].ppn = n[at].ppn
      BY <2>5, UnmarkedLemma
    <3>2. i \in Nat
      OBVIOUS
    <3>. QED BY <2>4, <2>5, <3>1, <3>2, SameOutcome
  <2>. QED BY <2>3, <2>6
<1>2. 0 \in T
  BY <1>1
<1>3. ASSUME NEW i \in Nat, i \in T PROVE i + 1 \in T
  <2>1. SUFFICES ASSUME i + 1 <= Levels - 1 PROVE Same(i + 1)
    OBVIOUS
  <2>2. i + 1 \in 0 .. Levels - 1 /\ (i + 1) - 1 = i /\ i <= Levels - 1
    BY <2>1
  <2>3. Same(i)
    BY <1>3, <2>2
  <2>. QED BY <1>1, <2>2, <2>3
<1>. HIDE DEF T
<1>4. Levels - 1 \in T
  BY <1>2, <1>3, Induction
<1>5. Same(Levels - 1)
  <2>1. Levels - 1 <= Levels - 1
    OBVIOUS
  <2>. HIDE DEF Same
  <2>. QED BY <1>4, <2>1 DEF T
<1>. QED BY <1>5, AtLemma DEF walk

-----------------------------------------------------------------------------
(* Marking and storing. *)

\* What a word of such memory is.
Entry == {w \in Word : w.V => w.ppn < Frames}

LEMMA ImageLemma == \A m : Image(m) <=> m \in [Address -> Entry]
BY DEF Image, InRange, Entry

\* The entry with its bits set.
Marked(w, kind) == [w EXCEPT !.A = TRUE, !.D = @ \/ kind = "write"]

LEMMA MarkedLemma ==
  ASSUME NEW w \in Word, NEW kind
  PROVE  /\ Marked(w, kind) \in Word /\ Unmarked(Marked(w, kind)) = Unmarked(w)
         /\ Marked(w, kind).A
         /\ kind # "write" => Marked(w, kind).D = w.D
         /\ kind = "write" => Marked(w, kind).D
PROOF
<1>1. \A d \in BOOLEAN : LET v == [w EXCEPT !.A = TRUE, !.D = d] IN
        v \in Word /\ Unmarked(v) = Unmarked(w) /\ v.A = TRUE /\ v.D = d
  BY DEF Word, Unmarked
<1>2. w.D \in BOOLEAN
  BY DEF Word
<1>3. Marked(w, kind) = [w EXCEPT !.A = TRUE, !.D = (w.D \/ kind = "write")]
  BY DEF Marked, Word
<1>4. CASE kind = "write"
  <2>1. Marked(w, kind) = [w EXCEPT !.A = TRUE, !.D = TRUE]
    BY <1>2, <1>3, <1>4, Zenon
  <2>. QED BY <1>1, <1>4, <2>1
<1>5. CASE kind # "write"
  <2>1. (w.D \/ kind = "write") = w.D
    BY <1>2, <1>5
  <2>2. Marked(w, kind) = [w EXCEPT !.A = TRUE, !.D = w.D]
    BY <1>3, <2>1, Zenon
  <2>. QED BY <1>1, <1>2, <1>5, <2>2
<1>. QED BY <1>4, <1>5

\* Access to va marks the leaf and leaves everything else as it is.
LEMMA MarkLemma ==
  ASSUME NEW m, Image(m), NEW va \in Nat, walk(m, root, va) # NoLeaf, NEW kind
  PROVE  LET at == walk(m, root, va).at IN
           /\ Image(Mark(m, kind, va))
           /\ \A p \in Address : Mark(m, kind, va)[p] = IF p = at THEN Marked(m[p], kind) ELSE m[p]
PROOF
<1> DEFINE at == walk(m, root, va).at
<1>1. at \in Address /\ m[at] \in Word /\ m[at].V /\ m[at].ppn < Frames
  BY WalkLemma, MemoryAssumption DEF Frame
<1>2. Mark(m, kind, va) = [m EXCEPT ![at] = Marked(m[at], kind)]
  BY <1>1 DEF Mark, Marked, Image
<1>. HIDE DEF at
<1>3. Marked(m[at], kind) \in Word /\ Marked(m[at], kind).ppn = m[at].ppn
  BY <1>1, MarkedLemma, UnmarkedLemma
<1> DEFINE w == Marked(m[at], kind)
<1>4. w \in Entry
  BY <1>1, <1>3 DEF Entry
<1>. HIDE DEF w
<1> DEFINE n == Mark(m, kind, va)
<1>5. n = [m EXCEPT ![at] = w]
  BY <1>2 DEF w
<1>. HIDE DEF n
<1>6. Image(n) /\ \A p \in Address : n[p] = IF p = at THEN w ELSE m[p]
  BY <1>4, <1>5, ImageLemma
<1>. QED BY <1>6 DEF at, w, n

-----------------------------------------------------------------------------
(* The leaves. *)

\* Where the leaf entries of the tables in m are.
Places(m) ==
  {leaf.at : leaf \in {walk(m, root, page * Slots) : page \in 0 .. Width \div Slots - 1} \ {NoLeaf}}

LEMMA LeavesLemma == \A m : Leaves(m) = {m[at] : at \in Places(m)}
BY DEF Leaves, Places

LEMMA PlacesLemma ==
  ASSUME NEW m, Image(m), NEW at \in Places(m)
  PROVE  /\ at \in Address /\ at \div Slots \in Tables(m)
         /\ m[at] \in Word /\ m[at].V /\ m[at].ppn \in Frame
PROOF
<1>1. PICK page \in 0 .. Width \div Slots - 1 :
        walk(m, root, page * Slots) # NoLeaf /\ at = walk(m, root, page * Slots).at
  BY DEF Places
<1>2. page * Slots \in Nat
  BY PageTableAssumption
<1>. QED BY <1>1, <1>2, WalkLemma

\* Whatever the address, its leaf is one of the leaves of the tables.
LEMMA ReachedPlace ==
  ASSUME NEW m, NEW va \in Nat, walk(m, root, va) # NoLeaf
  PROVE  walk(m, root, va).at \in Places(m)
PROOF
<1> DEFINE page == translated_page(va)
<1>1. /\ page \in 0 .. Width \div Slots - 1
      /\ \A l \in 0 .. Levels - 1 : get_vpn(va, l) = get_vpn(page * Slots, l)
  BY VpnOfAddress
<1>. HIDE DEF page
<1>2. Levels - 1 \in 0 .. Levels - 1
  BY PageTableAssumption
<1>3. walk(m, root, va) = walk(m, root, page * Slots)
  BY <1>1, <1>2, WalkOfPage DEF walk
<1>. QED BY <1>1, <1>3 DEF Places

-----------------------------------------------------------------------------
(* The invariant. *)

\* The tables are out of reach of the programs.
Separate == Reach \cap Tables(granted) = {}

\* Beyond their reach nothing but the marks of translation changes.
Kept ==
  \A p \in Address : p \div Slots \notin Reach => Unmarked(mem[p]) = Unmarked(granted[p])

\* The dirty bits are those of the pages written, in the entries machine mode
\* wrote.
Dirty ==
  /\ \A f \in written : \E at \in Places(granted) :
       mem[at].ppn = f /\ mem[at].W /\ mem[at].D /\ mem[at].A
  /\ \A at \in Places(granted) : mem[at].D => mem[at].ppn \in written \/ granted[at].D

Inv ==
  /\ TypeOK /\ InRange(granted)
  /\ Separate => Kept /\ Dirty

LEMMA InvImages == Inv => Image(mem) /\ Image(granted)
BY DEF Inv, TypeOK, Image

\* The walk is the one through the tables machine mode left.
LEMMA WalkAsGranted ==
  ASSUME Inv, Separate
  PROVE  /\ \A at \in Address : at \div Slots \in Tables(granted) =>
              /\ at \div Slots \notin Reach
              /\ mem[at] \in Word /\ granted[at] \in Word
              /\ Unmarked(mem[at]) = Unmarked(granted[at])
         /\ \A va \in Nat : walk(granted, root, va) = walk(mem, root, va)
PROOF
<1>1. Image(mem) /\ Image(granted) /\ Kept
  BY InvImages DEF Inv
<1>2. ASSUME NEW at \in Address, at \div Slots \in Tables(granted)
      PROVE  /\ at \div Slots \notin Reach
             /\ mem[at] \in Word /\ granted[at] \in Word
             /\ Unmarked(mem[at]) = Unmarked(granted[at])
  <2>1. at \div Slots \notin Reach
    BY <1>2 DEF Separate
  <2>. QED BY <1>1, <2>1 DEF Kept, Image
<1>3. SameTables(granted, mem)
  BY <1>2 DEF SameTables
<1>. QED BY <1>1, <1>2, <1>3, SameWalk

LEMMA InitStep == Init => Inv
PROOF
<1>. SUFFICES ASSUME Init PROVE Inv
  OBVIOUS
<1>1. TypeOK /\ InRange(granted)
  BY MemoryAssumption DEF Init, TypeOK
<1>2. Kept /\ Dirty
  BY DEF Init, Kept, Dirty
<1>. QED BY <1>1, <1>2 DEF Inv

\* A store of machine mode grants anew.
LEMMA PhysicalStoreStep ==
  ASSUME Inv, NEW s \in MachineStores, PhysicalStore(s[1], s[2])
  PROVE  Inv'
PROOF
<1>1. /\ mem' = [mem EXCEPT ![s[1]] = s[2]] /\ granted' = mem' /\ written' = {} /\ kept_off' = {} /\ ctx' = ctx
  BY DEF PhysicalStore, Regrant
<1>2. s[2] \in Entry
  BY MemoryAssumption DEF Entry
<1>3. Image(mem')
  BY <1>1, <1>2, InvImages, ImageLemma
<1>4. TypeOK' /\ InRange(granted)'
  BY <1>1, <1>3 DEF Inv, TypeOK, Image, InRange
<1>5. Kept' /\ Dirty'
  BY <1>1 DEF Kept, Dirty
<1>. QED BY <1>4, <1>5 DEF Inv

\* Machine mode grants nothing else, and stores only widen what they reach.
LEMMA GrantedKept ==
  ASSUME granted' = granted, kept_off \subseteq kept_off'
  PROVE  /\ Reach \subseteq Reach' /\ (Separate' => Separate)
         /\ kept_off' = kept_off => Reach' = Reach
         /\ Places(granted)' = Places(granted)
PROOF
<1>1. Leaves(granted)' = Leaves(granted) /\ Places(granted)' = Places(granted)
      /\ Tables(granted)' = Tables(granted)
  BY DEF Leaves, Places, Tables, TablesAt, walk
<1>2. Open \subseteq Open'
  BY <1>1 DEF Open
<1>3. kept_off' = kept_off => Open' = Open
  BY <1>1 DEF Open
<1>. QED BY <1>1, <1>2, <1>3 DEF Reach, Separate

LEMMA UnchangedStep ==
  ASSUME Inv, UNCHANGED <<mem, granted, written, kept_off>>, ctx' \in Contexts
  PROVE  Inv'
PROOF
<1>1. TypeOK' /\ InRange(granted)'
  BY DEF Inv, TypeOK, InRange
<1>2. Kept => Kept'
  BY GrantedKept DEF Kept
<1>3. Dirty => Dirty'
  BY GrantedKept DEF Dirty
<1>. QED BY <1>1, <1>2, <1>3, GrantedKept DEF Inv

\* An access that is no store marks a leaf accessed.
LEMMA AccessStep ==
  ASSUME Inv, NEW va \in Virtual, NEW kind \in {"read", "execute"}, Access(kind, va)
  PROVE  Inv'
PROOF
<1> DEFINE at == walk(mem, root, va).at
<1>1. /\ walk(mem, root, va) # NoLeaf /\ mem' = Mark(mem, kind, va)
      /\ UNCHANGED <<ctx, granted, written, kept_off>>
  BY DEF Access, Succeeds
<1>2. va \in Nat
  BY DEF Virtual
<1>3. /\ Image(mem')
      /\ \A p \in Address : mem'[p] = IF p = at THEN Marked(mem[p], kind) ELSE mem[p]
  BY <1>1, <1>2, InvImages, MarkLemma
<1>. HIDE DEF at
<1>4. kind # "write"
  OBVIOUS
<1>5. \A p \in Address : /\ mem'[p] \in Word /\ mem[p] \in Word /\ Unmarked(mem'[p]) = Unmarked(mem[p])
                         /\ mem[p].A => mem'[p].A
                         /\ mem'[p].D = mem[p].D
  BY <1>3, <1>4, InvImages, MarkedLemma DEF Image
<1>6. TypeOK' /\ InRange(granted)'
  BY <1>1, <1>3 DEF Inv, TypeOK, Image, InRange
<1>7. ASSUME Separate PROVE Kept' /\ Dirty'
  <2>1. Kept /\ Dirty
    BY <1>7 DEF Inv
  <2>2. Kept'
    <3>1. SUFFICES ASSUME NEW p \in Address, p \div Slots \notin Reach
                   PROVE  Unmarked(mem'[p]) = Unmarked(granted[p])
      BY <1>1, GrantedKept DEF Kept
    <3>. QED BY <2>1, <3>1, <1>5 DEF Kept
  <2>3. \A p \in Address : /\ mem'[p].ppn = mem[p].ppn /\ mem'[p].W = mem[p].W
                           /\ mem'[p].D = mem[p].D
    BY <1>5, UnmarkedLemma
  <2>4. \A e \in Places(granted) : e \in Address
    BY InvImages, PlacesLemma
  <2>5. ASSUME NEW f \in written'
        PROVE  \E e \in Places(granted) : mem'[e].ppn = f /\ mem'[e].W /\ mem'[e].D /\ mem'[e].A
    <3>1. PICK e \in Places(granted) : mem[e].ppn = f /\ mem[e].W /\ mem[e].D /\ mem[e].A
      BY <1>1, <2>1 DEF Dirty
    <3>. QED BY <3>1, <1>5, <2>3, <2>4
  <2>6. \A e \in Places(granted) : mem'[e].D => mem'[e].ppn \in written' \/ granted[e].D
    BY <1>1, <2>1, <2>3, <2>4 DEF Dirty
  <2>. QED BY <1>1, <2>2, <2>5, <2>6, GrantedKept DEF Dirty
<1>. QED BY <1>1, <1>6, <1>7, GrantedKept DEF Inv

\* A store writes to the page of its leaf and, when it runs over, to the next.
LEMMA StoreEffect ==
  ASSUME Inv, NEW va \in Virtual, NEW value \in Stored, store(va, value)
  PROVE  LET at == walk(mem, root, va).at
             f == mem[at].ppn
         IN  /\ walk(mem, root, va) # NoLeaf /\ at \in Address
             /\ mem[at] \in Word /\ mem[at].V /\ mem[at].W /\ f \in Frame
             /\ Image(mem')
             /\ \A p \in Address : p \div Slots \notin {f, f + 1} =>
                  mem'[p] = IF p = at THEN Marked(mem[p], "write") ELSE mem[p]
             /\ written' = written \cup {f} /\ UNCHANGED <<ctx, granted>>
             /\ kept_off' = kept_off \cup {OffUserPages(ctx)}
             /\ OffUserPages(ctx) => ~mem[at].U
PROOF
<1>. USE PageTableAssumption, MemoryAssumption
<1> DEFINE at == walk(mem, root, va).at
           f == mem[at].ppn
           o == get_page_offset(va)
           pa == f * Slots + o
           marked == Mark(mem, "write", va)
<1>1. /\ walk(mem, root, va) # NoLeaf /\ Grants(mem[at], "write", ctx.mxr)
      /\ \/ mem' = [marked EXCEPT ![pa] = value]
         \/ pa + 1 \in Address /\ mem' = StoreAcross(marked, pa, value)
      /\ written' = written \cup {pa \div Slots} /\ UNCHANGED <<ctx, granted>>
      /\ kept_off' = kept_off \cup {OffUserPages(ctx)}
      /\ OffUserPages(ctx) => ~mem[at].U
  BY DEF store, Succeeds, Physical, result
<1>2. va \in Nat
  BY DEF Virtual
<1>3. at \in Address /\ mem[at] \in Word /\ mem[at].V /\ f \in Frame
  BY <1>1, <1>2, InvImages, WalkLemma
<1>4. mem[at].W
  BY <1>1 DEF Grants
<1>5. /\ Image(marked)
      /\ \A p \in Address : marked[p] = IF p = at THEN Marked(mem[p], "write") ELSE mem[p]
  BY <1>1, <1>2, InvImages, MarkLemma
<1>6. o \in 0 .. Slots - 1
  BY <1>2, Quotient DEF get_page_offset
<1>. HIDE DEF at, o, marked
<1>7. pa \in Address /\ pa \div Slots = f
  BY <1>3, <1>6, AddressLemma
<1>8. (pa + 1) \div Slots \in {f, f + 1}
  <2> DEFINE g == f
  <2>1. g \in Nat /\ Slots \in Nat \ {0} /\ o \in Nat
    BY <1>3, <1>6 DEF Frame
  <2>. HIDE DEF g
  <2>2. CASE o + 1 \in 0 .. Slots - 1
    <3>1. (g * Slots + (o + 1)) \div Slots = g
      BY <2>1, <2>2, QuotientUnique
    <3>2. (g * Slots + o) + 1 = g * Slots + (o + 1)
      BY <2>1
    <3>. QED BY <3>1, <3>2 DEF g
  <2>3. CASE o + 1 = Slots
    <3>1. ((g + 1) * Slots + 0) \div Slots = g + 1
      <4>1. g + 1 \in Nat /\ 0 \in 0 .. Slots - 1
        BY <2>1
      <4>. QED BY <2>1, <4>1, QuotientUnique
    <3>2. (g * Slots + o) + 1 = (g + 1) * Slots + 0
      BY <2>1, <2>3
    <3>. QED BY <3>1, <3>2 DEF g
  <2>. QED BY <1>6, <2>2, <2>3
<1>. HIDE DEF pa
<1>9. value \in Entry /\ value \in Word /\ value.ppn < Frames /\ value.reserved \in BOOLEAN
  BY DEF Entry, Word
<1>10. \A p \in Address : p \div Slots \notin {f, f + 1} => p # pa /\ p # pa + 1
  BY <1>7, <1>8
<1>11. CASE mem' = [marked EXCEPT ![pa] = value]
  <2>1. Image(mem')
    BY <1>5, <1>9, <1>11, ImageLemma
  <2>2. \A p \in Address : p # pa => mem'[p] = marked[p]
    BY <1>5, <1>11 DEF Image
  <2>. QED BY <1>1, <1>3, <1>4, <1>5, <1>7, <1>10, <2>1, <2>2 DEF at
<1>12. CASE pa + 1 \in Address /\ mem' = StoreAcross(marked, pa, value)
  <2> DEFINE v == [marked[pa] EXCEPT !.reserved = value.reserved]
             w == [value EXCEPT !.reserved = marked[pa + 1].reserved]
  <2>1. marked[pa] \in Entry /\ marked[pa + 1] \in Entry
    BY <1>5, <1>7, <1>12, ImageLemma
  <2>2. v \in Entry /\ w \in Entry
    BY <1>9, <2>1 DEF Entry, Word
  <2>3. mem' = [marked EXCEPT ![pa] = v, ![pa + 1] = w]
    BY <1>5, <1>7, <1>12 DEF StoreAcross, Image
  <2>. HIDE DEF v, w
  <2>4. Image(mem')
    BY <1>5, <2>2, <2>3, ImageLemma
  <2>5. \A p \in Address : p # pa /\ p # pa + 1 => mem'[p] = marked[p]
    BY <1>5, <2>3 DEF Image
  <2>. QED BY <1>1, <1>3, <1>4, <1>5, <1>7, <1>10, <2>4, <2>5 DEF at
<1>. QED BY <1>1, <1>11, <1>12

LEMMA StoreStep ==
  ASSUME Inv, NEW va \in Virtual, NEW value \in Stored, store(va, value)
  PROVE  Inv'
PROOF
<1> DEFINE at == walk(mem, root, va).at
           f == mem[at].ppn
<1>1. /\ walk(mem, root, va) # NoLeaf /\ at \in Address
      /\ mem[at] \in Word /\ mem[at].V /\ mem[at].W /\ f \in Frame
      /\ Image(mem')
      /\ \A p \in Address : p \div Slots \notin {f, f + 1} =>
           mem'[p] = IF p = at THEN Marked(mem[p], "write") ELSE mem[p]
      /\ written' = written \cup {f} /\ UNCHANGED <<ctx, granted>>
      /\ kept_off' = kept_off \cup {OffUserPages(ctx)}
      /\ OffUserPages(ctx) => ~mem[at].U
      /\ OffUserPages(ctx) \in BOOLEAN
  BY StoreEffect DEF OffUserPages
<1>2. TypeOK' /\ InRange(granted)'
  BY <1>1 DEF Inv, TypeOK, Image, InRange, Frame
<1>3. ASSUME Separate' PROVE Kept' /\ Dirty'
  <2>0. Separate /\ Reach \subseteq Reach' /\ Places(granted)' = Places(granted)
    BY <1>1, <1>3, GrantedKept
  <2>1. Kept /\ Dirty /\ Image(mem) /\ Image(granted)
    BY <2>0, InvImages DEF Inv
  <2>2. at \in Places(granted)
    <3>1. va \in Nat
      BY DEF Virtual
    <3>2. walk(granted, root, va) = walk(mem, root, va)
      BY <2>0, <3>1, WalkAsGranted
    <3>. QED BY <1>1, <3>1, <3>2, ReachedPlace
  <2>. HIDE DEF at
  <2>3. \A e \in Places(granted) :
          /\ e \in Address /\ e \div Slots \notin Reach
          /\ mem[e] \in Word /\ granted[e] \in Word
          /\ Unmarked(mem[e]) = Unmarked(granted[e])
    BY <2>0, <2>1, PlacesLemma, WalkAsGranted
  <2>4. f \in Open'
    <3>1. granted[at].W /\ granted[at].ppn = f /\ (OffUserPages(ctx) => ~granted[at].U)
      BY <1>1, <2>2, <2>3, UnmarkedLemma
    <3>2. granted[at] \in Leaves(granted)'
      <4>1. granted[at] \in Leaves(granted)
        BY <2>2, LeavesLemma
      <4>. QED BY <1>1, <4>1 DEF Leaves
    <3>3. OffUserPages(ctx) \in kept_off'
      BY <1>1
    <3>. QED BY <3>1, <3>2, <3>3 DEF Open
  <2>5. f \in Reach' /\ f + 1 \in Reach'
    BY <2>4 DEF Reach
  <2>6. \A p \in Address : p \div Slots \notin Reach' =>
          /\ mem'[p] = IF p = at THEN Marked(mem[p], "write") ELSE mem[p]
          /\ mem[p] \in Word
    BY <1>1, <2>1, <2>5 DEF Image
  <2>6a. \A e \in Places(granted) : e \div Slots \notin Reach'
    <3>1. \A e \in Places(granted) : e \div Slots \in Tables(granted)
      BY <2>1, PlacesLemma
    <3>2. Tables(granted)' = Tables(granted)
      BY <1>1
    <3>. QED BY <1>3, <3>1, <3>2 DEF Separate
  <2>7. Kept'
    <3>1. SUFFICES ASSUME NEW p \in Address, p \div Slots \notin Reach'
                   PROVE  Unmarked(mem'[p]) = Unmarked(granted[p])
      BY <1>1 DEF Kept
    <3>2. Unmarked(mem[p]) = Unmarked(granted[p])
      BY <2>0, <2>1, <3>1 DEF Kept
    <3>. QED BY <2>6, <3>1, <3>2, MarkedLemma
  <2>8. ASSUME NEW e \in Places(granted)
        PROVE  /\ mem'[e] \in Word /\ mem'[e].ppn = mem[e].ppn /\ mem'[e].W = mem[e].W
               /\ mem[e].A => mem'[e].A
               /\ mem[e].D => mem'[e].D
               /\ e = at => mem'[e].A /\ mem'[e].D
               /\ e # at => mem'[e] = mem[e]
    <3>1. mem'[e] = IF e = at THEN Marked(mem[e], "write") ELSE mem[e]
      BY <2>3, <2>6, <2>6a
    <3>2. mem[e] \in Word
      BY <2>3
    <3>3. CASE e = at
      <4>1. mem'[e] = Marked(mem[e], "write")
        BY <3>1, <3>3
      <4>. QED BY <3>2, <3>3, <4>1, MarkedLemma, UnmarkedLemma
    <3>4. CASE e # at
      BY <3>1, <3>2, <3>4
    <3>. QED BY <3>3, <3>4
  <2>9. ASSUME NEW g \in written'
        PROVE  \E e \in Places(granted) : mem'[e].ppn = g /\ mem'[e].W /\ mem'[e].D /\ mem'[e].A
    <3>1. CASE g = f
      BY <3>1, <1>1, <2>2, <2>8
    <3>2. CASE g \in written
      <4>1. PICK e \in Places(granted) : mem[e].ppn = g /\ mem[e].W /\ mem[e].D /\ mem[e].A
        BY <3>2, <2>1 DEF Dirty
      <4>. QED BY <4>1, <2>8
    <3>. QED BY <3>1, <3>2, <1>1
  <2>10. ASSUME NEW e \in Places(granted), mem'[e].D
         PROVE  mem'[e].ppn \in written' \/ granted[e].D
    <3>1. CASE e = at
      BY <3>1, <1>1, <2>8
    <3>2. CASE e # at
      <4>1. mem'[e] = mem[e]
        BY <3>2, <2>8
      <4>. QED BY <4>1, <1>1, <2>1, <2>10 DEF Dirty
    <3>. QED BY <3>1, <3>2
  <2>. QED BY <1>1, <2>0, <2>7, <2>9, <2>10 DEF Dirty
<1>. QED BY <1>2, <1>3 DEF Inv

LEMMA Step == Inv /\ [Next]_vars => Inv'
PROOF
<1>. SUFFICES ASSUME Inv, [Next]_vars PROVE Inv'
  OBVIOUS
<1>1. ASSUME NEW va \in Virtual, load(va) PROVE Inv'
  BY <1>1, AccessStep DEF load
<1>2. ASSUME NEW va \in Virtual, fetch(va) PROVE Inv'
  BY <1>2, AccessStep DEF fetch
<1>3. ASSUME NEW va \in Virtual, NEW value \in Stored, store(va, value) PROVE Inv'
  BY <1>3, StoreStep
<1>4. ASSUME NEW s \in MachineStores, PhysicalStore(s[1], s[2]) PROVE Inv'
  BY <1>4, PhysicalStoreStep
<1>5. CASE Switch
  BY <1>5, UnchangedStep DEF Switch
<1>6. CASE UNCHANGED vars
  BY <1>6, UnchangedStep DEF vars, Inv, TypeOK
<1>. QED BY <1>1, <1>2, <1>3, <1>4, <1>5, <1>6 DEF Next

-----------------------------------------------------------------------------
(* The theorems. *)

LEMMA Invariant == Spec => []Inv
BY InitStep, Step, PTL DEF Spec

\* Memory holds words, every valid entry points into memory and the pages
\* written are pages of memory, whatever is loaded, stored and fetched.
THEOREM TypeCorrect == Spec => []TypeOK
PROOF
<1>1. Inv => TypeOK
  BY DEF Inv
<1>. QED BY <1>1, Invariant, PTL

\* Below machine mode no sequence of accesses changes more than the pages
\* translation let it store to - mapped writable, and without bit U unless some
\* store was not kept off these - and those that follow them, as long as the
\* tables are not among these.
THEOREM AlwaysConfined == Spec => []Confined
PROOF
<1>1. Inv => Confined
  BY DEF Inv, Confined, KeptOutside, Separate, Kept
<1>. QED BY <1>1, Invariant, PTL

\* The dirty bits translate_address leaves tell exactly the pages that stores
\* were translated to, in entries that let them be written.
THEOREM StoresAreDirty == Spec => []DirtyRecorded
PROOF
<1>1. ASSUME Inv PROVE DirtyRecorded
  <2>. SUFFICES ASSUME Separate
                PROVE  /\ \A f \in written : \E l \in Leaves(mem) : l.ppn = f /\ l.W /\ l.D /\ l.A
                       /\ \A l \in Leaves(mem) : l.D =>
                            \/ l.ppn \in written
                            \/ \E g \in Leaves(granted) : g.D /\ Unmarked(g) = Unmarked(l)
    BY DEF DirtyRecorded, Separate
  <2>1. Dirty /\ Image(granted)
    BY <1>1, InvImages DEF Inv
  <2>2. Places(mem) = Places(granted)
    <3>1. \A page \in 0 .. Width \div Slots - 1 : page * Slots \in Nat
      BY PageTableAssumption
    <3>2. \A page \in 0 .. Width \div Slots - 1 :
            walk(granted, root, page * Slots) = walk(mem, root, page * Slots)
      BY <1>1, <3>1, WalkAsGranted
    <3>. QED BY <3>2 DEF Places
  <2>3. Leaves(mem) = {mem[at] : at \in Places(granted)}
        /\ Leaves(granted) = {granted[at] : at \in Places(granted)}
    BY <2>2, LeavesLemma
  <2>4. \A at \in Places(granted) : Unmarked(granted[at]) = Unmarked(mem[at])
    BY <1>1, <2>1, PlacesLemma, WalkAsGranted
  <2>. QED BY <2>1, <2>3, <2>4 DEF Dirty
<1>. QED BY <1>1, Invariant, PTL
=============================================================================
