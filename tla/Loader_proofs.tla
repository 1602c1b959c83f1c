--------------------------- MODULE Loader_proofs ---------------------------
(***************************************************************************)
(* The tables initialize_hart builds are a tree, neither tables nor data   *)
(* outgrow their part of memory, no two pages share a place, the program   *)
(* is in place when it starts, and the walk of the hart finds every page   *)
(* mapped: for every number of levels, every size of a table and every     *)
(* file that fits.                                                         *)
(***************************************************************************)
EXTENDS Loader, FiniteSetTheorems, PageTable_proofs

\* The addresses of the entries of the tables allocated so far.
Entries == kRootPageTablePPN * Slots .. table_ppn * Slots - 1

-----------------------------------------------------------------------------
(* Numbers and sets. *)

LEMMA SlotsLemma ==
  ASSUME NEW f \in Nat, NEW o \in 0 .. Slots - 1
  PROVE  /\ page_of(f * Slots + o) = f
         /\ f * Slots + o \in Nat
         /\ \A n \in Nat : f < n => f * Slots + o < n * Slots
         /\ \A n \in Nat : n <= f => n * Slots <= f * Slots + o
PROOF
<1>. USE PageTableAssumption
<1>1. Slots \in Nat \ {0} /\ o \in Nat /\ o < Slots
  OBVIOUS
<1>2. page_of(f * Slots + o) = f
  BY <1>1 DEF page_of
<1>3. f * Slots + o \in Nat
  BY <1>1
<1>4. \A n \in Nat : f < n => f * Slots + o < n * Slots
  BY <1>1
<1>5. \A n \in Nat : n <= f => n * Slots <= f * Slots + o
  BY <1>1
<1>. QED BY <1>2, <1>3, <1>4, <1>5

LEMMA MonotoneLemma ==
  ASSUME NEW y \in Nat, NEW z \in Nat, y <= z
  PROVE  page_of(y) <= page_of(z)
PROOF
<1>1. Slots \in Nat \ {0}
  BY PageTableAssumption
<1>. QED BY <1>1 DEF page_of

LEMMA PageOfLemma ==
  ASSUME NEW l \in Nat, NEW h \in Nat, NEW q \in l * Slots .. h * Slots - 1
  PROVE  page_of(q) \in l .. h - 1
PROOF
<1>. USE PageTableAssumption
<1>1. Slots \in Nat \ {0} /\ l * Slots \in Nat /\ h * Slots \in Nat /\ q \in Nat
  OBVIOUS
<1>2. q = page_of(q) * Slots + (q % Slots) /\ q % Slots \in 0 .. Slots - 1 /\ page_of(q) \in Nat
  BY <1>1 DEF page_of
<1> DEFINE d == page_of(q)
<1>3. d \in Nat /\ d * Slots <= q /\ q < (d + 1) * Slots
  BY <1>1, <1>2
<1>. HIDE DEF d
<1>4. l <= d
  <2>1. l * Slots < (d + 1) * Slots
    BY <1>1, <1>3
  <2>2. d + 1 <= l => (d + 1) * Slots <= l * Slots
    BY <1>1, <1>3
  <2>. QED BY <1>1, <1>3, <2>1, <2>2
<1>5. d < h
  <2>1. d * Slots < h * Slots
    BY <1>1, <1>3
  <2>2. h <= d => h * Slots <= d * Slots
    BY <1>1, <1>3
  <2>. QED BY <1>1, <1>3, <2>1, <2>2
<1>. QED BY <1>3, <1>4, <1>5 DEF d

\* A set of numbers has a least member.
LEMMA MinLemma ==
  ASSUME NEW T \in SUBSET Nat, T # {}
  PROVE  Min(T) \in T /\ \A y \in T : Min(T) <= y
PROOF
<1>1. PICK x \in T : \A y \in T : ~ (<<y, x>> \in OpToRel(<, Nat))
  BY NatLessThanWellFounded, WFMin
<1>2. OpToRel(<, Nat) = {ss \in Nat \X Nat : ss[1] < ss[2]}
  BY DEF OpToRel
<1>3. ASSUME NEW y \in T PROVE x <= y
  <2>1. <<y, x>> \notin {ss \in Nat \X Nat : ss[1] < ss[2]}
    BY <1>1, <1>2
  <2>2. <<y, x>> \in Nat \X Nat /\ <<y, x>>[1] = y /\ <<y, x>>[2] = x
    OBVIOUS
  <2>3. ~ (y < x) /\ y \in Nat /\ x \in Nat
    BY <2>1, <2>2
  <2>. QED BY <2>3
<1>. QED BY <1>3 DEF Min

\* A file's pages are a finite set of numbers, and there is room for them.
LEMMA PagesLemma ==
  ASSUME NEW e \in Elfs
  PROVE  /\ Pages(e) \in SUBSET Nat /\ IsFiniteSet(Pages(e))
         /\ Cardinality(Pages(e)) \in Nat
         /\ 1 + Cardinality(Pages(e)) * (Levels - 1) < first_data_ppn
         /\ first_data_ppn + Cardinality(Pages(e)) <= Frames
         /\ first_data_ppn \in Nat
         /\ Pages(e) # {}
         /\ \A k \in Loadable(e) : page_of(e[k].va) \in Pages(e)
PROOF
<1>. USE PageTableAssumption, LoaderAssumption
<1> DEFINE U == UNION {SegmentPages(e[k]) : k \in Loadable(e)}
           Stack == StackTop - StackPages .. StackTop
<1>1. Pages(e) = U \cup Stack
  BY DEF Pages, loadable_pages_to_flags, get_loadable_pages
<1>2. /\ e \in Seq(Segment) /\ Len(e) \in Nat /\ DOMAIN e = 1 .. Len(e)
      /\ \A k \in DOMAIN e : e[k] \in Segment
  OBVIOUS
<1>3. \A k \in Loadable(e) : e[k].va \in Nat /\ e[k].memory_size \in Nat
  BY <1>2 DEF Loadable, Segment
<1>4. ASSUME NEW k \in Loadable(e)
      PROVE  /\ SegmentPages(e[k]) \in SUBSET Nat /\ IsFiniteSet(SegmentPages(e[k]))
             /\ page_of(e[k].va) \in SegmentPages(e[k])
  <2> DEFINE l == e[k].va
             h == e[k].va + e[k].memory_size
  <2>1. l \in Nat /\ h \in Nat /\ l <= h
    BY <1>3
  <2>. HIDE DEF l, h
  <2>2. page_of(l) \in Nat /\ page_of(h) \in Nat /\ page_of(l) <= page_of(h)
    BY <2>1 DEF page_of
  <2>3. IsFiniteSet(page_of(l) .. page_of(h))
    BY <2>2, FS_Interval
  <2>. QED BY <2>2, <2>3 DEF SegmentPages, l, h
<1>5. IsFiniteSet(U)
  <2>1. IsFiniteSet(Loadable(e))
    <3>1. IsFiniteSet(1 .. Len(e))
      BY <1>2, FS_Interval
    <3>2. Loadable(e) \in SUBSET (1 .. Len(e))
      BY <1>2 DEF Loadable
    <3>. QED BY <3>1, <3>2, FS_Subset
  <2> DEFINE F == {SegmentPages(e[k]) : k \in Loadable(e)}
             g == [k \in Loadable(e) |-> SegmentPages(e[k])]
  <2>2. g \in Surjection(Loadable(e), F)
    BY DEF Surjection
  <2>. HIDE DEF g
  <2>3. IsFiniteSet(F)
    BY <2>1, <2>2, FS_Surjection
  <2>4. \A T \in F : IsFiniteSet(T)
    BY <1>4
  <2>. QED BY <2>3, <2>4, FS_UNION
<1>6. U \in SUBSET Nat /\ \A k \in Loadable(e) : page_of(e[k].va) \in U
  BY <1>4
<1>7. Stack \in SUBSET Nat /\ IsFiniteSet(Stack) /\ StackTop \in Stack
  <2>1. StackTop - StackPages \in Int /\ StackTop \in Int
    OBVIOUS
  <2>2. IsFiniteSet(Stack)
    BY <2>1, FS_Interval
  <2>. QED BY <2>2
<1>. HIDE DEF U, Stack
<1>8. Pages(e) \in SUBSET Nat /\ IsFiniteSet(Pages(e)) /\ Pages(e) # {}
  BY <1>1, <1>5, <1>6, <1>7, FS_Union
<1>9. Cardinality(Pages(e)) \in Nat
  BY <1>8, FS_CardinalityType
<1>10. /\ 1 + Cardinality(Pages(e)) * (Levels - 1) < first_data_ppn
       /\ first_data_ppn + Cardinality(Pages(e)) <= Frames
  BY DEF Fits
<1>11. first_data_ppn \in Nat
  BY DEF first_data_ppn
<1>. QED BY <1>1, <1>6, <1>8, <1>9, <1>10, <1>11

-----------------------------------------------------------------------------
(* The invariant. *)

mapped == Cardinality(Pages(elf)) - Cardinality(DOMAIN todo)

\* How far the walk for the page being mapped has got.
descended == IF ctl = "descend" THEN Levels - 1 - i ELSE 0

\* The tables never outgrow what the pages mapped can ask for, and each page
\* mapped has taken one page of data.
Counted ==
  /\ mapped \in Nat
  /\ table_ppn - (kRootPageTablePPN + 1) <= mapped * (Levels - 1) + descended
  /\ data_ppn = first_data_ppn + mapped

\* Each table is of one level: of the lowest, its valid entries are leaves and
\* point to data; of another, they point to tables of the level below.  The
\* walk is at a table of its level.
Levelled(level) ==
  /\ level \in [kRootPageTablePPN .. table_ppn - 1 -> 0 .. Levels - 1]
  /\ level[kRootPageTablePPN] = Levels - 1
  /\ \A q \in Entries : mem[q].V =>
       IF level[page_of(q)] = 0 THEN mem[q].ppn >= first_data_ppn
       ELSE /\ mem[q].ppn \in kRootPageTablePPN .. table_ppn - 1
            /\ level[mem[q].ppn] = level[page_of(q)] - 1
  /\ ctl = "descend" => level[a] = i

Phases ==
  /\ ctl = "descend" => page \in DOMAIN todo
  /\ ctl \in {"copy", "done"} => DOMAIN todo = {}

\* No two pages of the program share a place in physical memory.
PlacesApart == \A p, q \in DOMAIN va_to_pa : va_to_pa[p] = va_to_pa[q] => p = q

Inv ==
  /\ TypeOK /\ Phases /\ Counted /\ PlacesApart
  /\ \E level : Levelled(level)
  /\ TablesAreATree

\* A function on the tables when one more is allocated.
Longer(g, x) == [f \in kRootPageTablePPN .. table_ppn |-> IF f = table_ppn THEN x ELSE g[f]]

\* What the steps need to know of the numbers.
LEMMA NumbersLemma ==
  ASSUME Inv
  PROVE  /\ elf \in Elfs /\ Pages(elf) \in SUBSET Nat /\ IsFiniteSet(Pages(elf))
         /\ IsFiniteSet(DOMAIN todo) /\ Cardinality(DOMAIN todo) \in Nat
         /\ mapped \in Nat /\ mapped <= Cardinality(Pages(elf))
         /\ Cardinality(Pages(elf)) \in Nat
         /\ i \in Nat /\ i <= Levels - 1 /\ page \in Nat
         /\ a \in Nat /\ 1 <= a /\ a < table_ppn
         /\ table_ppn \in Nat /\ table_ppn <= first_data_ppn
         /\ first_data_ppn \in Nat /\ first_data_ppn <= Frames /\ Frames \in Nat
         /\ Levels \in Nat \ {0} /\ Slots \in Nat \ {0}
PROOF
<1>. USE PageTableAssumption, LoaderAssumption
<1>1. elf \in Elfs
  BY DEF Inv, TypeOK
<1>2. /\ Pages(elf) \in SUBSET Nat /\ IsFiniteSet(Pages(elf)) /\ Cardinality(Pages(elf)) \in Nat
      /\ first_data_ppn + Cardinality(Pages(elf)) <= Frames /\ first_data_ppn \in Nat
  BY <1>1, PagesLemma
<1>3. DOMAIN todo \in SUBSET Pages(elf)
  BY DEF Inv, TypeOK
<1>4. IsFiniteSet(DOMAIN todo) /\ Cardinality(DOMAIN todo) \in Nat
  BY <1>2, <1>3, FS_Subset, FS_CardinalityType
<1>5. mapped \in Nat
  BY DEF Inv, Counted
<1>6. mapped <= Cardinality(Pages(elf))
  BY <1>2, <1>4 DEF mapped
<1>7. page \in Nat
  BY <1>2 DEF Inv, TypeOK
<1>8. table_ppn \in Nat /\ table_ppn <= first_data_ppn
  BY <1>2 DEF Inv, TypeOK, kRootPageTablePPN
<1>9. a \in Nat /\ 1 <= a /\ a < table_ppn /\ i \in Nat /\ i <= Levels - 1
  BY <1>8 DEF Inv, TypeOK, kRootPageTablePPN
<1>. QED BY <1>1, <1>2, <1>4, <1>5, <1>6, <1>7, <1>8, <1>9

\* The entry the walk looks at is one of the table it is at.
LEMMA EntryLemma ==
  ASSUME Inv
  PROVE  entry \in Entries /\ entry \in Address /\ page_of(entry) = a
PROOF
<1>. USE NumbersLemma
<1> DEFINE o == get_vpn(page * Slots, i)
<1>1. o \in 0 .. Slots - 1
  <2>1. page * Slots \in Nat /\ i \in 0 .. Levels - 1
    OBVIOUS
  <2>. QED BY <2>1, VpnType
<1>. HIDE DEF o
<1>2. entry = a * Slots + o
  BY DEF entry, o
<1>3. /\ page_of(entry) = a /\ entry \in Nat
      /\ entry < table_ppn * Slots /\ 1 * Slots <= entry /\ entry < Frames * Slots
  <2>1. a < Frames
    OBVIOUS
  <2>. QED BY <1>1, <1>2, <2>1, SlotsLemma
<1>. QED BY <1>3 DEF Entries, Address, kRootPageTablePPN

\* What CopySegment and SetHandler leave alone.
LEMMA TablesKept ==
  ASSUME Inv, NEW level, Levelled(level),
         UNCHANGED <<todo, page, i, a, table_ppn, data_ppn, va_to_pa, elf>>,
         ctl = "copy", ctl' \in {"copy", "done"},
         \A q \in Address : kRootPageTablePPN * Slots <= q /\ q < first_data_ppn * Slots
                              => mem'[q] = mem[q]
  PROVE  Phases' /\ Counted' /\ PlacesApart' /\ Levelled(level)' /\ TablesAreATree'
PROOF
<1>. USE NumbersLemma DEF kRootPageTablePPN
<1>1. /\ DOMAIN todo = {} /\ Phases' /\ PlacesApart'
  BY DEF Inv, Phases, PlacesApart
<1>2. Counted'
  BY DEF Inv, Counted, mapped, descended
<1>3. /\ Entries' = Entries
      /\ \A q \in Entries : mem'[q] = mem[q]
      /\ \A q \in table_ppn * Slots .. first_data_ppn * Slots - 1 : mem'[q] = mem[q]
  <2>1. /\ table_ppn * Slots \in Nat /\ first_data_ppn * Slots \in Nat /\ Frames * Slots \in Nat
        /\ 1 * Slots <= table_ppn * Slots /\ table_ppn * Slots <= first_data_ppn * Slots
        /\ first_data_ppn * Slots <= Frames * Slots
    OBVIOUS
  <2>. QED BY <2>1 DEF Entries, Address
<1>4. Levelled(level)'
  BY <1>3 DEF Levelled
<1>5. TablesAreATree'
  BY <1>3 DEF Inv, TablesAreATree, Entries
<1>. QED BY <1>1, <1>2, <1>4, <1>5

-----------------------------------------------------------------------------
(* The steps. *)

LEMMA InitStep == Init => Inv
PROOF
<1>. USE PageTableAssumption, LoaderAssumption DEF kRootPageTablePPN
<1>. SUFFICES ASSUME Init PROVE Inv
  OBVIOUS
<1>1. elf \in Elfs /\ DOMAIN todo = Pages(elf)
  BY DEF Init, Pages, loadable_pages_to_flags
<1>2. /\ IsFiniteSet(Pages(elf)) /\ Cardinality(Pages(elf)) \in Nat /\ first_data_ppn \in Nat
      /\ 1 + Cardinality(Pages(elf)) * (Levels - 1) < first_data_ppn
      /\ first_data_ppn + Cardinality(Pages(elf)) <= Frames
  BY <1>1, PagesLemma
<1>3. Cardinality(Pages(elf)) * (Levels - 1) \in Nat
  BY <1>2
<1>4. 2 <= first_data_ppn /\ first_data_ppn <= Frames
  BY <1>2, <1>3
<1>5. zero \in Word
  BY DEF zero, Word
<1>6. TypeOK
  <2>1. va_to_pa \in [Pages(elf) \ DOMAIN todo -> first_data_ppn .. data_ppn - 1]
    BY <1>1 DEF Init
  <2>2. seg \in 1 .. Len(elf) + 1
    BY <1>1 DEF Init
  <2>3. mem \in [Address -> Word]
    BY <1>5 DEF Init
  <2>4. table_ppn \in kRootPageTablePPN + 1 .. first_data_ppn /\ data_ppn \in first_data_ppn .. Frames
    BY <1>2, <1>4 DEF Init
  <2>. QED BY <1>1, <2>1, <2>2, <2>3, <2>4 DEF Init, TypeOK
<1>7. Phases /\ PlacesApart
  BY DEF Init, Phases, PlacesApart
<1>8. Counted
  <2>1. mapped = 0 /\ descended = 0
    BY <1>1, <1>2 DEF mapped, descended, Init
  <2>. QED BY <2>1, <1>2 DEF Counted, Init
<1>9. /\ Entries \subseteq Address
      /\ table_ppn * Slots .. first_data_ppn * Slots - 1 \subseteq Address
      /\ table_ppn = 2
  <2>1. table_ppn = 2
    BY DEF Init
  <2>2. first_data_ppn * Slots <= Frames * Slots /\ 2 * Slots <= Frames * Slots
        /\ Frames * Slots \in Nat /\ first_data_ppn * Slots \in Nat
    BY <1>2, <1>4
  <2>. QED BY <2>1, <2>2 DEF Entries, Address
<1>10. \A q \in Address : mem[q] = zero /\ ~mem[q].V
  BY DEF Init, zero
<1>11. Levelled([f \in {1} |-> Levels - 1])
  <2>1. kRootPageTablePPN .. table_ppn - 1 = {1}
    BY <1>9
  <2>2. \A q \in Entries : ~mem[q].V
    BY <1>9, <1>10
  <2>. QED BY <2>1, <2>2 DEF Levelled, Init
<1>12. TablesAreATree
  <2>1. kRootPageTablePPN + 1 .. table_ppn - 1 = {}
    BY <1>9
  <2>. QED BY <2>1, <1>9, <1>10 DEF TablesAreATree
<1>. QED BY <1>6, <1>7, <1>8, <1>11, <1>12 DEF Inv

LEMMA NextPageStep ==
  ASSUME Inv, NEW level, Levelled(level), NextPage PROVE Inv' /\ Levelled(level)'
PROOF
<1>. USE DEF kRootPageTablePPN
<1>1. /\ ctl = "pages" /\ DOMAIN todo # {} /\ page' = Min(DOMAIN todo)
      /\ i' = Levels - 1 /\ a' = 1 /\ ctl' = "descend"
      /\ UNCHANGED <<elf, mem, todo, table_ppn, data_ppn, va_to_pa, seg>>
  BY DEF NextPage
<1>2. page' \in DOMAIN todo
  <2>1. DOMAIN todo \in SUBSET Nat
    BY NumbersLemma DEF Inv, TypeOK
  <2>. QED BY <1>1, <2>1, MinLemma
<1>3. TypeOK'
  <2>1. a' \in 1 .. table_ppn' - 1 /\ i' \in 0 .. Levels - 1
    BY <1>1, NumbersLemma
  <2>2. page' \in Pages(elf)
    BY <1>2 DEF Inv, TypeOK
  <2>. QED BY <1>1, <2>1, <2>2 DEF Inv, TypeOK
<1>4. Phases' /\ PlacesApart'
  BY <1>1, <1>2 DEF Phases, PlacesApart, Inv
<1>5. Counted'
  <2>1. descended = 0 /\ descended' = 0 /\ mapped' = mapped
    BY <1>1, NumbersLemma DEF descended, mapped
  <2>. QED BY <1>1, <2>1 DEF Inv, Counted
<1>6. Levelled(level)'
  BY <1>1 DEF Levelled, Entries
<1>7. TablesAreATree'
  BY <1>1 DEF Inv, TablesAreATree
<1>. QED BY <1>3, <1>4, <1>5, <1>6, <1>7 DEF Inv

LEMMA FollowStep ==
  ASSUME Inv, NEW level, Levelled(level), Follow PROVE Inv' /\ Levelled(level)'
PROOF
<1>. USE DEF kRootPageTablePPN
<1>1. /\ ctl = "descend" /\ i > 0 /\ mem[entry].V
      /\ a' = mem[entry].ppn /\ i' = i - 1
      /\ UNCHANGED <<elf, mem, ctl, todo, page, table_ppn, data_ppn, va_to_pa, seg>>
  BY DEF Follow
<1>2. a' \in 1 .. table_ppn - 1 /\ level[a'] = i'
  <2>1. level[page_of(entry)] = i /\ i # 0
    BY <1>1, EntryLemma, NumbersLemma DEF Levelled
  <2>. QED BY <1>1, <2>1, EntryLemma DEF Levelled
<1>3. TypeOK'
  <2>1. i' \in 0 .. Levels - 1
    BY <1>1, NumbersLemma
  <2>. QED BY <1>1, <1>2, <2>1 DEF Inv, TypeOK
<1>4. Phases' /\ PlacesApart'
  BY <1>1 DEF Phases, PlacesApart, Inv
<1>5. Counted'
  <2>1. descended' = descended + 1 /\ descended \in Nat /\ mapped' = mapped
    BY <1>1, NumbersLemma DEF descended, mapped
  <2>2. mapped * (Levels - 1) \in Nat /\ table_ppn \in Nat
    BY NumbersLemma
  <2> DEFINE m == mapped * (Levels - 1)
  <2>3. table_ppn - 2 <= m + descended /\ m \in Nat
    BY <2>2 DEF Inv, Counted
  <2>. HIDE DEF m
  <2>4. table_ppn - 2 <= m + descended'
    BY <2>1, <2>2, <2>3
  <2>. QED BY <1>1, <2>1, <2>4 DEF Inv, Counted, m
<1>6. Levelled(level)'
  BY <1>1, <1>2 DEF Levelled, Entries
<1>7. TablesAreATree'
  BY <1>1 DEF Inv, TablesAreATree
<1>. QED BY <1>3, <1>4, <1>5, <1>6, <1>7 DEF Inv

\* A table allocated in the middle of a walk is the page after the last one,
\* and there is room for it.
LEMMA AddTableStep ==
  ASSUME Inv, NEW level, Levelled(level), AddTable,
         NEW l, l = Longer(level, i - 1)
  PROVE  Inv' /\ Levelled(l)'
PROOF
<1>. USE DEF kRootPageTablePPN
<1>1. /\ ctl = "descend" /\ i > 0 /\ ~mem[entry].V
      /\ mem' = [mem EXCEPT ![entry] = [kPointerToNextLevelPTE EXCEPT !.ppn = table_ppn]]
      /\ a' = table_ppn /\ table_ppn' = table_ppn + 1 /\ i' = i - 1
      /\ UNCHANGED <<elf, ctl, todo, page, data_ppn, va_to_pa, seg>>
  BY DEF AddTable
<1>2. mem \in [Address -> Word] /\ page \in DOMAIN todo
  BY <1>1 DEF Inv, TypeOK, Phases
<1> DEFINE w == [kPointerToNextLevelPTE EXCEPT !.ppn = table_ppn]
<1>3. w \in Word /\ w.V /\ w.ppn = table_ppn
  BY NumbersLemma DEF kPointerToNextLevelPTE, zero, Word
<1>. HIDE DEF w
<1>4. /\ mem' \in [Address -> Word] /\ mem'[entry] = w
      /\ \A q \in Address : q # entry => mem'[q] = mem[q]
  BY <1>1, <1>2, <1>3, EntryLemma DEF w
<1>5. /\ table_ppn - 1 <= mapped * (Levels - 1) + descended'
      /\ mapped * (Levels - 1) + descended' + 2 <= first_data_ppn
      /\ mapped' = mapped
  <2>1. mapped' = mapped /\ descended' = descended + 1 /\ descended \in Nat
        /\ descended' <= Levels - 1
    BY <1>1, NumbersLemma DEF mapped, descended
  <2>2. mapped + 1 <= Cardinality(Pages(elf))
    <3>1. Cardinality(DOMAIN todo) # 0
      BY <1>2, NumbersLemma, FS_EmptySet
    <3>. QED BY <3>1, NumbersLemma DEF mapped
  <2> DEFINE d == Levels - 1
             P == Cardinality(Pages(elf))
  <2>3. d \in Nat /\ P \in Nat /\ mapped \in Nat
    BY NumbersLemma
  <2>4. table_ppn - 2 <= mapped * d + descended
    BY DEF Inv, Counted
  <2>5. 1 + P * d < first_data_ppn
    BY NumbersLemma, PagesLemma
  <2>. HIDE DEF d, P
  <2>6. mapped * d \in Nat /\ P * d \in Nat /\ mapped * d + d <= P * d
    <3>1. mapped + 1 <= P
      BY <2>2 DEF P
    <3>2. (mapped + 1) * d <= P * d
      BY <2>3, <3>1
    <3>. QED BY <2>3, <3>2
  <2>7. descended' <= d
    BY <2>1 DEF d
  <2>8. table_ppn - 1 <= mapped * d + descended' /\ mapped * d + descended' + 2 <= first_data_ppn
    BY <2>1, <2>3, <2>4, <2>5, <2>6, <2>7, NumbersLemma
  <2>. QED BY <2>1, <2>8 DEF d
<1>6. table_ppn + 1 <= first_data_ppn
  <2> DEFINE m == mapped * (Levels - 1) + descended'
  <2>1. m \in Int
    BY <1>1, NumbersLemma DEF descended
  <2>2. table_ppn - 1 <= m /\ m + 2 <= first_data_ppn
    BY <1>5
  <2>. HIDE DEF m
  <2>. QED BY <2>1, <2>2, NumbersLemma
<1>7. Counted'
  <2>1. Counted
    BY DEF Inv
  <2>2. table_ppn' - 2 = table_ppn - 1
    BY <1>1, NumbersLemma
  <2>. QED BY <1>1, <1>5, <2>1, <2>2 DEF Counted
<1>8. TypeOK'
  <2>1. a' \in 1 .. table_ppn' - 1 /\ i' \in 0 .. Levels - 1
    BY <1>1, NumbersLemma
  <2>2. table_ppn' \in 2 .. first_data_ppn
    BY <1>1, <1>6, NumbersLemma
  <2>. QED BY <1>1, <1>4, <2>1, <2>2 DEF Inv, TypeOK
<1>9. Phases' /\ PlacesApart'
  BY <1>1 DEF Phases, PlacesApart, Inv
<1> DEFINE New == table_ppn * Slots .. (table_ppn + 1) * Slots - 1
<1>10. /\ Entries' = Entries \cup New
       /\ \A q \in Entries : q \in Address /\ page_of(q) \in 1 .. table_ppn - 1
       /\ \A q \in New : q \in Address /\ page_of(q) = table_ppn /\ mem[q] = zero
       /\ \A q \in (table_ppn + 1) * Slots .. first_data_ppn * Slots - 1 :
            q \in Address /\ q # entry /\ mem[q] = zero
       /\ entry \notin New
  <2>1. /\ table_ppn * Slots \in Nat /\ (table_ppn + 1) * Slots \in Nat
        /\ first_data_ppn * Slots \in Nat /\ Frames * Slots \in Nat /\ Slots \in Nat
        /\ 1 * Slots <= table_ppn * Slots /\ table_ppn * Slots <= (table_ppn + 1) * Slots
        /\ (table_ppn + 1) * Slots <= first_data_ppn * Slots
        /\ first_data_ppn * Slots <= Frames * Slots
    BY <1>6, NumbersLemma
  <2>2. Entries' = 1 * Slots .. (table_ppn + 1) * Slots - 1
    BY <1>1 DEF Entries
  <2>3. Entries' = Entries \cup New
    <3> DEFINE x == 1 * Slots
               y == table_ppn * Slots
               z == (table_ppn + 1) * Slots
    <3>1. Entries' = x .. z - 1 /\ Entries = x .. y - 1 /\ New = y .. z - 1
      BY <2>2 DEF Entries
    <3>2. x \in Nat /\ y \in Nat /\ z \in Nat /\ x <= y /\ y <= z
      BY <2>1
    <3>. HIDE DEF x, y, z, New
    <3>3. x .. z - 1 = (x .. y - 1) \cup (y .. z - 1)
      BY <3>2
    <3>. QED BY <3>1, <3>3
  <2>4. ASSUME NEW q \in Entries PROVE q \in Address /\ page_of(q) \in 1 .. table_ppn - 1
    <3>1. q \in Address
      BY <2>1 DEF Entries, Address
    <3>2. page_of(q) \in 1 .. table_ppn - 1
      BY NumbersLemma, PageOfLemma DEF Entries
    <3>. QED BY <3>1, <3>2
  <2>5. \A q \in table_ppn * Slots .. first_data_ppn * Slots - 1 : mem[q] = zero
    BY DEF Inv, TablesAreATree
  <2>6. ASSUME NEW q \in New PROVE q \in Address /\ page_of(q) = table_ppn /\ mem[q] = zero
    <3>1. q \in Address /\ mem[q] = zero
      BY <2>1, <2>5 DEF Address
    <3>2. page_of(q) \in table_ppn .. (table_ppn + 1) - 1
      BY NumbersLemma, PageOfLemma
    <3>3. page_of(q) = table_ppn
      BY <3>2, NumbersLemma
    <3>. QED BY <3>1, <3>3
  <2>7. entry < table_ppn * Slots /\ entry \in Nat
    BY <2>1, EntryLemma DEF Entries
  <2>8. ASSUME NEW q \in (table_ppn + 1) * Slots .. first_data_ppn * Slots - 1
        PROVE  q \in Address /\ q # entry /\ mem[q] = zero
    BY <2>1, <2>5, <2>7 DEF Address
  <2>9. entry \notin New
    BY <2>1, <2>7
  <2>. QED BY <2>3, <2>4, <2>6, <2>8, <2>9
<1>. HIDE DEF New
<1>11. l = [f \in 1 .. table_ppn |-> IF f = table_ppn THEN i - 1 ELSE level[f]]
  BY DEF Longer
<1>12. Levelled(l)'
  <2>1. 1 .. table_ppn' - 1 = 1 .. table_ppn
    BY <1>1, NumbersLemma
  <2>2. /\ level \in [1 .. table_ppn - 1 -> 0 .. Levels - 1] /\ level[1] = Levels - 1
        /\ level[a] = i
    BY <1>1 DEF Levelled
  <2>3. \A f \in 1 .. table_ppn - 1 : l[f] = level[f] /\ f \in 1 .. table_ppn
    BY <1>11, NumbersLemma
  <2>4. l[table_ppn] = i - 1
    BY <1>11, NumbersLemma
  <2>5. l \in [1 .. table_ppn' - 1 -> 0 .. Levels - 1] /\ l[1] = Levels - 1
    <3>1. ASSUME NEW f \in 1 .. table_ppn PROVE l[f] \in 0 .. Levels - 1
      <4>1. i - 1 \in 0 .. Levels - 1
        BY <1>1, NumbersLemma
      <4>2. CASE f = table_ppn
        BY <4>1, <4>2, <2>4
      <4>3. CASE f # table_ppn
        <5>1. f \in 1 .. table_ppn - 1
          BY <4>3, NumbersLemma
        <5>. QED BY <5>1, <2>2, <2>3
      <4>. QED BY <4>2, <4>3
    <3>2. 1 \in 1 .. table_ppn - 1
      BY NumbersLemma
    <3>. QED BY <1>11, <2>1, <2>2, <2>3, <3>1, <3>2
  <2>6. l[a'] = i'
    BY <1>1, <2>4
  <2>7. ASSUME NEW q \in Entries', mem'[q].V
        PROVE  IF l[page_of(q)] = 0 THEN mem'[q].ppn >= first_data_ppn
               ELSE /\ mem'[q].ppn \in 1 .. table_ppn' - 1
                    /\ l[mem'[q].ppn] = l[page_of(q)] - 1
    <3>1. CASE q = entry
      <4>1. page_of(q) = a /\ a \in 1 .. table_ppn - 1 /\ l[a] = i /\ i # 0
        BY <3>1, <1>1, <2>2, <2>3, EntryLemma, NumbersLemma
      <4>2. mem'[q].ppn = table_ppn
        BY <3>1, <1>3, <1>4
      <4>3. table_ppn \in 1 .. table_ppn' - 1
        BY <1>1, NumbersLemma
      <4>4. l[page_of(q)] = i /\ l[mem'[q].ppn] = i - 1
        BY <4>1, <4>2, <2>4
      <4>. QED BY <4>1, <4>2, <4>3, <4>4
    <3>2. CASE q # entry /\ q \in Entries
      <4>1. mem'[q] = mem[q] /\ page_of(q) \in 1 .. table_ppn - 1
        BY <3>2, <1>4, <1>10
      <4>2. IF level[page_of(q)] = 0 THEN mem[q].ppn >= first_data_ppn
            ELSE /\ mem[q].ppn \in 1 .. table_ppn - 1
                 /\ level[mem[q].ppn] = level[page_of(q)] - 1
        BY <3>2, <2>7, <4>1 DEF Levelled
      <4>. QED BY <4>1, <4>2, <2>1, <2>3
    <3>3. CASE q \in New
      <4>1. mem'[q] = zero
        BY <3>3, <1>4, <1>10
      <4>. QED BY <4>1, <2>7 DEF zero
    <3>. QED BY <3>1, <3>2, <3>3, <1>10
  <2>. QED BY <2>5, <2>6, <2>7, <1>1 DEF Levelled
<1>13. TablesAreATree'
  <2>1. ASSUME NEW f \in 2 .. table_ppn' - 1
        PROVE  \E p \in Entries' : /\ page_of(p) < f
                                   /\ {q \in Entries' : mem'[q].V /\ mem'[q].ppn = f} = {p}
    <3>1. CASE f = table_ppn
      <4>1. entry \in Entries' /\ page_of(entry) < f
        BY <3>1, <1>10, EntryLemma, NumbersLemma
      <4>2. mem'[entry].V /\ mem'[entry].ppn = f
        BY <3>1, <1>3, <1>4
      <4>3. ASSUME NEW q \in Entries', q # entry, mem'[q].V PROVE mem'[q].ppn # f
        <5>1. CASE q \in New
          BY <5>1, <4>3, <1>4, <1>10 DEF zero
        <5>2. CASE q \in Entries
          <6>1. mem'[q] = mem[q] /\ mem[q].V
            BY <5>2, <4>3, <1>4, <1>10
          <6>2. mem[q].ppn >= first_data_ppn \/ mem[q].ppn \in 1 .. table_ppn - 1
            BY <5>2, <6>1 DEF Levelled
          <6>3. mem[q].ppn \in Nat
            BY <5>2, <1>2, <1>10 DEF Word
          <6>. QED BY <6>1, <6>2, <6>3, <3>1, <1>6, NumbersLemma
        <5>. QED BY <5>1, <5>2, <1>10
      <4>. QED BY <4>1, <4>2, <4>3
    <3>2. CASE f # table_ppn
      <4>1. f \in 2 .. table_ppn - 1
        BY <3>2, <1>1, NumbersLemma
      <4>2. PICK p \in Entries : /\ page_of(p) < f
                                 /\ {q \in Entries : mem[q].V /\ mem[q].ppn = f} = {p}
        BY <4>1 DEF Inv, TablesAreATree, Entries
      <4>3. ~(mem'[entry].ppn = f)
        BY <3>2, <1>3, <1>4
      <4>4. entry # p
        BY <4>2, <1>1
      <4>5. \A q \in Entries' : mem'[q].V /\ mem'[q].ppn = f
                                  <=> q \in Entries /\ mem[q].V /\ mem[q].ppn = f
        <5>1. ASSUME NEW q \in New PROVE ~mem'[q].V /\ ~mem[q].V
          BY <1>4, <1>10 DEF zero
        <5>2. ASSUME NEW q \in Entries, q # entry PROVE mem'[q] = mem[q]
          BY <5>2, <1>4, <1>10
        <5>. QED BY <5>1, <5>2, <4>3, <1>1, <1>10
      <4>. QED BY <4>2, <4>5, <1>10
    <3>. QED BY <3>1, <3>2
  <2>2. \A p \in table_ppn' * Slots .. first_data_ppn * Slots - 1 : mem'[p] = zero
    BY <1>1, <1>4, <1>10
  <2>. QED BY <2>1, <2>2 DEF TablesAreATree, Entries
<1>. QED BY <1>7, <1>8, <1>9, <1>12, <1>13 DEF Inv

\* What AddLeaf does to the table, and to the list of pages.
LEMMA LeafLemma ==
  ASSUME Inv, AddLeaf
  PROVE  /\ page \in DOMAIN todo /\ page \in Pages(elf) /\ page \notin DOMAIN va_to_pa
         /\ DOMAIN va_to_pa = Pages(elf) \ DOMAIN todo
         /\ DOMAIN va_to_pa' = DOMAIN va_to_pa \cup {page}
         /\ va_to_pa'[page] = data_ppn
         /\ \A p \in DOMAIN va_to_pa : va_to_pa'[p] = va_to_pa[p]
         /\ DOMAIN todo' = DOMAIN todo \ {page}
         /\ mapped' = mapped + 1 /\ data_ppn' = data_ppn + 1
         /\ data_ppn \in Nat /\ first_data_ppn <= data_ppn /\ data_ppn < Frames
         /\ ctl' \in {"copy", "pages"} /\ (ctl' = "copy" => DOMAIN todo' = {})
         /\ mem'[entry] \in Word /\ mem'[entry].V /\ mem'[entry].ppn = data_ppn
         /\ mem' \in [Address -> Word]
         /\ \A q \in Address : q # entry => mem'[q] = mem[q]
PROOF
<1>1. /\ ctl = "descend" /\ i = 0
      /\ data_ppn' = data_ppn + 1
      /\ todo' = [p \in DOMAIN todo \ {page} |-> todo[p]]
      /\ va_to_pa' = [p \in DOMAIN va_to_pa \cup {page} |->
                        IF p = page THEN data_ppn ELSE va_to_pa[p]]
      /\ ctl' = IF todo' = << >> THEN "copy" ELSE "pages"
      /\ UNCHANGED elf
  BY DEF AddLeaf
<1>2. page \in DOMAIN todo /\ page \in Pages(elf)
  BY <1>1 DEF Inv, Phases, TypeOK
<1>3. DOMAIN va_to_pa = Pages(elf) \ DOMAIN todo
  BY DEF Inv, TypeOK
<1>4. DOMAIN todo' = DOMAIN todo \ {page}
  BY <1>1
<1>5. mapped' = mapped + 1 /\ mapped + 1 <= Cardinality(Pages(elf))
  <2>1. Cardinality(DOMAIN todo') = Cardinality(DOMAIN todo) - 1
        /\ Cardinality(DOMAIN todo') \in Nat
    <3> DEFINE T == DOMAIN todo
    <3>1. IsFiniteSet(T) /\ page \in T
      BY <1>2, NumbersLemma
    <3>. HIDE DEF T
    <3>2. Cardinality(T \ {page}) = Cardinality(T) - 1 /\ IsFiniteSet(T \ {page})
      BY <3>1, FS_RemoveElement
    <3>3. Cardinality(T \ {page}) \in Nat
      BY <3>2, FS_CardinalityType
    <3>. QED BY <1>4, <3>2, <3>3 DEF T
  <2>2. Cardinality(Pages(elf)') = Cardinality(Pages(elf))
    BY <1>1
  <2>. QED BY <1>1, <2>1, <2>2, NumbersLemma DEF mapped
<1>6. data_ppn \in Nat /\ first_data_ppn <= data_ppn /\ data_ppn < Frames
  <2>1. data_ppn = first_data_ppn + mapped
    BY DEF Inv, Counted
  <2>2. first_data_ppn + Cardinality(Pages(elf)) <= Frames
    BY NumbersLemma, PagesLemma
  <2>. QED BY <2>1, <2>2, <1>5, NumbersLemma
<1> DEFINE w == [kPointerToNextLevelPTE EXCEPT
                   !.R = "R" \in todo[page], !.W = "W" \in todo[page],
                   !.E = "E" \in todo[page], !.ppn = data_ppn]
<1>7. w \in Word /\ w.V /\ w.ppn = data_ppn
  <2>1. \A r, x, e \in BOOLEAN :
          LET v == [kPointerToNextLevelPTE EXCEPT !.R = r, !.W = x, !.E = e, !.ppn = data_ppn] IN
            v \in Word /\ v.V /\ v.ppn = data_ppn
    BY <1>6 DEF kPointerToNextLevelPTE, zero, Word
  <2>2. ("R" \in todo[page]) \in BOOLEAN /\ ("W" \in todo[page]) \in BOOLEAN
        /\ ("E" \in todo[page]) \in BOOLEAN
    OBVIOUS
  <2>. QED BY <2>1, <2>2, Zenon
<1>8. mem' = [mem EXCEPT ![entry] = w]
  BY DEF AddLeaf
<1>. HIDE DEF w
<1>9. /\ mem' \in [Address -> Word] /\ mem'[entry] = w
      /\ \A q \in Address : q # entry => mem'[q] = mem[q]
  <2>1. mem \in [Address -> Word] /\ entry \in Address
    BY EntryLemma DEF Inv, TypeOK
  <2>. QED BY <1>7, <1>8, <2>1
<1>10. ctl' \in {"copy", "pages"} /\ (ctl' = "copy" => DOMAIN todo' = {})
  <2>1. todo' = << >> => DOMAIN todo' = {}
    OBVIOUS
  <2>. QED BY <1>1, <2>1
<1>. QED BY <1>1, <1>2, <1>3, <1>4, <1>5, <1>6, <1>7, <1>9, <1>10

\* A leaf is written where a leaf belongs, and points to a page of its own.
LEMMA AddLeafStep ==
  ASSUME Inv, NEW level, Levelled(level), AddLeaf PROVE Inv' /\ Levelled(level)'
PROOF
<1>. USE DEF kRootPageTablePPN
<1>1. /\ ctl = "descend" /\ i = 0
      /\ UNCHANGED <<elf, page, i, a, table_ppn, seg>>
  BY DEF AddLeaf
<1>2. TypeOK'
  <2>1. data_ppn' \in first_data_ppn .. Frames
    BY LeafLemma, NumbersLemma
  <2>2. DOMAIN va_to_pa' = Pages(elf) \ DOMAIN todo'
    BY LeafLemma
  <2>3. \A p \in DOMAIN va_to_pa' : va_to_pa'[p] \in first_data_ppn .. data_ppn' - 1
    <3>1. \A p \in DOMAIN va_to_pa : va_to_pa[p] \in first_data_ppn .. data_ppn - 1
      BY DEF Inv, TypeOK
    <3>2. first_data_ppn .. data_ppn - 1 \subseteq first_data_ppn .. data_ppn' - 1
          /\ data_ppn \in first_data_ppn .. data_ppn' - 1
      BY LeafLemma, NumbersLemma
    <3>. QED BY <3>1, <3>2, LeafLemma
  <2>4. va_to_pa' \in [Pages(elf)' \ DOMAIN todo' -> first_data_ppn .. data_ppn' - 1]
    <3>1. va_to_pa' = [p \in DOMAIN va_to_pa' |-> va_to_pa'[p]]
      BY DEF AddLeaf
    <3>. QED BY <1>1, <2>2, <2>3, <3>1
  <2>5. DOMAIN todo' \subseteq Pages(elf)'
    BY <1>1, LeafLemma DEF Inv, TypeOK
  <2>. QED BY <1>1, <2>1, <2>4, <2>5, LeafLemma DEF Inv, TypeOK
<1>3. Phases'
  BY LeafLemma DEF Phases
<1>4. PlacesApart'
  <2>1. \A p \in DOMAIN va_to_pa : va_to_pa[p] \in Nat /\ va_to_pa[p] < data_ppn
    <3>1. first_data_ppn \in Nat
      BY NumbersLemma
    <3>2. data_ppn \in Nat
      BY LeafLemma
    <3>3. va_to_pa \in [Pages(elf) \ DOMAIN todo -> first_data_ppn .. data_ppn - 1]
      BY DEF Inv, TypeOK
    <3>. QED BY <3>1, <3>2, <3>3
  <2>. QED BY <2>1, LeafLemma DEF Inv, PlacesApart
<1>5. Counted'
  <2> DEFINE d == Levels - 1
  <2>1. d \in Nat /\ mapped \in Nat /\ table_ppn \in Nat
    BY NumbersLemma
  <2>2. table_ppn - 2 <= mapped * d + d
    <3>1. descended = d
      BY <1>1, <2>1 DEF descended
    <3>2. table_ppn - (1 + 1) <= mapped * d + descended
      BY DEF Inv, Counted
    <3>3. mapped * d \in Nat
      BY <2>1
    <3>. QED BY <2>1, <3>1, <3>2, <3>3
  <2>3. descended' = 0
    BY LeafLemma DEF descended
  <2>4. data_ppn' = first_data_ppn + mapped'
    BY LeafLemma, NumbersLemma DEF Inv, Counted
  <2>. HIDE DEF d
  <2>5. (mapped + 1) * d = mapped * d + d
    BY <2>1
  <2>6. table_ppn' - 2 <= mapped' * d + descended'
    BY <1>1, <2>1, <2>2, <2>3, <2>5, LeafLemma
  <2>. QED BY <2>1, <2>4, <2>6, LeafLemma DEF Counted, d
<1>6. /\ Entries' = Entries /\ Entries \subseteq Address
      /\ table_ppn * Slots .. first_data_ppn * Slots - 1 \subseteq Address
      /\ entry \notin table_ppn * Slots .. first_data_ppn * Slots - 1
  <2>1. /\ table_ppn * Slots \in Nat /\ first_data_ppn * Slots \in Nat /\ Frames * Slots \in Nat
        /\ 1 * Slots <= table_ppn * Slots /\ table_ppn * Slots <= first_data_ppn * Slots
        /\ first_data_ppn * Slots <= Frames * Slots /\ Slots \in Nat
    BY NumbersLemma
  <2>. QED BY <1>1, <2>1, EntryLemma DEF Entries, Address
<1>7. level[page_of(entry)] = 0
  BY <1>1, EntryLemma DEF Levelled
<1>8. Levelled(level)'
  <2>1. ASSUME NEW q \in Entries, mem'[q].V
        PROVE  IF level[page_of(q)] = 0 THEN mem'[q].ppn >= first_data_ppn
               ELSE /\ mem'[q].ppn \in 1 .. table_ppn - 1
                    /\ level[mem'[q].ppn] = level[page_of(q)] - 1
    <3>1. CASE q = entry
      BY <3>1, <1>7, LeafLemma, NumbersLemma
    <3>2. CASE q # entry
      BY <3>2, <2>1, <1>6, LeafLemma DEF Levelled
    <3>. QED BY <3>1, <3>2
  <2>2. ctl' # "descend"
    BY LeafLemma
  <2>. QED BY <1>1, <1>6, <2>1, <2>2 DEF Levelled
<1>9. TablesAreATree'
  <2>1. ASSUME NEW f \in 2 .. table_ppn - 1
        PROVE  \E p \in Entries : /\ page_of(p) < f
                                  /\ {q \in Entries : mem'[q].V /\ mem'[q].ppn = f} = {p}
    <3>1. PICK p \in Entries : /\ page_of(p) < f
                               /\ {q \in Entries : mem[q].V /\ mem[q].ppn = f} = {p}
      BY DEF Inv, TablesAreATree, Entries
    <3>2. mem'[entry].ppn # f
      BY LeafLemma, NumbersLemma
    <3>3. mem[entry].V => mem[entry].ppn # f
      <4>1. mem[entry].V => mem[entry].ppn >= first_data_ppn
        BY <1>7, EntryLemma DEF Levelled
      <4>2. mem[entry].ppn \in Nat
        BY EntryLemma DEF Inv, TypeOK, Word
      <4>. QED BY <4>1, <4>2, NumbersLemma
    <3>4. \A q \in Entries : q # entry => mem'[q] = mem[q]
      BY <1>6, LeafLemma
    <3>. QED BY <3>1, <3>2, <3>3, <3>4
  <2>2. \A p \in table_ppn * Slots .. first_data_ppn * Slots - 1 : mem'[p] = zero
    BY <1>6, LeafLemma DEF Inv, TablesAreATree
  <2>. QED BY <1>1, <1>6, <2>1, <2>2 DEF TablesAreATree, Entries
<1>. QED BY <1>2, <1>3, <1>4, <1>5, <1>8, <1>9 DEF Inv

-----------------------------------------------------------------------------
(* Copying. *)

\* Where the data of the segment to be copied goes: to the place of its page,
\* among the data.
target == va_to_pa[page_of(elf[seg].va)] * Slots + get_page_offset(elf[seg].va)

LEMMA TargetLemma ==
  ASSUME Inv, ctl = "copy", seg <= Len(elf), elf[seg].loadable
  PROVE  /\ elf[seg].va \in Nat /\ elf[seg].file_size \in Nat
         /\ page_of(elf[seg].va) \in DOMAIN va_to_pa
         /\ get_page_offset(elf[seg].va) \in 0 .. Slots - 1
         /\ target \in Nat /\ first_data_ppn * Slots <= target
PROOF
<1>1. elf \in Seq(Segment) /\ Len(elf) \in Nat /\ DOMAIN elf = 1 .. Len(elf)
  BY LoaderAssumption DEF Inv, TypeOK
<1>2. seg \in DOMAIN elf /\ elf[seg] \in Segment
  BY <1>1 DEF Inv, TypeOK
<1>3. elf[seg].va \in Nat /\ elf[seg].file_size \in Nat
  BY <1>2 DEF Segment
<1>4. page_of(elf[seg].va) \in Pages(elf)
  <2>1. seg \in Loadable(elf)
    BY <1>2 DEF Loadable
  <2>. QED BY <2>1, NumbersLemma, PagesLemma
<1>5. page_of(elf[seg].va) \in DOMAIN va_to_pa
      /\ va_to_pa[page_of(elf[seg].va)] \in first_data_ppn .. data_ppn - 1
  BY <1>4 DEF Inv, TypeOK, Phases
<1>6. get_page_offset(elf[seg].va) \in 0 .. Slots - 1
  <2> DEFINE v == elf[seg].va
  <2>1. v \in Nat /\ Slots \in Nat \ {0}
    BY <1>3, NumbersLemma
  <2>. HIDE DEF v
  <2>2. v % Slots \in 0 .. Slots - 1
    BY <2>1
  <2>. QED BY <2>2 DEF v, get_page_offset
<1>7. target \in Nat /\ first_data_ppn * Slots <= target
  <2> DEFINE f == va_to_pa[page_of(elf[seg].va)]
             o == get_page_offset(elf[seg].va)
  <2>1. f \in Nat /\ first_data_ppn <= f /\ first_data_ppn \in Nat
    BY <1>5, NumbersLemma
  <2>2. target = f * Slots + o /\ o \in 0 .. Slots - 1
    BY <1>6 DEF target
  <2>. HIDE DEF f, o
  <2>. QED BY <2>1, <2>2, SlotsLemma
<1>. QED BY <1>3, <1>5, <1>6, <1>7

LEMMA CopySegmentStep ==
  ASSUME Inv, NEW level, Levelled(level), CopySegment PROVE Inv' /\ Levelled(level)'
PROOF
<1>1. /\ ctl = "copy" /\ seg <= Len(elf) /\ seg' = seg + 1
      /\ mem' = IF elf[seg].loadable
                THEN [p \in Address |-> IF p \in target .. target + elf[seg].file_size - 1
                                        THEN Byte(seg, p - target) ELSE mem[p]]
                ELSE mem
      /\ UNCHANGED <<elf, ctl, todo, page, i, a, table_ppn, data_ppn, va_to_pa>>
  BY DEF CopySegment, target
<1>2. /\ mem' \in [Address -> Word]
      /\ \A q \in Address : q < first_data_ppn * Slots => mem'[q] = mem[q]
  <2>1. mem \in [Address -> Word]
    BY DEF Inv, TypeOK
  <2>2. CASE ~elf[seg].loadable
    BY <1>1, <2>1, <2>2
  <2>3. CASE elf[seg].loadable
    <3> DEFINE n == elf[seg].file_size
               t == target
    <3>1. n \in Nat /\ t \in Nat /\ first_data_ppn * Slots <= t /\ first_data_ppn * Slots \in Nat
      <4>1. n \in Nat /\ t \in Nat /\ first_data_ppn * Slots <= t
        BY <1>1, <2>3, TargetLemma
      <4>2. first_data_ppn * Slots \in Nat
        BY NumbersLemma
      <4>. QED BY <4>1, <4>2
    <3>2. \A j \in 0 .. n - 1 : Byte(seg, j) \in Word
      <4>1. elf \in Elfs /\ seg \in DOMAIN elf
        BY <1>1, LoaderAssumption DEF Inv, TypeOK
      <4>. QED BY <4>1, LoaderAssumption
    <3>3. mem' = [p \in Address |-> IF p \in t .. t + n - 1 THEN Byte(seg, p - t) ELSE mem[p]]
      BY <1>1, <2>3
    <3>. HIDE DEF n, t
    <3>4. ASSUME NEW p \in Address, p \in t .. t + n - 1 PROVE Byte(seg, p - t) \in Word
      <4>1. p - t \in 0 .. n - 1
        BY <3>1, <3>4
      <4>. QED BY <4>1, <3>2
    <3>5. mem' \in [Address -> Word]
      BY <3>3, <3>4, <2>1
    <3>6. ASSUME NEW q \in Address, q < first_data_ppn * Slots PROVE mem'[q] = mem[q]
      <4>1. q \notin t .. t + n - 1
        BY <3>1, <3>6, NumbersLemma DEF Address
      <4>. QED BY <4>1, <3>3
    <3>. QED BY <3>5, <3>6
  <2>. QED BY <2>2, <2>3
<1>3. TypeOK'
  <2>1. seg' \in 1 .. Len(elf) + 1
    <3>1. Len(elf) \in Nat
      BY LoaderAssumption DEF Inv, TypeOK
    <3>. QED BY <1>1, <3>1 DEF Inv, TypeOK
  <2>. QED BY <1>1, <1>2, <2>1 DEF Inv, TypeOK
<1>4. Phases' /\ Counted' /\ PlacesApart' /\ Levelled(level)' /\ TablesAreATree'
  BY <1>1, <1>2, TablesKept
<1>. QED BY <1>3, <1>4 DEF Inv

LEMMA SetHandlerStep ==
  ASSUME Inv, NEW level, Levelled(level), SetHandler PROVE Inv' /\ Levelled(level)'
PROOF
<1>1. /\ ctl = "copy" /\ ctl' = "done" /\ mem' = [mem EXCEPT ![0] = Trap]
      /\ UNCHANGED <<elf, todo, page, i, a, table_ppn, data_ppn, va_to_pa, seg>>
  BY DEF SetHandler, kTrapBaseAddress
<1>2. mem' \in [Address -> Word]
  BY <1>1, LoaderAssumption DEF Inv, TypeOK
<1>3. TypeOK'
  BY <1>1, <1>2 DEF Inv, TypeOK
<1>4. \A q \in Address : kRootPageTablePPN * Slots <= q => mem'[q] = mem[q]
  <2>1. ~(kRootPageTablePPN * Slots <= 0)
    BY NumbersLemma DEF kRootPageTablePPN
  <2>. QED BY <1>1, <2>1 DEF Inv, TypeOK
<1>5. Phases' /\ Counted' /\ PlacesApart' /\ Levelled(level)' /\ TablesAreATree'
  BY <1>1, <1>4, TablesKept
<1>. QED BY <1>3, <1>5 DEF Inv

LEMMA StutterStep ==
  ASSUME Inv, NEW level, Levelled(level), UNCHANGED vars PROVE Inv' /\ Levelled(level)'
PROOF
<1>1. UNCHANGED <<elf, mem, ctl, todo, page, i, a, table_ppn, data_ppn, va_to_pa, seg>>
  BY DEF vars
<1>2. TypeOK' /\ Phases' /\ PlacesApart'
  BY <1>1 DEF Inv, TypeOK, Phases, PlacesApart
<1>3. Counted'
  BY <1>1 DEF Inv, Counted, mapped, descended
<1>4. Levelled(level)'
  BY <1>1 DEF Levelled, Entries
<1>5. TablesAreATree'
  BY <1>1 DEF Inv, TablesAreATree
<1>. QED BY <1>2, <1>3, <1>4, <1>5 DEF Inv

LEMMA Step == Inv /\ [Next]_vars => Inv'
PROOF
<1>. SUFFICES ASSUME Inv, [Next]_vars PROVE Inv'
  OBVIOUS
<1>1. PICK level : Levelled(level)
  BY DEF Inv
<1>2. CASE AddTable
  BY <1>1, <1>2, AddTableStep
<1>. QED BY <1>1, <1>2, NextPageStep, FollowStep, AddLeafStep, CopySegmentStep, SetHandlerStep,
            StutterStep DEF Next

-----------------------------------------------------------------------------
(* The program in place. *)

\* The word of the program shown at va once the segments before the n-th have
\* been copied.
shown(va, n) ==
  LET C == {k \in Covering(va) : k < n} IN
    IF C = {} THEN zero ELSE Byte(Max(C), va - elf[Max(C)].va)

\* Pages are mapped from the lowest up, so that pages without a gap between
\* them have places without a gap.
Ascending ==
  /\ \A p \in DOMAIN va_to_pa, q \in DOMAIN todo : p < q
  /\ ctl = "descend" => \A q \in DOMAIN todo : page <= q
  /\ \A p, q \in DOMAIN va_to_pa :
       p <= q /\ p .. q \subseteq DOMAIN va_to_pa => va_to_pa[q] - va_to_pa[p] = q - p
  /\ \A p \in DOMAIN va_to_pa :
       (\A q \in DOMAIN va_to_pa : q <= p) => va_to_pa[p] = data_ppn - 1

\* What the pages of data hold: nothing before the copy, then what the segments
\* copied so far show there.
Filled ==
  /\ ctl \in {"pages", "descend"} =>
       /\ seg = 1
       /\ \A q \in Address : first_data_ppn * Slots <= q => mem[q] = zero
  /\ ctl \in {"copy", "done"} =>
       \A p \in DOMAIN va_to_pa, o \in 0 .. Slots - 1 :
         mem[va_to_pa[p] * Slots + o] = shown(p * Slots + o, seg)
  /\ ctl = "done" => seg > Len(elf) /\ mem[kTrapBaseAddress] = Trap

DataInv == Inv /\ Ascending /\ Filled

\* A place is an address among the data.
LEMMA PlaceLemma ==
  ASSUME Inv, NEW p \in DOMAIN va_to_pa, NEW o \in 0 .. Slots - 1
  PROVE  /\ p \in Nat /\ va_to_pa[p] \in Nat /\ o \in Nat
         /\ va_to_pa[p] * Slots + o \in Address
         /\ first_data_ppn * Slots <= va_to_pa[p] * Slots + o
         /\ va_to_pa[p] * Slots + o # kTrapBaseAddress
         /\ page_of(va_to_pa[p] * Slots + o) = va_to_pa[p]
PROOF
<1> DEFINE f == va_to_pa[p]
<1>1. /\ f \in first_data_ppn .. data_ppn - 1 /\ data_ppn \in first_data_ppn .. Frames
      /\ p \in Pages(elf)
  BY DEF Inv, TypeOK
<1>2. p \in Nat
  BY <1>1, NumbersLemma
<1>3. f \in Nat /\ first_data_ppn <= f /\ f < Frames
  BY <1>1, NumbersLemma
<1>4. 1 <= first_data_ppn /\ first_data_ppn \in Nat /\ Frames \in Nat /\ Slots \in Nat \ {0}
  BY NumbersLemma
<1>5. o \in Nat
  BY <1>4
<1>. HIDE DEF f
<1>6. /\ page_of(f * Slots + o) = f
      /\ f * Slots + o \in Nat
      /\ f * Slots + o < Frames * Slots
      /\ first_data_ppn * Slots <= f * Slots + o
  BY <1>3, <1>4, SlotsLemma
<1>7. 1 <= first_data_ppn * Slots /\ first_data_ppn * Slots \in Nat
  BY <1>4
<1>. QED BY <1>2, <1>3, <1>4, <1>5, <1>6, <1>7 DEF f, Address, kTrapBaseAddress

\* The copy of a segment hits the place of an address exactly if the segment
\* covers the address, and with the word that belongs there.
LEMMA CopyLemma ==
  ASSUME Inv, Ascending, ctl = "copy", seg <= Len(elf), elf[seg].loadable,
         NEW p \in DOMAIN va_to_pa, NEW o \in 0 .. Slots - 1
  PROVE  LET loc == va_to_pa[p] * Slots + o
             va == p * Slots + o
             n == elf[seg].file_size
         IN  /\ loc \in target .. target + n - 1 <=> va \in elf[seg].va .. elf[seg].va + n - 1
             /\ va \in elf[seg].va .. elf[seg].va + n - 1 => loc - target = va - elf[seg].va
PROOF
<1> DEFINE loc == va_to_pa[p] * Slots + o
           va == p * Slots + o
           n == elf[seg].file_size
           m == elf[seg].memory_size
           v == elf[seg].va
           P == page_of(v)
           Q == page_of(v + m)
           g == va_to_pa[P]
           x == get_page_offset(v)
           f == va_to_pa[p]
<1>1. /\ elf \in Seq(Segment) /\ seg \in DOMAIN elf /\ elf[seg] \in Segment
      /\ n <= m /\ seg \in Loadable(elf)
  <2>1. elf \in Elfs /\ elf \in Seq(Segment)
    BY LoaderAssumption DEF Inv, TypeOK
  <2>2. seg \in DOMAIN elf
    BY <2>1 DEF Inv, TypeOK
  <2>. QED BY <2>1, <2>2, LoaderAssumption DEF Loadable
<1>2. n \in Nat /\ m \in Nat /\ v \in Nat
  BY <1>1 DEF Segment
<1>3. Slots \in Nat \ {0}
  BY NumbersLemma
<1>4. f \in Nat /\ p \in Nat /\ o \in Nat
  BY PlaceLemma
<1>5. P \in DOMAIN va_to_pa /\ g \in Nat /\ P \in Nat /\ x \in 0 .. Slots - 1 /\ x \in Nat
  <2>1. P \in DOMAIN va_to_pa /\ x \in 0 .. Slots - 1
    BY TargetLemma
  <2>. QED BY <2>1, PlaceLemma
<1>6. v = P * Slots + x
  <2>. HIDE DEF v
  <2>1. v = (v \div Slots) * Slots + (v % Slots)
    BY <1>2, <1>3
  <2>. QED BY <2>1 DEF page_of, get_page_offset
<1>7. target = g * Slots + x
  BY DEF target
<1>8. P .. Q \subseteq DOMAIN va_to_pa /\ Q \in Nat
  <2>1. P .. Q \subseteq Pages(elf)
    <3>1. SegmentPages(elf[seg]) = P .. Q
      BY DEF SegmentPages
    <3>2. SegmentPages(elf[seg]) \subseteq Pages(elf)
      BY <1>1 DEF Pages, loadable_pages_to_flags, get_loadable_pages
    <3>. QED BY <3>1, <3>2
  <2>2. DOMAIN va_to_pa = Pages(elf)
    BY DEF Inv, TypeOK, Phases
  <2>3. Q \in Nat
    <3> DEFINE z == v + m
    <3>1. z \in Nat
      BY <1>2
    <3>. HIDE DEF z
    <3>2. z \div Slots \in Nat
      BY <3>1, <1>3
    <3>. QED BY <3>2 DEF page_of, z
  <2>. QED BY <2>1, <2>2, <2>3
<1>9. ASSUME NEW q \in P .. Q PROVE q \in DOMAIN va_to_pa /\ va_to_pa[q] - g = q - P
  <2>1. P <= q /\ P .. q \subseteq P .. Q
    BY <1>5, <1>8
  <2>. QED BY <2>1, <1>5, <1>8 DEF Ascending
\* An address the segment covers lies on one of its pages.
<1>10. ASSUME NEW q \in Nat, q * Slots + o \in v .. v + n - 1 PROVE q \in P .. Q
  <2> DEFINE z == q * Slots + o
             top == v + m
  <2>1. z \in Nat /\ v <= z /\ z <= top /\ top \in Nat
    BY <1>1, <1>2, <1>3, <1>4, <1>10
  <2>2. page_of(z) = q
    BY SlotsLemma
  <2>. HIDE DEF z, top, v
  <2>3. page_of(v) <= page_of(z) /\ page_of(z) <= page_of(top)
    BY <2>1, <1>2, MonotoneLemma
  <2>. QED BY <2>2, <2>3, <1>5, <1>8 DEF v, top
<1>11. /\ target \in Nat /\ loc \in Nat /\ va \in Nat
       /\ page_of(loc) = f /\ page_of(target) = g
  <2>1. loc \in Nat /\ page_of(loc) = f
    BY <1>4, SlotsLemma
  <2>2. va \in Nat
    BY <1>4, SlotsLemma
  <2>3. target \in Nat /\ page_of(target) = g
    BY <1>5, <1>7, SlotsLemma
  <2>. QED BY <2>1, <2>2, <2>3
<1>12. ASSUME NEW q \in Nat, f - g = q - P PROVE loc - target = (q * Slots + o) - v
  <2>. HIDE DEF f, g, P, x, v
  <2>1. (f * Slots + o) - (g * Slots + x) = (q * Slots + o) - (P * Slots + x)
    <3> DEFINE A == f * Slots
               B == g * Slots
               C == q * Slots
               D == P * Slots
    <3>1. f + P = q + g
      BY <1>4, <1>5, <1>12
    <3>2. A \in Nat /\ B \in Nat /\ C \in Nat /\ D \in Nat
      BY <1>3, <1>4, <1>5
    <3>3. (f + P) * Slots = A + D /\ (q + g) * Slots = C + B
      BY <1>3, <1>4, <1>5
    <3>4. A + D = C + B
      BY <3>1, <3>3
    <3>. HIDE DEF A, B, C, D
    <3>5. (A + o) - (B + x) = (C + o) - (D + x)
      BY <3>2, <3>4, <1>4, <1>5
    <3>. QED BY <3>5 DEF A, B, C, D
  <2>. QED BY <2>1, <1>6, <1>7 DEF f
<1>13. ASSUME va \in v .. v + n - 1
       PROVE  loc \in target .. target + n - 1 /\ loc - target = va - v
  <2>1. p \in P .. Q
    BY <1>4, <1>10, <1>13
  <2>2. loc - target = va - v
    BY <2>1, <1>4, <1>9, <1>12
  <2>. HIDE DEF loc, va, n, v
  <2>. QED BY <2>2, <1>2, <1>11, <1>13
<1>14. ASSUME loc \in target .. target + n - 1
       PROVE  va \in v .. v + n - 1
  <2> DEFINE q == P + (f - g)
  <2>1. g <= f
    <3>1. target <= loc /\ target \in Nat /\ loc \in Nat
      <4>. HIDE DEF loc, n
      <4>. QED BY <1>2, <1>11, <1>14
    <3>. HIDE DEF loc
    <3>2. page_of(target) <= page_of(loc)
      BY <3>1, MonotoneLemma
    <3>. QED BY <3>2, <1>11
  <2>2. q \in Nat /\ f - g = q - P
    <3>. HIDE DEF f, g, P
    <3>. QED BY <2>1, <1>4, <1>5
  <2>3. loc - target = (q * Slots + o) - v
    <3>. HIDE DEF q
    <3>. QED BY <2>2, <1>12
  <2>4. q * Slots + o \in Nat
    <3>. HIDE DEF q
    <3>. QED BY <2>2, SlotsLemma
  <2>5. q * Slots + o \in v .. v + n - 1
    <3> DEFINE z == q * Slots + o
    <3>1. z \in Nat /\ loc - target = z - v
      BY <2>3, <2>4
    <3>. HIDE DEF z, loc, n, v
    <3>2. z \in v .. v + n - 1
      BY <3>1, <1>2, <1>11, <1>14
    <3>. QED BY <3>2 DEF z, n, v
  <2>. HIDE DEF q
  <2>6. q \in P .. Q
    BY <2>2, <2>5, <1>10
  <2>7. q \in DOMAIN va_to_pa /\ va_to_pa[q] = va_to_pa[p]
    <3>1. q \in DOMAIN va_to_pa /\ va_to_pa[q] - g = q - P
      BY <2>6, <1>9
    <3>2. va_to_pa[q] \in Nat
      <4>1. 0 \in 0 .. Slots - 1
        BY <1>3
      <4>. QED BY <3>1, <4>1, PlaceLemma
    <3>. HIDE DEF g, P
    <3>. QED BY <3>1, <3>2, <2>2, <1>4, <1>5
  <2>8. q = p
    BY <2>7 DEF Inv, PlacesApart
  <2>. QED BY <2>5, <2>8
<1>. QED BY <1>13, <1>14

LEMMA InitData == Init => DataInv
PROOF
<1>. SUFFICES ASSUME Init PROVE DataInv
  OBVIOUS
<1>1. Inv
  BY InitStep
<1>2. Ascending
  BY DEF Init, Ascending
<1>3. Filled
  BY DEF Init, Filled
<1>. QED BY <1>1, <1>2, <1>3 DEF DataInv

LEMMA NextPageData == ASSUME DataInv, NextPage PROVE Ascending' /\ Filled'
PROOF
<1>1. /\ ctl = "pages" /\ DOMAIN todo # {} /\ page' = Min(DOMAIN todo) /\ ctl' = "descend"
      /\ UNCHANGED <<elf, mem, todo, table_ppn, data_ppn, va_to_pa, seg>>
  BY DEF NextPage
<1>2. \A q \in DOMAIN todo : page' <= q
  <2>1. DOMAIN todo \in SUBSET Nat
    BY NumbersLemma DEF DataInv, Inv, TypeOK
  <2>. QED BY <1>1, <2>1, MinLemma
<1>3. Ascending'
  BY <1>1, <1>2 DEF DataInv, Ascending
<1>4. Filled'
  BY <1>1 DEF DataInv, Filled
<1>. QED BY <1>3, <1>4

\* The tables are below the data.
LEMMA TableWriteData ==
  ASSUME DataInv, ctl = "descend", ctl' = "descend",
         UNCHANGED <<elf, todo, page, data_ppn, va_to_pa, seg>>,
         \A q \in Address : q # entry => mem'[q] = mem[q]
  PROVE  Ascending' /\ Filled'
PROOF
<1>1. Inv
  BY DEF DataInv
<1>2. \A q \in Address : first_data_ppn * Slots <= q => q # entry
  <2>1. entry < table_ppn * Slots /\ entry \in Nat
    BY <1>1, EntryLemma, NumbersLemma DEF Entries, Address
  <2>2. /\ table_ppn * Slots <= first_data_ppn * Slots
        /\ table_ppn * Slots \in Nat /\ first_data_ppn * Slots \in Nat
    BY <1>1, NumbersLemma
  <2>. QED BY <2>1, <2>2 DEF Address
<1>3. Ascending'
  BY DEF DataInv, Ascending
<1>4. Filled'
  BY <1>2 DEF DataInv, Filled
<1>. QED BY <1>3, <1>4

\* The page mapped is the highest so far: it follows the others without a gap
\* if its number does.
LEMMA AddLeafData == ASSUME DataInv, AddLeaf PROVE Ascending' /\ Filled'
PROOF
<1>1. ctl = "descend" /\ UNCHANGED <<elf, page, seg>>
  BY DEF AddLeaf
<1>2. Inv /\ Ascending /\ Filled
  BY DEF DataInv
<1> DEFINE D == DOMAIN va_to_pa
<1>3. /\ page \in Nat /\ page \in DOMAIN todo /\ page \notin D
      /\ DOMAIN va_to_pa' = D \cup {page} /\ DOMAIN todo' = DOMAIN todo \ {page}
      /\ va_to_pa'[page] = data_ppn
      /\ \A p \in D : va_to_pa'[p] = va_to_pa[p]
      /\ data_ppn' = data_ppn + 1 /\ data_ppn \in Nat
  BY <1>2, LeafLemma, NumbersLemma
<1>4. /\ \A p \in D : p \in Nat /\ p < page /\ va_to_pa[p] \in Nat
      /\ \A q \in DOMAIN todo : q \in Nat /\ page <= q
  <2>1. D \subseteq Nat /\ DOMAIN todo \subseteq Nat
    BY <1>2, NumbersLemma DEF Inv, TypeOK
  <2>2. \A p \in D : va_to_pa[p] \in Nat
    BY <1>2, NumbersLemma DEF Inv, TypeOK
  <2>. QED BY <1>1, <1>2, <1>3, <2>1, <2>2 DEF Ascending
<1>5. Ascending'
  <2>. HIDE DEF D
  <2>1. ASSUME NEW p \in D \cup {page}, NEW q \in DOMAIN todo \ {page} PROVE p < q
    <3>1. page < q
      BY <1>3, <1>4
    <3>. QED BY <3>1, <1>3, <1>4
  <2>2. ASSUME NEW p \in D \cup {page}, NEW q \in D \cup {page},
               p <= q, p .. q \subseteq D \cup {page}
        PROVE  va_to_pa'[q] - va_to_pa'[p] = q - p
    <3>1. CASE q # page
      <4>1. q \in D /\ p \in D
        BY <2>2, <3>1, <1>3, <1>4
      <4>2. p .. q \subseteq D
        BY <2>2, <4>1, <1>3, <1>4
      <4>3. va_to_pa[q] - va_to_pa[p] = q - p
        BY <2>2, <4>1, <4>2, <1>2 DEF Ascending, D
      <4>. QED BY <4>1, <4>3, <1>3
    <3>2. CASE q = page /\ p = page
      BY <3>2, <1>3
    <3>3. CASE q = page /\ p # page
      <4>1. p \in D /\ p \in Nat /\ p < page
        BY <3>3, <1>4
      <4>2. page - 1 \in p .. page /\ page - 1 # page /\ page - 1 \in Nat
        BY <4>1, <1>3
      <4>3. page - 1 \in D
        BY <4>2, <2>2, <3>3
      <4>4. \A r \in D : r <= page - 1
        BY <1>3, <1>4
      <4>5. va_to_pa[page - 1] = data_ppn - 1
        BY <4>3, <4>4, <1>2 DEF Ascending, D
      <4>6. p .. page - 1 \subseteq D
        BY <4>1, <2>2, <3>3, <1>3
      <4>7. va_to_pa[page - 1] - va_to_pa[p] = (page - 1) - p
        <5>1. p <= page - 1
          BY <4>1, <1>3
        <5>. QED BY <5>1, <4>1, <4>3, <4>6, <1>2 DEF Ascending, D
      <4>8. va_to_pa[p] \in Nat
        BY <4>1, <1>4
      <4>9. data_ppn - va_to_pa[p] = page - p
        BY <4>1, <4>5, <4>7, <4>8, <1>3
      <4>. QED BY <4>1, <4>9, <3>3, <1>3
    <3>. QED BY <3>1, <3>2, <3>3
  <2>3. ASSUME NEW p \in D \cup {page}, \A q \in D \cup {page} : q <= p
        PROVE  va_to_pa'[p] = data_ppn' - 1
    <3>1. p = page
      BY <2>3, <1>3, <1>4
    <3>. QED BY <3>1, <1>3
  <2>4. ctl' # "descend"
    BY <1>2, LeafLemma
  <2>. QED BY <2>1, <2>2, <2>3, <2>4, <1>3 DEF Ascending
<1>6. \A q \in Address : first_data_ppn * Slots <= q => mem'[q] = zero
  <2>1. entry < first_data_ppn * Slots /\ entry \in Nat
    <3>1. entry < table_ppn * Slots /\ entry \in Nat
      BY <1>2, EntryLemma, NumbersLemma DEF Entries, Address
    <3>2. /\ table_ppn * Slots <= first_data_ppn * Slots
          /\ table_ppn * Slots \in Nat /\ first_data_ppn * Slots \in Nat
      BY <1>2, NumbersLemma
    <3>. QED BY <3>1, <3>2
  <2>2. \A q \in Address : first_data_ppn * Slots <= q => mem[q] = zero
    BY <1>1, <1>2 DEF Filled
  <2>3. \A q \in Address : first_data_ppn * Slots <= q => q # entry
    BY <2>1, <1>2, NumbersLemma DEF Address
  <2>. QED BY <2>2, <2>3, <1>2, LeafLemma
<1>7. Filled'
  <2>1. seg' = 1 /\ ctl' \in {"copy", "pages"}
    BY <1>1, <1>2, LeafLemma DEF Filled
  <2>2. ASSUME NEW p \in DOMAIN va_to_pa', NEW o \in 0 .. Slots - 1
        PROVE  mem'[va_to_pa'[p] * Slots + o] = shown(p * Slots + o, seg)'
    <3>1. va_to_pa'[p] * Slots + o \in Address
          /\ first_data_ppn * Slots <= va_to_pa'[p] * Slots + o
      <4> DEFINE f == va_to_pa'[p]
      <4>1. f \in Nat /\ first_data_ppn <= f /\ f < Frames
        <5>1. TypeOK'
          BY <1>2, AddLeafStep DEF Inv
        <5>2. f \in first_data_ppn .. data_ppn' - 1 /\ data_ppn' \in first_data_ppn .. Frames
          BY <5>1, <2>2 DEF TypeOK
        <5>. QED BY <5>2, <1>2, NumbersLemma
      <4>2. first_data_ppn \in Nat /\ Frames \in Nat
        BY <1>2, NumbersLemma
      <4>. HIDE DEF f
      <4>3. /\ f * Slots + o \in Nat /\ f * Slots + o < Frames * Slots
            /\ first_data_ppn * Slots <= f * Slots + o
        BY <4>1, <4>2, SlotsLemma
      <4>4. Frames * Slots \in Nat
        BY <1>2, NumbersLemma
      <4>5. f * Slots + o \in Address
        BY <4>3, <4>4 DEF Address
      <4>. QED BY <4>3, <4>5 DEF f
    <3>2. {k \in Covering(p * Slots + o)' : k < seg'} = {}
      <4>1. \A k \in Covering(p * Slots + o)' : k \in Nat /\ 1 <= k
        BY <1>1, <1>2, LoaderAssumption DEF Covering, Loadable, Inv, TypeOK
      <4>. QED BY <4>1, <2>1
    <3>. QED BY <3>1, <3>2, <1>6 DEF shown
  <2>. QED BY <2>1, <2>2, <1>6 DEF Filled
<1>. QED BY <1>5, <1>7

\* A segment is shown over those copied before it.
LEMMA ShownLemma ==
  ASSUME elf \in Elfs, seg \in Nat, NEW va
  PROVE  shown(va, seg + 1) = IF seg \in Covering(va) THEN Byte(seg, va - elf[seg].va)
                              ELSE shown(va, seg)
PROOF
<1> DEFINE B == {k \in Covering(va) : k < seg}
           C == {k \in Covering(va) : k < seg + 1}
<1>1. \A k \in Covering(va) : k \in Nat
  BY LoaderAssumption DEF Covering, Loadable
<1>2. CASE seg \notin Covering(va)
  <2>1. B = C
    BY <1>1, <1>2
  <2>. QED BY <2>1, <1>2 DEF shown
<1>3. CASE seg \in Covering(va)
  <2>1. seg \in C /\ \A k \in C : k \in Nat /\ seg >= k
    BY <1>1, <1>3
  <2>2. Max(C) = seg
    <3>. HIDE DEF C
    <3>1. \A y \in C : (\A k \in C : y >= k) => y = seg
      BY <2>1
    <3>. QED BY <2>1, <3>1 DEF Max
  <2>. QED BY <2>1, <2>2, <1>3 DEF shown
<1>. QED BY <1>2, <1>3

LEMMA CopySegmentData == ASSUME DataInv, CopySegment PROVE Ascending' /\ Filled'
PROOF
<1>1. /\ ctl = "copy" /\ seg <= Len(elf) /\ seg' = seg + 1
      /\ mem' = IF elf[seg].loadable
                THEN [p \in Address |-> IF p \in target .. target + elf[seg].file_size - 1
                                        THEN Byte(seg, p - target) ELSE mem[p]]
                ELSE mem
      /\ UNCHANGED <<elf, ctl, todo, page, i, a, table_ppn, data_ppn, va_to_pa>>
  BY DEF CopySegment, target
<1>2. Inv /\ Ascending /\ Filled
  BY DEF DataInv
<1>3. /\ elf \in Elfs /\ seg \in Nat /\ seg \in DOMAIN elf
  <2>1. elf \in Elfs /\ Len(elf) \in Nat /\ DOMAIN elf = 1 .. Len(elf)
    BY <1>2, LoaderAssumption DEF Inv, TypeOK
  <2>. QED BY <2>1, <1>1, <1>2 DEF Inv, TypeOK
<1>4. Ascending'
  BY <1>1, <1>2 DEF Ascending
<1>5. ASSUME NEW p \in DOMAIN va_to_pa, NEW o \in 0 .. Slots - 1
      PROVE  mem'[va_to_pa[p] * Slots + o] = shown(p * Slots + o, seg + 1)
  <2> DEFINE loc == va_to_pa[p] * Slots + o
             va == p * Slots + o
  <2>1. mem[loc] = shown(va, seg)
    BY <1>1, <1>2 DEF Filled
  <2>2. loc \in Address
    BY <1>2, PlaceLemma
  <2>3. CASE ~elf[seg].loadable
    <3>1. seg \notin Covering(va)
      BY <2>3 DEF Covering, Loadable
    <3>2. mem'[loc] = mem[loc]
      BY <1>1, <2>3
    <3>. HIDE DEF loc, va
    <3>. QED BY <3>1, <3>2, <2>1, <1>3, ShownLemma DEF loc, va
  <2>4. CASE elf[seg].loadable
    <3> DEFINE n == elf[seg].file_size
               v == elf[seg].va
    <3>1. /\ loc \in target .. target + n - 1 <=> va \in v .. v + n - 1
          /\ va \in v .. v + n - 1 => loc - target = va - v
      BY <1>1, <1>2, <2>4, CopyLemma
    <3>2. seg \in Covering(va) <=> va \in v .. v + n - 1
      BY <1>3, <2>4 DEF Covering, Loadable
    <3>3. mem'[loc] = IF loc \in target .. target + n - 1 THEN Byte(seg, loc - target) ELSE mem[loc]
      BY <1>1, <2>2, <2>4
    <3>4. shown(va, seg + 1) = IF seg \in Covering(va) THEN Byte(seg, va - v) ELSE shown(va, seg)
      BY <1>3, ShownLemma
    <3>. HIDE DEF loc, va, n, v
    <3>5. mem'[loc] = shown(va, seg + 1)
      BY <3>1, <3>2, <3>3, <3>4, <2>1
    <3>. QED BY <3>5 DEF loc, va
  <2>. QED BY <2>3, <2>4
<1>6. Filled'
  <2>1. \A p \in DOMAIN va_to_pa, o \in 0 .. Slots - 1 :
          shown(p * Slots + o, seg)' = shown(p * Slots + o, seg + 1)
    BY <1>1 DEF shown, Covering
  <2>. QED BY <1>1, <1>5, <2>1 DEF Filled
<1>. QED BY <1>4, <1>6

LEMMA SetHandlerData == ASSUME DataInv, SetHandler PROVE Ascending' /\ Filled'
PROOF
<1>1. /\ ctl = "copy" /\ seg > Len(elf) /\ ctl' = "done"
      /\ mem' = [mem EXCEPT ![kTrapBaseAddress] = Trap]
      /\ UNCHANGED <<elf, todo, page, i, a, table_ppn, data_ppn, va_to_pa, seg>>
  BY DEF SetHandler
<1>2. Inv /\ Ascending /\ Filled
  BY DEF DataInv
<1>3. Ascending'
  BY <1>1, <1>2 DEF Ascending
<1>4. ASSUME NEW p \in DOMAIN va_to_pa, NEW o \in 0 .. Slots - 1
      PROVE  mem'[va_to_pa[p] * Slots + o] = shown(p * Slots + o, seg)
  <2>1. va_to_pa[p] * Slots + o # kTrapBaseAddress /\ va_to_pa[p] * Slots + o \in Address
    BY <1>2, PlaceLemma
  <2>. QED BY <2>1, <1>1, <1>2 DEF Filled, Inv, TypeOK
<1>5. mem'[kTrapBaseAddress] = Trap
  <2>1. kTrapBaseAddress \in Address
    <3>1. 0 < Frames
      BY <1>2, NumbersLemma
    <3>2. 0 < Frames * Slots /\ Frames * Slots \in Nat
      BY <1>2, <3>1, NumbersLemma
    <3>. QED BY <3>2 DEF Address, kTrapBaseAddress
  <2>. QED BY <2>1, <1>1, <1>2 DEF Inv, TypeOK
<1>6. Filled'
  <2>1. \A p \in DOMAIN va_to_pa, o \in 0 .. Slots - 1 :
          shown(p * Slots + o, seg)' = shown(p * Slots + o, seg)
    BY <1>1 DEF shown, Covering
  <2>. QED BY <1>1, <1>4, <1>5, <2>1 DEF Filled
<1>. QED BY <1>3, <1>6

LEMMA StepData == DataInv /\ [Next]_vars => DataInv'
PROOF
<1>. SUFFICES ASSUME DataInv, [Next]_vars PROVE Ascending' /\ Filled'
  BY Step DEF DataInv
<1>1. CASE NextPage
  BY <1>1, NextPageData
<1>2. CASE Follow
  BY <1>2, TableWriteData DEF Follow
<1>3. CASE AddTable
  <2>1. \A q \in Address : q # entry => mem'[q] = mem[q]
    BY <1>3 DEF AddTable, DataInv, Inv, TypeOK
  <2>. QED BY <1>3, <2>1, TableWriteData DEF AddTable
<1>4. CASE AddLeaf
  BY <1>4, AddLeafData
<1>5. CASE CopySegment
  BY <1>5, CopySegmentData
<1>6. CASE SetHandler
  BY <1>6, SetHandlerData
<1>7. CASE UNCHANGED vars
  <2>1. UNCHANGED <<elf, mem, ctl, todo, page, data_ppn, va_to_pa, seg>>
    BY <1>7 DEF vars
  <2>2. Ascending'
    BY <2>1 DEF DataInv, Ascending
  <2>3. \A p \in DOMAIN va_to_pa, o \in 0 .. Slots - 1 :
          shown(p * Slots + o, seg)' = shown(p * Slots + o, seg)
    BY <2>1 DEF shown, Covering
  <2>4. Filled'
    BY <2>1, <2>3 DEF DataInv, Filled
  <2>. QED BY <2>2, <2>4
<1>. QED BY <1>1, <1>2, <1>3, <1>4, <1>5, <1>6, <1>7 DEF Next

-----------------------------------------------------------------------------
(* What the walk of the hart finds. *)

flags_of == loadable_pages_to_flags(elf)

\* The number of what an entry stands for, given that of its table: the page,
\* for an entry of the lowest level.
number(base, q) == base[page_of(q)] * Slots + get_page_offset(q)

\* The leaf of a page mapped.
LeafFor(w, p) == ~w.reserved /\ FlagsOf(w) = flags_of[p] /\ w.ppn = va_to_pa[p]

\* The table of level l there is for the page p, if any, has an entry for it.
Reached(level, base, p, l) ==
  \A f \in kRootPageTablePPN .. table_ppn - 1 :
    level[f] = l /\ base[f] = p \div span[l + 1] => mem[f * Slots + get_vpn(p * Slots, l)].V

\* What the tables say: no two stand for the same pages, an entry points to the
\* table of its number or to the place of its page, and no page is left out.
Tabled(level, base) ==
  /\ base \in [kRootPageTablePPN .. table_ppn - 1 -> Nat]
  /\ base[kRootPageTablePPN] = 0
  /\ \A f, g \in kRootPageTablePPN .. table_ppn - 1 :
       level[f] = level[g] /\ base[f] = base[g] => f = g

Numbered(level, base) ==
  \A q \in Entries : mem[q].V =>
    IF level[page_of(q)] = 0
    THEN number(base, q) \in DOMAIN va_to_pa /\ LeafFor(mem[q], number(base, q))
    ELSE /\ is_pointer_to_next_level_pte(mem[q]) /\ ~mem[q].reserved
         /\ base[mem[q].ppn] = number(base, q)

Complete(level, base) ==
  \A p \in DOMAIN va_to_pa : \A l \in 0 .. Levels - 1 : Reached(level, base, p, l)

\* The walk is at the table of its level for the page being mapped, and has
\* left no level above it without an entry.
OnTheWay(level, base) ==
  ctl = "descend" =>
    /\ base[a] = page \div span[i + 1]
    /\ \A l \in i + 1 .. Levels - 1 : Reached(level, base, page, l)

WalkInv(level, base) ==
  /\ Inv /\ Levelled(level)
  /\ \A p \in DOMAIN todo : todo[p] = flags_of[p]
  /\ Tabled(level, base) /\ Numbered(level, base)
  /\ Complete(level, base) /\ OnTheWay(level, base)

\* The flags of a page are flags.
LEMMA FlagsLemma ==
  ASSUME NEW e \in Elfs, NEW p \in Pages(e)
  PROVE  loadable_pages_to_flags(e)[p] \in SUBSET {"R", "W", "E"}
PROOF
<1>. USE LoaderAssumption
<1> DEFINE G == get_loadable_pages(e)
           S == {k \in Loadable(e) : p \in SegmentPages(e[k])}
<1>1. loadable_pages_to_flags(e)[p] = IF p \in DOMAIN G THEN G[p] ELSE {"R", "W"}
  BY DEF Pages, loadable_pages_to_flags
<1>2. ASSUME p \in DOMAIN G PROVE G[p] \in SUBSET {"R", "W", "E"}
  <2>1. G[p] = e[Min(S)].flags
    BY <1>2 DEF get_loadable_pages
  <2>2. p \in UNION {SegmentPages(e[k]) : k \in Loadable(e)}
    BY <1>2 DEF get_loadable_pages
  <2>3. \A k \in DOMAIN e : k \in Nat /\ e[k] \in Segment
    OBVIOUS
  <2>4. S \in SUBSET Nat /\ S \subseteq DOMAIN e
    BY <2>3 DEF Loadable
  <2>5. S # {}
    BY <2>2
  <2>6. Min(S) \in S
    BY <2>4, <2>5, MinLemma
  <2>7. e[Min(S)] \in Segment
    BY <2>3, <2>4, <2>6
  <2>. QED BY <2>1, <2>7 DEF Segment
<1>. HIDE DEF G
<1>. QED BY <1>1, <1>2

\* An entry, by its table and its place in it.
LEMMA PlaceOfEntry ==
  ASSUME Inv, NEW f \in 1 .. table_ppn - 1, NEW o \in 0 .. Slots - 1
  PROVE  /\ f * Slots + o \in Entries /\ f * Slots + o \in Address
         /\ page_of(f * Slots + o) = f
         /\ get_page_offset(f * Slots + o) = o
PROOF
<1>. USE NumbersLemma
<1>1. /\ page_of(f * Slots + o) = f /\ f * Slots + o \in Nat
      /\ f * Slots + o < table_ppn * Slots /\ 1 * Slots <= f * Slots + o
      /\ f * Slots + o < Frames * Slots
  <2>1. f \in Nat /\ 1 <= f /\ f < table_ppn /\ f < Frames /\ Frames \in Nat
    OBVIOUS
  <2>. QED BY <2>1, SlotsLemma
<1>2. get_page_offset(f * Slots + o) = o
  <2>1. f \in Nat /\ Slots \in Nat \ {0}
    OBVIOUS
  <2>. QED BY <2>1, QuotientUnique DEF get_page_offset
<1>. QED BY <1>1, <1>2 DEF Entries, Address, kRootPageTablePPN

\* An entry is where its table and its place in it say.
LEMMA EntryOfPlace ==
  ASSUME Inv, NEW q \in Entries
  PROVE  /\ page_of(q) \in 1 .. table_ppn - 1
         /\ get_page_offset(q) \in 0 .. Slots - 1
         /\ q = page_of(q) * Slots + get_page_offset(q)
         /\ q \in Address
PROOF
<1>. USE NumbersLemma
<1>1. q \in 1 * Slots .. table_ppn * Slots - 1
  BY DEF Entries, kRootPageTablePPN
<1>2. page_of(q) \in 1 .. table_ppn - 1
  BY <1>1, PageOfLemma
<1>3. q \in Nat /\ table_ppn * Slots \in Nat /\ Frames * Slots \in Nat
      /\ table_ppn * Slots <= Frames * Slots
  BY <1>1
<1>4. q \in Address
  BY <1>1, <1>3 DEF Address
<1>5. get_page_offset(q) \in 0 .. Slots - 1 /\ q = page_of(q) * Slots + get_page_offset(q)
  BY <1>3, Quotient DEF get_page_offset, page_of
<1>. QED BY <1>2, <1>4, <1>5

\* The table the walk is at is the one for its page.
LEMMA EntryNumber ==
  ASSUME NEW level, NEW base, WalkInv(level, base), ctl = "descend"
  PROVE  /\ number(base, entry) = page \div span[i]
         /\ entry = a * Slots + get_vpn(page * Slots, i)
         /\ get_vpn(page * Slots, i) \in 0 .. Slots - 1
         /\ a \in 1 .. table_ppn - 1
         /\ level[a] = i
PROOF
<1>1. Inv /\ Levelled(level) /\ OnTheWay(level, base)
  BY DEF WalkInv
<1>. USE <1>1, NumbersLemma
<1> DEFINE o == get_vpn(page * Slots, i)
<1>2. o \in 0 .. Slots - 1
  <2>1. page * Slots \in Nat /\ i \in 0 .. Levels - 1
    OBVIOUS
  <2>. QED BY <2>1, VpnType
<1>3. page \div span[i] = (page \div span[i + 1]) * Slots + o
  <2>1. page \in Nat /\ i \in 0 .. Levels - 1
    OBVIOUS
  <2>. QED BY <2>1, VpnOfPage
<1>4. entry = a * Slots + o
  BY DEF entry
<1>. HIDE DEF o
<1>5. a \in 1 .. table_ppn - 1
  OBVIOUS
<1>6. page_of(entry) = a /\ get_page_offset(entry) = o
  BY <1>2, <1>4, <1>5, PlaceOfEntry
<1>7. base[a] = page \div span[i + 1]
  BY DEF OnTheWay
<1>8. level[a] = i
  BY DEF Levelled
<1>. QED BY <1>2, <1>3, <1>4, <1>5, <1>6, <1>7, <1>8 DEF number, o

\* A table of the level the walk is to reach, for the page being mapped, can
\* only be what the entry points to.
LEMMA OnlyTable ==
  ASSUME NEW level, NEW base, WalkInv(level, base), ctl = "descend", i > 0,
         NEW g \in 1 .. table_ppn - 1, level[g] = i - 1, base[g] = page \div span[i]
  PROVE  mem[entry].V
PROOF
<1>1. Inv /\ Levelled(level) /\ OnTheWay(level, base) /\ Tabled(level, base) /\ Numbered(level, base)
  BY DEF WalkInv
<1>. USE <1>1, NumbersLemma DEF kRootPageTablePPN
<1>2. g # 1
  BY DEF Levelled
<1>3. g \in 2 .. table_ppn - 1
  BY <1>2
<1>4. PICK q \in Entries : {r \in Entries : mem[r].V /\ mem[r].ppn = g} = {q}
  BY <1>3 DEF Inv, TablesAreATree, Entries
<1>5. mem[q].V /\ mem[q].ppn = g
  BY <1>4
<1>6. /\ page_of(q) \in 1 .. table_ppn - 1 /\ get_page_offset(q) \in 0 .. Slots - 1
      /\ q = page_of(q) * Slots + get_page_offset(q)
  BY EntryOfPlace
<1>7. level[page_of(q)] # 0
  BY <1>5, <1>3 DEF Levelled
<1>8. level[page_of(q)] = i
  <2>1. level[g] = level[page_of(q)] - 1
    BY <1>5, <1>7 DEF Levelled
  <2>2. level[page_of(q)] \in 0 .. Levels - 1
    BY <1>6 DEF Levelled
  <2>. QED BY <2>1, <2>2
<1>9. base[g] = base[page_of(q)] * Slots + get_page_offset(q)
  BY <1>5, <1>7 DEF Numbered, number
<1> DEFINE o == get_vpn(page * Slots, i)
           n == page \div span[i + 1]
           b == base[page_of(q)]
           r == get_page_offset(q)
<1>10. /\ n \in Nat /\ o \in 0 .. Slots - 1 /\ page \div span[i] = n * Slots + o
       /\ base[a] = n /\ entry = a * Slots + o /\ level[a] = i /\ a \in 1 .. table_ppn - 1
  <2>1. page \in Nat /\ i \in 0 .. Levels - 1
    OBVIOUS
  <2>2. page \div span[i] = n * Slots + o /\ n \in Nat
    BY <2>1, VpnOfPage
  <2>. QED BY <2>2, EntryNumber DEF OnTheWay
<1>11. b \in Nat /\ r \in 0 .. Slots - 1 /\ n * Slots + o = b * Slots + r
  BY <1>6, <1>9, <1>10 DEF Tabled
<1>. HIDE DEF o, n, b, r
<1>12. b = n /\ r = o
  <2>1. Slots \in Nat \ {0}
    OBVIOUS
  <2>2. (n * Slots + o) \div Slots = n /\ (n * Slots + o) % Slots = o
    BY <1>10, <2>1, QuotientUnique
  <2>3. (b * Slots + r) \div Slots = b /\ (b * Slots + r) % Slots = r
    BY <1>11, <2>1, QuotientUnique
  <2>. QED BY <1>11, <2>2, <2>3
<1>13. page_of(q) = a
  BY <1>6, <1>8, <1>10, <1>12 DEF Tabled, b
<1>14. q = entry
  BY <1>6, <1>10, <1>12, <1>13 DEF r
<1>. QED BY <1>5, <1>14

\* A page mapped stays mapped when no entry becomes invalid.
LEMMA ReachedKept ==
  ASSUME Inv, NEW level, NEW base, NEW p \in Nat, NEW l \in 0 .. Levels - 1,
         Reached(level, base, p, l), table_ppn' = table_ppn,
         \A q \in Entries : mem[q].V => mem'[q].V
  PROVE  Reached(level, base, p, l)'
PROOF
<1>. USE DEF kRootPageTablePPN
<1>1. get_vpn(p * Slots, l) \in 0 .. Slots - 1
  <2>1. p * Slots \in Nat
    BY NumbersLemma
  <2>. QED BY <2>1, VpnType
<1>2. \A f \in 1 .. table_ppn - 1 : f * Slots + get_vpn(p * Slots, l) \in Entries
  BY <1>1, PlaceOfEntry
<1>. QED BY <1>2 DEF Reached

\* What the steps that do not write the tables or the list of pages leave.
LEMMA WalkKept ==
  ASSUME NEW level, NEW base, WalkInv(level, base),
         UNCHANGED <<elf, todo, table_ppn, va_to_pa>>,
         \A q \in Entries : mem'[q] = mem[q],
         Inv', Levelled(level)', OnTheWay(level, base)'
  PROVE  WalkInv(level, base)'
PROOF
<1>. USE DEF kRootPageTablePPN
<1>1. /\ Inv /\ Tabled(level, base) /\ Numbered(level, base) /\ Complete(level, base)
      /\ \A p \in DOMAIN todo : todo[p] = flags_of[p]
  BY DEF WalkInv
<1>2. flags_of' = flags_of /\ Entries' = Entries
  BY DEF flags_of, Entries
<1>3. \A p \in DOMAIN todo' : todo'[p] = flags_of'[p]
  BY <1>1, <1>2
<1>4. Tabled(level, base)'
  BY <1>1 DEF Tabled
<1>5. Numbered(level, base)'
  BY <1>1, <1>2 DEF Numbered, LeafFor, number
<1>6. Complete(level, base)'
  <2>1. DOMAIN va_to_pa \subseteq Nat
    BY <1>1, NumbersLemma DEF Inv, TypeOK
  <2>. QED BY <2>1, <1>1, ReachedKept DEF Complete
<1>. QED BY <1>3, <1>4, <1>5, <1>6 DEF WalkInv

LEMMA InitWalk ==
  ASSUME Init PROVE \E level, base : WalkInv(level, base)
PROOF
<1>. USE DEF kRootPageTablePPN
<1>1. Inv
  BY InitStep
<1>2. PICK level : Levelled(level)
  BY <1>1 DEF Inv
<1> DEFINE base == [f \in {1} |-> 0]
<1>3. 1 .. table_ppn - 1 = {1} /\ DOMAIN va_to_pa = {} /\ ctl = "pages"
  <2>1. table_ppn = 2
    BY DEF Init
  <2>. QED BY <2>1 DEF Init
<1>4. Tabled(level, base)
  BY <1>3 DEF Tabled
<1>5. Numbered(level, base)
  <2>1. \A q \in Entries : q \in Address
    BY <1>1, EntryOfPlace
  <2>. QED BY <2>1 DEF Init, Numbered, zero
<1>6. Complete(level, base) /\ OnTheWay(level, base)
  BY <1>3 DEF Complete, OnTheWay
<1>7. \A p \in DOMAIN todo : todo[p] = flags_of[p]
  BY DEF Init, flags_of
<1>8. WalkInv(level, base)
  BY <1>1, <1>2, <1>4, <1>5, <1>6, <1>7 DEF WalkInv
<1>. QED BY <1>8

\* The root is the table of the first level for every page the tables translate.
LEMMA NextPageWalk ==
  ASSUME PagesTranslated, NEW level, NEW base, WalkInv(level, base), NextPage
  PROVE  WalkInv(level, base)'
PROOF
<1>. USE DEF kRootPageTablePPN
<1>1. Inv /\ Levelled(level) /\ Tabled(level, base)
  BY DEF WalkInv
<1>2. Inv' /\ Levelled(level)'
  BY <1>1, NextPageStep
<1>3. /\ i' = Levels - 1 /\ a' = 1 /\ ctl' = "descend"
      /\ UNCHANGED <<elf, mem, todo, table_ppn, data_ppn, va_to_pa, seg>>
  BY DEF NextPage
<1>4. page' \in 0 .. span[Levels] - 1
  <2>1. elf \in Elfs /\ page' \in Pages(elf)
    BY <1>1, <1>2, <1>3 DEF Inv, TypeOK, Phases
  <2>2. page_of(Width) = span[Levels]
    BY WidthLemma DEF page_of
  <2>. QED BY <2>1, <2>2 DEF PagesTranslated
<1>5. base[a'] = page' \div span[i' + 1]
  <2>1. i' + 1 = Levels
    BY <1>3, PageTableAssumption
  <2>2. page' \div span[Levels] = 0
    BY <1>4, PageWithin
  <2>. QED BY <2>1, <2>2, <1>1, <1>3 DEF Tabled
<1>6. i' + 1 .. Levels - 1 = {}
  BY <1>3, PageTableAssumption
<1>7. OnTheWay(level, base)'
  BY <1>5, <1>6 DEF OnTheWay
<1>. QED BY <1>2, <1>3, <1>7, WalkKept

\* An entry that is valid points to the table for the page.
LEMMA FollowWalk ==
  ASSUME NEW level, NEW base, WalkInv(level, base), Follow
  PROVE  WalkInv(level, base)'
PROOF
<1>. USE DEF kRootPageTablePPN
<1>1. Inv /\ Levelled(level) /\ Tabled(level, base) /\ Numbered(level, base) /\ OnTheWay(level, base)
  BY DEF WalkInv
<1>2. Inv' /\ Levelled(level)'
  BY <1>1, FollowStep
<1>3. /\ ctl = "descend" /\ i > 0 /\ mem[entry].V /\ a' = mem[entry].ppn /\ i' = i - 1
      /\ UNCHANGED <<elf, mem, ctl, todo, page, table_ppn, data_ppn, va_to_pa, seg>>
  BY DEF Follow
<1>4. i \in Nat /\ i' + 1 = i /\ i \in 0 .. Levels - 1
  BY <1>1, <1>3, NumbersLemma
<1>5. base[a'] = page \div span[i]
  <2>1. entry \in Entries /\ page_of(entry) = a
    BY <1>1, EntryLemma
  <2>2. number(base, entry) = page \div span[i] /\ level[a] = i
    BY <1>3, EntryNumber
  <2>. QED BY <2>1, <2>2, <1>1, <1>3, <1>4 DEF Numbered
<1>6. Reached(level, base, page, i)
  <2>. SUFFICES ASSUME NEW f \in 1 .. table_ppn - 1, level[f] = i, base[f] = page \div span[i + 1]
                PROVE  mem[f * Slots + get_vpn(page * Slots, i)].V
    BY DEF Reached
  <2>1. level[a] = i /\ a \in 1 .. table_ppn - 1 /\ entry = a * Slots + get_vpn(page * Slots, i)
    BY <1>3, EntryNumber
  <2>2. f = a
    BY <2>1, <1>1, <1>3 DEF Tabled, OnTheWay
  <2>. QED BY <2>1, <2>2, <1>3
<1>7. \A l \in i .. Levels - 1 : Reached(level, base, page, l)
  <2>1. \A l \in i .. Levels - 1 : l = i \/ l \in i + 1 .. Levels - 1
    BY <1>4
  <2>. QED BY <2>1, <1>6, <1>1, <1>3 DEF OnTheWay
<1>8. \A l \in i .. Levels - 1 : Reached(level, base, page, l)'
  <2>1. page \in Nat /\ \A l \in i .. Levels - 1 : l \in 0 .. Levels - 1
    BY <1>1, <1>4, NumbersLemma
  <2>2. \A l \in i .. Levels - 1 : Reached(level, base, page, l)
    BY <1>7
  <2>. QED BY <2>1, <2>2, <1>3 DEF Reached
<1>9. OnTheWay(level, base)'
  BY <1>3, <1>4, <1>5, <1>8 DEF OnTheWay, Reached
<1>. QED BY <1>2, <1>3, <1>9, WalkKept

\* The new table is the one for the page on its level: there was none, and a
\* page with the same numbers down to it has not been mapped.
LEMMA AddTableWalk ==
  ASSUME NEW level, NEW base, WalkInv(level, base), AddTable,
         NEW l, l = Longer(level, i - 1), NEW b, b = Longer(base, page \div span[i])
  PROVE  WalkInv(l, b)'
PROOF
<1>. USE DEF kRootPageTablePPN
<1> DEFINE T == 1 .. table_ppn - 1
           n == page \div span[i]
<1>1. /\ Inv /\ Levelled(level) /\ Tabled(level, base) /\ Numbered(level, base)
      /\ Complete(level, base) /\ OnTheWay(level, base)
      /\ \A p \in DOMAIN todo : todo[p] = flags_of[p]
  BY DEF WalkInv
<1>2. Inv' /\ Levelled(l)'
  BY <1>1, AddTableStep
<1>3. /\ ctl = "descend" /\ i > 0 /\ ~mem[entry].V
      /\ mem' = [mem EXCEPT ![entry] = [kPointerToNextLevelPTE EXCEPT !.ppn = table_ppn]]
      /\ a' = table_ppn /\ table_ppn' = table_ppn + 1 /\ i' = i - 1
      /\ UNCHANGED <<elf, ctl, todo, page, data_ppn, va_to_pa, seg>>
  BY DEF AddTable
<1>4. /\ i \in Nat /\ i' + 1 = i /\ i \in 0 .. Levels - 1 /\ i - 1 \in 0 .. Levels - 1
      /\ page \in Nat /\ table_ppn \in Nat /\ 1 < table_ppn /\ table_ppn # 1
  BY <1>1, <1>3, NumbersLemma
<1>5. /\ number(base, entry) = n
      /\ entry = a * Slots + get_vpn(page * Slots, i)
      /\ get_vpn(page * Slots, i) \in 0 .. Slots - 1
      /\ a \in T /\ level[a] = i /\ entry \in Entries /\ page_of(entry) = a /\ entry \in Address
  BY <1>1, <1>3, EntryNumber, EntryLemma
<1>6. n \in Nat
  BY <1>4, VpnOfPage
<1>7. ~ \E g \in T : level[g] = i - 1 /\ base[g] = n
  BY <1>3, OnlyTable
<1>. HIDE DEF n
<1>8. 1 .. table_ppn = T \cup {table_ppn} /\ table_ppn \notin T /\ 1 .. table_ppn' - 1 = T \cup {table_ppn}
      /\ 1 \in T
  BY <1>3, <1>4
<1>9. /\ l[table_ppn] = i - 1 /\ b[table_ppn] = n
      /\ \A f \in T : l[f] = level[f] /\ b[f] = base[f]
      /\ b \in [T \cup {table_ppn} -> Nat]
  <2>1. l = [f \in 1 .. table_ppn |-> IF f = table_ppn THEN i - 1 ELSE level[f]]
    BY DEF Longer
  <2>2. b = [f \in 1 .. table_ppn |-> IF f = table_ppn THEN n ELSE base[f]]
    BY DEF Longer, n
  <2>3. base \in [T -> Nat]
    BY <1>1 DEF Tabled
  <2>. HIDE DEF T
  <2>. QED BY <2>1, <2>2, <2>3, <1>6, <1>8
<1>10. Tabled(l, b)'
  <2>1. b[1] = 0
    BY <1>1, <1>8, <1>9 DEF Tabled
  <2>2. ASSUME NEW f \in T \cup {table_ppn}, NEW g \in T \cup {table_ppn}, l[f] = l[g], b[f] = b[g]
        PROVE  f = g
    <3>1. CASE f \in T /\ g \in T
      BY <3>1, <2>2, <1>1, <1>9 DEF Tabled
    <3>2. CASE f = table_ppn /\ g \in T
      BY <3>2, <2>2, <1>7, <1>9
    <3>3. CASE f \in T /\ g = table_ppn
      BY <3>3, <2>2, <1>7, <1>9
    <3>. QED BY <2>2, <3>1, <3>2, <3>3
  <2>. HIDE DEF T
  <2>. QED BY <2>1, <2>2, <1>8, <1>9 DEF Tabled
<1> DEFINE w == [kPointerToNextLevelPTE EXCEPT !.ppn = table_ppn]
<1>11. w.V /\ is_pointer_to_next_level_pte(w) /\ ~w.reserved /\ w.ppn = table_ppn
  BY DEF kPointerToNextLevelPTE, zero, is_pointer_to_next_level_pte
<1>. HIDE DEF w
<1>12. /\ mem'[entry] = w
       /\ \A q \in Address : q # entry => mem'[q] = mem[q]
       /\ \A q \in Entries : q \in Address /\ page_of(q) \in T
  <2>1. mem \in [Address -> Word]
    BY <1>1 DEF Inv, TypeOK
  <2>2. \A q \in Entries : q \in Address /\ page_of(q) \in T
    BY <1>1, EntryOfPlace
  <2>. QED BY <2>1, <2>2, <1>3, <1>5 DEF w
<1>13. ASSUME NEW q \in Entries'
       PROVE  q \in Entries \/ mem'[q] = zero
  <2>1. \A r \in table_ppn * Slots .. first_data_ppn * Slots - 1 : mem[r] = zero
    BY <1>1 DEF Inv, TablesAreATree
  <2>2. /\ 1 * Slots \in Nat /\ table_ppn * Slots \in Nat /\ (table_ppn + 1) * Slots \in Nat
        /\ (table_ppn + 1) * Slots <= first_data_ppn * Slots /\ first_data_ppn * Slots \in Nat
        /\ first_data_ppn * Slots <= Frames * Slots /\ Frames * Slots \in Nat
    <3>1. table_ppn + 1 <= first_data_ppn
      BY <1>2, <1>3 DEF Inv, TypeOK
    <3>. QED BY <3>1, <1>1, <1>4, NumbersLemma
  <2>3. q \in 1 * Slots .. (table_ppn + 1) * Slots - 1
    BY <1>3 DEF Entries
  <2>4. q \in Entries \/ q \in table_ppn * Slots .. first_data_ppn * Slots - 1
    BY <2>2, <2>3 DEF Entries
  <2>5. q \in table_ppn * Slots .. first_data_ppn * Slots - 1 => q \in Address
    BY <2>2 DEF Address
  <2>6. entry < table_ppn * Slots
    BY <1>5, <2>2 DEF Entries
  <2>7. q \in table_ppn * Slots .. first_data_ppn * Slots - 1 => q # entry
    BY <2>2, <2>6
  <2>. QED BY <2>1, <2>4, <2>5, <2>7, <1>12
<1>14. Numbered(l, b)'
  <2>. SUFFICES ASSUME NEW q \in Entries', mem'[q].V
                PROVE  IF l[page_of(q)] = 0
                       THEN number(b, q) \in DOMAIN va_to_pa /\ LeafFor(mem[q], number(b, q))'
                       ELSE /\ is_pointer_to_next_level_pte(mem'[q]) /\ ~mem'[q].reserved
                            /\ b[mem'[q].ppn] = number(b, q)
    BY <1>3 DEF Numbered, number
  <2>1. q \in Entries
    BY <1>13 DEF zero
  <2>2. page_of(q) \in T /\ l[page_of(q)] = level[page_of(q)] /\ number(b, q) = number(base, q)
    BY <2>1, <1>9, <1>12 DEF number
  <2>3. CASE q = entry
    <3>1. l[page_of(q)] # 0 /\ b[table_ppn] = number(b, q)
      BY <2>2, <2>3, <1>3, <1>4, <1>5, <1>9
    <3>. QED BY <3>1, <2>3, <1>11, <1>12
  <2>4. CASE q # entry
    <3>1. mem'[q] = mem[q] /\ mem[q].V
      BY <2>1, <2>4, <1>12
    <3>2. CASE level[page_of(q)] = 0
      <4>1. number(base, q) \in DOMAIN va_to_pa /\ LeafFor(mem[q], number(base, q))
        BY <2>1, <3>1, <3>2, <1>1 DEF Numbered
      <4>2. LeafFor(mem[q], number(b, q))'
        BY <4>1, <3>1, <2>2, <1>3 DEF LeafFor, flags_of, number
      <4>. QED BY <4>1, <4>2, <3>2, <2>2
    <3>3. CASE level[page_of(q)] # 0
      <4>1. /\ is_pointer_to_next_level_pte(mem[q]) /\ ~mem[q].reserved
            /\ base[mem[q].ppn] = number(base, q)
        BY <2>1, <3>1, <3>3, <1>1 DEF Numbered
      <4>2. mem[q].ppn \in T
        BY <2>1, <3>1, <3>3, <1>1 DEF Levelled
      <4>. QED BY <4>1, <4>2, <3>1, <3>3, <2>2, <1>9
    <3>. QED BY <3>2, <3>3
  <2>. QED BY <2>3, <2>4
<1>15. \A q \in Entries : mem[q].V => mem'[q].V
  BY <1>3, <1>12
\* A page with an entry on the level of the walk is not told apart from the
\* one being mapped before that level.
<1>16. ASSUME NEW p \in Nat, NEW k \in 0 .. Levels - 1, Reached(level, base, p, k),
              k = i - 1 => Reached(level, base, p, i) /\ (p \div span[i] # n)
       PROVE  Reached(l, b, p, k)'
  <2>. SUFFICES ASSUME NEW f \in T \cup {table_ppn}, l[f] = k, b[f] = p \div span[k + 1]
                PROVE  mem'[f * Slots + get_vpn(p * Slots, k)].V
    BY <1>8 DEF Reached
  <2>1. f # table_ppn
    <3>. SUFFICES ASSUME f = table_ppn PROVE FALSE
      OBVIOUS
    <3>1. k = i - 1 /\ p \div span[i] = n
      BY <1>4, <1>9
    <3>. QED BY <3>1, <1>16
  <2>2. f \in T /\ level[f] = k /\ base[f] = p \div span[k + 1]
    BY <2>1, <1>9
  <2>3. mem[f * Slots + get_vpn(p * Slots, k)].V
    BY <2>2, <1>16 DEF Reached
  <2>4. get_vpn(p * Slots, k) \in 0 .. Slots - 1
    <3>1. p * Slots \in Nat
      BY PageTableAssumption
    <3>. QED BY <3>1, VpnType
  <2>5. f * Slots + get_vpn(p * Slots, k) \in Entries
    BY <2>2, <2>4, <1>1, PlaceOfEntry
  <2>. QED BY <2>3, <2>5, <1>15
<1>17. ASSUME NEW p \in Nat, Reached(level, base, p, i) PROVE p \div span[i] # n
  <2>. SUFFICES ASSUME p \div span[i] = n PROVE FALSE
    OBVIOUS
  <2> DEFINE vp == get_vpn(p * Slots, i)
             vn == get_vpn(page * Slots, i)
             up == p \div span[i + 1]
             un == page \div span[i + 1]
  <2>1. vp \in 0 .. Slots - 1 /\ up \in Nat /\ n = up * Slots + vp
    <3>1. p * Slots \in Nat
      BY PageTableAssumption
    <3>. QED BY <3>1, <1>4, VpnType, VpnOfPage
  <2>2. vn \in 0 .. Slots - 1 /\ un \in Nat /\ n = un * Slots + vn
    BY <1>4, <1>5, VpnOfPage DEF n
  <2>. HIDE DEF vp, vn, up, un
  <2>3. vp = vn /\ up = un
    <3>1. Slots \in Nat \ {0}
      BY PageTableAssumption
    <3>2. (up * Slots + vp) \div Slots = up /\ (up * Slots + vp) % Slots = vp
      BY <2>1, <3>1, QuotientUnique
    <3>3. (un * Slots + vn) \div Slots = un /\ (un * Slots + vn) % Slots = vn
      BY <2>2, <3>1, QuotientUnique
    <3>. QED BY <2>1, <2>2, <3>2, <3>3
  <2>4. base[a] = up
    BY <2>3, <1>1, <1>3 DEF OnTheWay, un
  <2>5. mem[a * Slots + vp].V
    BY <2>4, <1>5, <1>17 DEF Reached, up, vp
  <2>. QED BY <2>3, <2>5, <1>3, <1>5 DEF vn
<1>18. Complete(l, b)'
  <2>. SUFFICES ASSUME NEW p \in DOMAIN va_to_pa, NEW k \in 0 .. Levels - 1
                PROVE  Reached(l, b, p, k)'
    BY <1>3 DEF Complete
  <2>1. p \in Nat
    BY <1>1, NumbersLemma DEF Inv, TypeOK
  <2>2. Reached(level, base, p, k) /\ Reached(level, base, p, i)
    BY <1>1, <1>4 DEF Complete
  <2>. QED BY <2>1, <2>2, <1>16, <1>17
<1>19. OnTheWay(l, b)'
  <2>1. b[a'] = page' \div span[i' + 1]
    BY <1>3, <1>4, <1>9 DEF n
  <2>2. ASSUME NEW k \in i .. Levels - 1 PROVE Reached(l, b, page, k)'
    <3>1. CASE k = i
      <4>. SUFFICES ASSUME NEW f \in T \cup {table_ppn}, l[f] = i, b[f] = page \div span[i + 1]
                    PROVE  mem'[f * Slots + get_vpn(page * Slots, i)].V
        BY <3>1, <1>3, <1>8 DEF Reached
      <4>1. f # table_ppn
        BY <1>4, <1>9
      <4>2. f = a
        BY <4>1, <1>1, <1>3, <1>5, <1>9 DEF Tabled, OnTheWay
      <4>. QED BY <4>2, <1>5, <1>11, <1>12
    <3>2. CASE k # i
      <4>1. k \in i + 1 .. Levels - 1 /\ k \in 0 .. Levels - 1 /\ k # i - 1
        BY <3>2, <1>4
      <4>2. Reached(level, base, page, k)
        BY <4>1, <1>1, <1>3 DEF OnTheWay
      <4>3. PICK p \in Nat : p = page
        BY <1>4
      <4>4. Reached(l, b, p, k)'
        BY <4>1, <4>2, <4>3, <1>16
      <4>. QED BY <4>3, <4>4, <1>3 DEF Reached
    <3>. QED BY <3>1, <3>2
  <2>3. \A k \in i' + 1 .. Levels - 1 : Reached(l, b, page, k)'
    BY <2>2, <1>4
  <2>. QED BY <2>1, <2>3, <1>3 DEF OnTheWay, Reached
<1>20. \A p \in DOMAIN todo' : todo'[p] = flags_of'[p]
  BY <1>1, <1>3 DEF flags_of
<1>. QED BY <1>2, <1>10, <1>14, <1>18, <1>19, <1>20 DEF WalkInv

\* A copy begins above the tables.
LEMMA CopyKeepsTables ==
  ASSUME Inv, CopySegment
  PROVE  \A q \in Entries : mem'[q] = mem[q]
PROOF
<1>1. /\ ctl = "copy" /\ seg <= Len(elf)
      /\ mem' = IF elf[seg].loadable
                THEN [p \in Address |-> IF p \in target .. target + elf[seg].file_size - 1
                                        THEN Byte(seg, p - target) ELSE mem[p]]
                ELSE mem
  BY DEF CopySegment, target
<1>. SUFFICES ASSUME NEW q \in Entries, elf[seg].loadable PROVE mem'[q] = mem[q]
  BY <1>1
<1>2. target \in Nat /\ first_data_ppn * Slots <= target /\ elf[seg].file_size \in Nat
  BY <1>1, TargetLemma
<1>3. /\ q \in Nat /\ q < table_ppn * Slots /\ table_ppn * Slots <= first_data_ppn * Slots
      /\ table_ppn * Slots \in Nat /\ first_data_ppn * Slots \in Nat
  BY NumbersLemma DEF Entries, kRootPageTablePPN
<1>4. q \in Address /\ q \notin target .. target + elf[seg].file_size - 1
  BY <1>2, <1>3, EntryOfPlace
<1>. QED BY <1>1, <1>4

\* What the leaf written says.
LEMMA LeafWritten ==
  ASSUME Inv, AddLeaf, \A p \in DOMAIN todo : todo[p] = flags_of[p]
  PROVE  LeafFor(mem[entry], page)'
PROOF
<1>1. mem'[entry] = [kPointerToNextLevelPTE EXCEPT
                       !.R = "R" \in todo[page], !.W = "W" \in todo[page],
                       !.E = "E" \in todo[page], !.ppn = data_ppn]
      /\ UNCHANGED <<elf, page, entry>>
  BY EntryLemma DEF AddLeaf, Inv, TypeOK, entry
<1>2. todo[page] \in SUBSET {"R", "W", "E"} /\ todo[page] = flags_of[page]
  <2>1. elf \in Elfs /\ page \in Pages(elf) /\ page \in DOMAIN todo
    BY LeafLemma, NumbersLemma
  <2>. QED BY <2>1, FlagsLemma DEF flags_of
<1> DEFINE x == mem'[entry]
<1>3. /\ x.R = ("R" \in todo[page]) /\ x.W = ("W" \in todo[page]) /\ x.E = ("E" \in todo[page])
      /\ ~x.reserved
  BY <1>1 DEF kPointerToNextLevelPTE, zero
<1>. HIDE DEF x
<1>4. FlagsOf(x) = todo[page]
  BY <1>2, <1>3 DEF FlagsOf
<1>5. x.ppn = va_to_pa'[page]
  BY LeafLemma DEF x
<1>6. flags_of' = flags_of
  BY <1>1 DEF flags_of
<1>. QED BY <1>1, <1>2, <1>3, <1>4, <1>5, <1>6 DEF LeafFor, x

\* The leaf is where the walk for its page ends.
LEMMA AddLeafWalk ==
  ASSUME NEW level, NEW base, WalkInv(level, base), AddLeaf
  PROVE  WalkInv(level, base)'
PROOF
<1>. USE DEF kRootPageTablePPN
<1> DEFINE T == 1 .. table_ppn - 1
<1>1. /\ Inv /\ Levelled(level) /\ Tabled(level, base) /\ Numbered(level, base)
      /\ Complete(level, base) /\ OnTheWay(level, base)
      /\ \A p \in DOMAIN todo : todo[p] = flags_of[p]
  BY DEF WalkInv
<1>2. Inv' /\ Levelled(level)'
  BY <1>1, AddLeafStep
<1>3. /\ ctl = "descend" /\ i = 0 /\ ctl' # "descend"
      /\ UNCHANGED <<elf, page, i, a, table_ppn, seg>>
      /\ todo' = [p \in DOMAIN todo \ {page} |-> todo[p]]
  BY <1>1, LeafLemma DEF AddLeaf
<1>4. /\ page \in Nat /\ DOMAIN va_to_pa' = DOMAIN va_to_pa \cup {page} /\ page \notin DOMAIN va_to_pa
      /\ \A p \in DOMAIN va_to_pa : va_to_pa'[p] = va_to_pa[p] /\ p \in Nat
      /\ \A q \in Address : q # entry => mem'[q] = mem[q]
      /\ mem'[entry].V
  <2>1. \A p \in DOMAIN va_to_pa : p \in Nat
    BY <1>1, NumbersLemma DEF Inv, TypeOK
  <2>. QED BY <2>1, <1>1, LeafLemma, NumbersLemma
<1>5. /\ number(base, entry) = page
      /\ entry = a * Slots + get_vpn(page * Slots, 0)
      /\ a \in T /\ level[a] = 0 /\ entry \in Entries /\ page_of(entry) = a
      /\ base[a] = page \div span[1]
  <2>1. page \div span[0] = page
    BY <1>4, SpanNext
  <2>. QED BY <2>1, <1>1, <1>3, EntryNumber, EntryLemma DEF OnTheWay
<1>6. Tabled(level, base)'
  BY <1>1, <1>3 DEF Tabled
<1>7. Numbered(level, base)'
  <2>. SUFFICES ASSUME NEW q \in Entries, mem'[q].V
                PROVE  IF level[page_of(q)] = 0
                       THEN number(base, q) \in DOMAIN va_to_pa' /\ LeafFor(mem[q], number(base, q))'
                       ELSE /\ is_pointer_to_next_level_pte(mem'[q]) /\ ~mem'[q].reserved
                            /\ base[mem'[q].ppn] = number(base, q)
    BY <1>3 DEF Numbered, number, Entries
  <2>1. CASE q = entry
    <3>1. LeafFor(mem[entry], page)'
      BY <1>1, LeafWritten
    <3>2. UNCHANGED entry
      BY <1>3 DEF entry
    <3>3. LeafFor(mem[q], number(base, q))'
      BY <3>1, <3>2, <2>1, <1>3, <1>5 DEF LeafFor, number
    <3>. QED BY <3>3, <2>1, <1>4, <1>5
  <2>2. CASE q # entry
    <3>1. mem'[q] = mem[q] /\ mem[q].V
      BY <2>2, <1>1, <1>4, EntryOfPlace
    <3>2. CASE level[page_of(q)] = 0
      <4>1. number(base, q) \in DOMAIN va_to_pa /\ LeafFor(mem[q], number(base, q))
        BY <3>1, <3>2, <1>1 DEF Numbered
      <4>2. LeafFor(mem[q], number(base, q))'
        BY <4>1, <3>1, <1>3, <1>4 DEF LeafFor, flags_of, number
      <4>. QED BY <4>1, <4>2, <3>2, <1>4
    <3>3. CASE level[page_of(q)] # 0
      BY <3>1, <3>3, <1>1 DEF Numbered
    <3>. QED BY <3>2, <3>3
  <2>. QED BY <2>1, <2>2
<1>8. \A q \in Entries : mem[q].V => mem'[q].V
  BY <1>1, <1>4, EntryOfPlace
<1>9. Complete(level, base)'
  <2>1. ASSUME NEW p \in DOMAIN va_to_pa, NEW k \in 0 .. Levels - 1
        PROVE  Reached(level, base, p, k)'
    BY <1>1, <1>3, <1>4, <1>8, ReachedKept DEF Complete
  <2>2. ASSUME NEW k \in 0 .. Levels - 1, NEW p \in Nat, p = page PROVE Reached(level, base, p, k)'
    <3>1. CASE k = 0
      <4>. SUFFICES ASSUME NEW f \in T, level[f] = 0, base[f] = p \div span[0 + 1]
                    PROVE  mem'[f * Slots + get_vpn(p * Slots, 0)].V
        BY <3>1, <1>3 DEF Reached
      <4>1. f = a
        BY <2>2, <1>1, <1>5 DEF Tabled
      <4>. QED BY <4>1, <2>2, <1>4, <1>5
    <3>2. CASE k # 0
      <4>1. k \in i + 1 .. Levels - 1
        BY <3>2, <1>3
      <4>2. Reached(level, base, p, k)
        BY <4>1, <2>2, <1>1, <1>3 DEF OnTheWay
      <4>. QED BY <4>2, <1>1, <1>3, <1>8, ReachedKept
    <3>. QED BY <3>1, <3>2
  <2>3. \A p \in DOMAIN va_to_pa' : \A k \in 0 .. Levels - 1 : Reached(level, base, p, k)'
    BY <2>1, <2>2, <1>4
  <2>. QED BY <2>3 DEF Complete
<1>10. OnTheWay(level, base)'
  BY <1>3 DEF OnTheWay
<1>11. \A p \in DOMAIN todo' : todo'[p] = flags_of'[p]
  BY <1>1, <1>3 DEF flags_of
<1>. QED BY <1>2, <1>6, <1>7, <1>9, <1>10, <1>11 DEF WalkInv

LEMMA StepWalk ==
  ASSUME PagesTranslated, NEW level, NEW base, WalkInv(level, base), [Next]_vars
  PROVE  \E l, b : WalkInv(l, b)'
PROOF
<1>1. Inv /\ Levelled(level)
  BY DEF WalkInv
<1>2. CASE NextPage
  BY <1>2, NextPageWalk
<1>3. CASE Follow
  BY <1>3, FollowWalk
<1>4. CASE AddTable
  BY <1>4, AddTableWalk
<1>5. CASE AddLeaf
  BY <1>5, AddLeafWalk
<1>6. CASE CopySegment
  <2>1. Inv' /\ Levelled(level)'
    BY <1>1, <1>6, CopySegmentStep
  <2>2. \A q \in Entries : mem'[q] = mem[q]
    BY <1>1, <1>6, CopyKeepsTables
  <2>3. UNCHANGED <<elf, todo, table_ppn, va_to_pa>> /\ ctl' # "descend"
    BY <1>6 DEF CopySegment
  <2>. QED BY <2>1, <2>2, <2>3, WalkKept DEF OnTheWay
<1>7. CASE SetHandler
  <2>1. Inv' /\ Levelled(level)'
    BY <1>1, <1>7, SetHandlerStep
  <2>2. \A q \in Entries : mem'[q] = mem[q]
    <3>1. mem' = [mem EXCEPT ![0] = Trap] /\ mem \in [Address -> Word]
      BY <1>1, <1>7 DEF SetHandler, kTrapBaseAddress, Inv, TypeOK
    <3>2. ~(1 * Slots <= 0)
      BY <1>1, NumbersLemma
    <3>. QED BY <3>1, <3>2, <1>1, EntryOfPlace DEF Entries, kRootPageTablePPN
  <2>3. UNCHANGED <<elf, todo, table_ppn, va_to_pa>> /\ ctl' # "descend"
    BY <1>7 DEF SetHandler
  <2>. QED BY <2>1, <2>2, <2>3, WalkKept DEF OnTheWay
<1>8. CASE UNCHANGED vars
  <2>1. Inv' /\ Levelled(level)'
    BY <1>1, <1>8, StutterStep
  <2>2. UNCHANGED <<elf, mem, ctl, todo, page, i, a, table_ppn, va_to_pa>>
    BY <1>8 DEF vars
  <2>3. OnTheWay(level, base)'
    BY <2>2 DEF WalkInv, OnTheWay, Reached
  <2>. QED BY <2>1, <2>2, <2>3, WalkKept
<1>. QED BY <1>2, <1>3, <1>4, <1>5, <1>6, <1>7, <1>8 DEF Next

\* What the hart must find for the page p.
Agrees(leaf, p) ==
  IF p \in DOMAIN va_to_pa /\ Usable(flags_of[p])
  THEN /\ leaf.level = 0
       /\ mem[leaf.at].ppn = va_to_pa[p]
       /\ FlagsOf(mem[leaf.at]) = flags_of[p]
  ELSE leaf = NoLeaf

\* The flags decide what the walk makes of a leaf.
LEMMA LeafOutcome ==
  ASSUME NEW va, NEW q, NEW p, mem[q] \in Word, mem[q].V, LeafFor(mem[q], p),
         p \in DOMAIN va_to_pa
  PROVE  Agrees(outcome(mem, va, 0, q), p)
PROOF
<1> DEFINE w == mem[q]
<1>1. /\ w.V /\ ~w.reserved /\ FlagsOf(w) = flags_of[p] /\ w.ppn = va_to_pa[p]
      /\ w.R \in BOOLEAN /\ w.W \in BOOLEAN /\ w.E \in BOOLEAN
  BY DEF LeafFor, Word
<1>2. /\ ("R" \in FlagsOf(w)) = w.R /\ ("W" \in FlagsOf(w)) = w.W /\ ("E" \in FlagsOf(w)) = w.E
      /\ FlagsOf(w) \subseteq {"R", "W", "E"}
  BY <1>1 DEF FlagsOf
<1>3. Usable(FlagsOf(w)) <=> (w.R \/ w.W \/ w.E) /\ (w.W => w.R)
  BY <1>1, <1>2 DEF Usable
<1>4. CASE (w.R \/ w.W \/ w.E) /\ (w.W => w.R)
  <2>1. outcome(mem, va, 0, q) = [level |-> 0, at |-> q]
    BY <1>1, <1>4, Zenon DEF outcome, is_rwx_reserved, is_pointer_to_next_level_pte
  <2>2. [level |-> 0, at |-> q].level = 0 /\ [level |-> 0, at |-> q].at = q
    OBVIOUS
  <2>. QED BY <2>1, <2>2, <1>1, <1>3, <1>4 DEF Agrees
<1>5. CASE ~((w.R \/ w.W \/ w.E) /\ (w.W => w.R))
  <2>1. outcome(mem, va, 0, q) = NoLeaf
    BY <1>1, <1>5, Zenon DEF outcome, is_rwx_reserved, is_pointer_to_next_level_pte
  <2>. QED BY <2>1, <1>1, <1>3, <1>5 DEF Agrees
<1>. QED BY <1>4, <1>5

\* From the table of each level for a page on, the walk finds what it must.
LEMMA WalkFinds ==
  ASSUME NEW level, NEW base, WalkInv(level, base), NEW p \in Nat
  PROVE  \A l \in 0 .. Levels - 1 : \A f \in 1 .. table_ppn - 1 :
           level[f] = l /\ base[f] = p \div span[l + 1]
             => Agrees(descend(mem, p * Slots)[l][f], p)
PROOF
<1>. USE DEF kRootPageTablePPN
<1> DEFINE T == 1 .. table_ppn - 1
           Right(l) == \A f \in T : level[f] = l /\ base[f] = p \div span[l + 1]
                                      => Agrees(descend(mem, p * Slots)[l][f], p)
           N == {l \in Nat : l <= Levels - 1 => Right(l)}
<1>1. /\ Inv /\ Levelled(level) /\ Tabled(level, base) /\ Numbered(level, base)
      /\ Complete(level, base)
  BY DEF WalkInv
<1>2. ASSUME NEW l \in 0 .. Levels - 1, l # 0 => Right(l - 1) PROVE Right(l)
  <2>. SUFFICES ASSUME NEW f \in T, level[f] = l, base[f] = p \div span[l + 1]
                PROVE  Agrees(descend(mem, p * Slots)[l][f], p)
    OBVIOUS
  <2> DEFINE o == get_vpn(p * Slots, l)
             q == f * Slots + o
  <2>1. o \in 0 .. Slots - 1 /\ p \div span[l] = base[f] * Slots + o
    <3>1. p * Slots \in Nat
      BY PageTableAssumption
    <3>. QED BY <3>1, VpnType, VpnOfPage
  <2>2. q \in Entries /\ page_of(q) = f /\ number(base, q) = p \div span[l] /\ mem[q] \in Word
    <3>1. q \in Entries /\ q \in Address /\ page_of(q) = f /\ get_page_offset(q) = o
      BY <2>1, <1>1, PlaceOfEntry
    <3>. QED BY <3>1, <2>1, <1>1 DEF number, Inv, TypeOK
  <2>3. descend(mem, p * Slots)[l][f] = outcome(mem, p * Slots, l, q)
    <3>1. f \in Nat
      BY <1>1, NumbersLemma
    <3>. QED BY <3>1, WalkStep
  <2>4. CASE ~mem[q].V
    <3>1. p \notin DOMAIN va_to_pa
      BY <2>4, <1>1 DEF Complete, Reached
    <3>2. outcome(mem, p * Slots, l, q) = NoLeaf
      BY <2>4, Zenon DEF outcome
    <3>. QED BY <3>1, <3>2, <2>3 DEF Agrees
  <2>5. CASE mem[q].V /\ l = 0
    <3>1. p \div span[0] = p
      BY SpanNext
    <3>2. p \in DOMAIN va_to_pa /\ LeafFor(mem[q], p)
      BY <3>1, <2>2, <2>5, <1>1 DEF Numbered
    <3>3. Agrees(outcome(mem, p * Slots, 0, q), p)
      BY <3>2, <2>2, <2>5, LeafOutcome
    <3>. QED BY <3>3, <2>3, <2>5
  <2>6. CASE mem[q].V /\ l # 0
    <3>1. /\ is_pointer_to_next_level_pte(mem[q]) /\ ~mem[q].reserved
          /\ base[mem[q].ppn] = p \div span[l]
      BY <2>2, <2>6, <1>1 DEF Numbered
    <3>2. mem[q].ppn \in T /\ level[mem[q].ppn] = l - 1
      BY <2>2, <2>6, <1>1 DEF Levelled
    <3>3. outcome(mem, p * Slots, l, q) = descend(mem, p * Slots)[l - 1][mem[q].ppn]
      BY <3>1, <2>6, Zenon DEF outcome, is_rwx_reserved, is_pointer_to_next_level_pte
    <3>4. (l - 1) + 1 = l /\ l # 0
      BY <2>6
    <3>. QED BY <3>1, <3>2, <3>3, <3>4, <2>3, <1>2
  <2>. QED BY <2>4, <2>5, <2>6
<1>. HIDE DEF Right
<1>3. 0 \in N
  BY <1>2, PageTableAssumption
<1>4. ASSUME NEW n \in Nat, n \in N PROVE n + 1 \in N
  <2>1. SUFFICES ASSUME n + 1 <= Levels - 1 PROVE Right(n + 1)
    OBVIOUS
  <2>2. n + 1 \in 0 .. Levels - 1 /\ (n + 1) - 1 = n /\ n <= Levels - 1
    BY <2>1, PageTableAssumption
  <2>. QED BY <1>2, <1>4, <2>2
<1>. HIDE DEF N
<1>5. Nat \subseteq N
  BY <1>3, <1>4, Induction
<1>6. \A l \in 0 .. Levels - 1 : Right(l)
  BY <1>5, PageTableAssumption DEF N
<1>. QED BY <1>6 DEF Right

LEMMA WalksAgree ==
  ASSUME NEW level, NEW base, WalkInv(level, base) PROVE TablesAgree
PROOF
<1>. USE DEF kRootPageTablePPN
<1>1. Inv /\ Levelled(level) /\ Tabled(level, base)
  BY DEF WalkInv
<1>2. ASSUME NEW p \in 0 .. page_of(Width) - 1
      PROVE  Agrees(walk(mem, kRootPageTablePPN, p * Slots), p)
  <2>1. page_of(Width) = span[Levels] /\ span[Levels] \in Nat
    BY WidthLemma DEF page_of
  <2>2. p \in Nat /\ p \div span[Levels] = 0
    BY <2>1, PageWithin
  <2>3. Levels - 1 \in 0 .. Levels - 1 /\ (Levels - 1) + 1 = Levels
    BY PageTableAssumption
  <2>4. 1 \in 1 .. table_ppn - 1 /\ level[1] = Levels - 1 /\ base[1] = 0
    BY <1>1, NumbersLemma DEF Levelled, Tabled
  <2>. QED BY <2>2, <2>3, <2>4, WalkFinds DEF walk
<1>. QED BY <1>2 DEF TablesAgree, Agrees, flags_of

-----------------------------------------------------------------------------
(* The theorems. *)

\* The tables stay below the data and the data within memory, whatever the
\* file, the number of levels and the size of a table; every variable has its
\* type throughout initialize_hart.
THEOREM TypeCorrect == Spec => []TypeOK
PROOF
<1>1. Inv => TypeOK
  BY DEF Inv
<1>. QED BY <1>1, InitStep, Step, PTL DEF Spec

\* While initialize_hart builds the tables and copies the program they are a
\* tree: each is pointed to once, and what has not been allocated is zero.
THEOREM AlwaysATree == Spec => []TablesAreATree
PROOF
<1>1. Inv => TablesAreATree
  BY DEF Inv
<1>. QED BY <1>1, InitStep, Step, PTL DEF Spec

\* initialize_hart gives no page of memory to two pages of the program.
THEOREM NoPlaceTwice == Spec => []PlacesApart
PROOF
<1>1. Inv => PlacesApart
  BY DEF Inv
<1>. QED BY <1>1, InitStep, Step, PTL DEF Spec

\* When initialize_hart is done, every page of the program shows the data of
\* the last segment that covers each of its addresses and zero where none does,
\* and the handler is where traps go.
THEOREM ProgramLoaded == Spec => []ProgramInPlace
PROOF
<1>1. ASSUME DataInv PROVE ProgramInPlace
  <2>. SUFFICES ASSUME ctl = "done" PROVE ProgramInPlace
    BY DEF ProgramInPlace
  <2>1. mem[kTrapBaseAddress] = Trap /\ seg > Len(elf)
    BY <1>1 DEF DataInv, Filled
  <2>2. ASSUME NEW va
        PROVE  shown(va, seg) = IF Covering(va) = {} THEN zero
                                ELSE LET k == Max(Covering(va)) IN Byte(k, va - elf[k].va)
    <3>1. \A k \in Covering(va) : k \in 1 .. Len(elf)
      BY <1>1, LoaderAssumption DEF DataInv, Inv, TypeOK, Covering, Loadable
    <3>2. Len(elf) \in Nat /\ seg \in Nat
      BY <1>1, LoaderAssumption DEF DataInv, Inv, TypeOK
    <3>3. {k \in Covering(va) : k < seg} = Covering(va)
      BY <2>1, <3>1, <3>2
    <3>. QED BY <3>3 DEF shown
  <2>3. \A p \in DOMAIN va_to_pa, o \in 0 .. Slots - 1 :
          mem[va_to_pa[p] * Slots + o] = shown(p * Slots + o, seg)
    BY <1>1 DEF DataInv, Filled
  <2>. QED BY <2>1, <2>2, <2>3 DEF ProgramInPlace
<1>. QED BY <1>1, InitData, StepData, PTL DEF Spec

\* At every moment of initialize_hart the walk of Memory::translate_address
\* finds each page mapped so far at its place with the flags asked for, and
\* nothing for the other pages, if no page has bits the tables do not translate.
THEOREM WalkFindsPages ==
  ASSUME PagesTranslated PROVE Spec => []TablesAgree
PROOF
<1> DEFINE I == \E level, base : WalkInv(level, base)
<1>1. Init => I
  BY InitWalk
<1>2. I /\ [Next]_vars => I'
  BY StepWalk
<1>3. I => TablesAgree
  BY WalksAgree
<1>. HIDE DEF I
<1>. QED BY <1>1, <1>2, <1>3, PTL DEF Spec
=============================================================================
