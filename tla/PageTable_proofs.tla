-------------------------- MODULE PageTable_proofs --------------------------
(***************************************************************************)
(* What the modules about page tables need of the walk and of the numbers  *)
(* it is made of, for every number of levels and every size of a table:    *)
(* the recursive definitions of PageTable as equations, the page number    *)
(* parts of an address, and when two walks are the same.                   *)
(***************************************************************************)
EXTENDS PageTable, WellFoundedInduction, TLAPS

-----------------------------------------------------------------------------
(* Induction, for a property given as the set of the numbers that have it. *)

LEMMA Induction ==
  ASSUME NEW T, 0 \in T, \A n \in Nat : n \in T => n + 1 \in T
  PROVE  Nat \subseteq T
PROOF
<1> DEFINE W == Nat \ T
<1>1. SUFFICES ASSUME W # {} PROVE FALSE
  OBVIOUS
<1>2. PICK x \in W : \A y \in W : ~ (<<y, x>> \in OpToRel(<, Nat))
  BY <1>1, NatLessThanWellFounded, WFMin
<1>3. OpToRel(<, Nat) = {ss \in Nat \X Nat : ss[1] < ss[2]}
  BY DEF OpToRel
<1>4. x \in Nat /\ x # 0 /\ x - 1 \in W
  OBVIOUS
<1>5. <<x - 1, x>> \in {ss \in Nat \X Nat : ss[1] < ss[2]}
  <2>1. <<x - 1, x>> \in Nat \X Nat /\ <<x - 1, x>>[1] = x - 1 /\ <<x - 1, x>>[2] = x
    BY <1>4
  <2>. QED BY <2>1, <1>4
<1>. QED BY <1>2, <1>3, <1>4, <1>5

-----------------------------------------------------------------------------
(* Division. *)

\* A number is the quotient and the rest in one way only.
LEMMA QuotientUnique ==
  ASSUME NEW n \in Nat \ {0}, NEW q \in Nat, NEW r \in 0 .. n - 1
  PROVE  (q * n + r) \div n = q /\ (q * n + r) % n = r
OBVIOUS

LEMMA Quotient ==
  ASSUME NEW n \in Nat \ {0}, NEW x \in Nat
  PROVE  /\ x \div n \in Nat /\ x % n \in 0 .. n - 1
         /\ x = (x \div n) * n + (x % n)
PROOF
<1>1. x \div n \in Nat /\ x % n \in 0 .. n - 1
  OBVIOUS
<1>2. x = (x \div n) * n + (x % n)
  OBVIOUS
<1>. QED BY <1>1, <1>2

\* Dividing twice is dividing by the product.
LEMMA QuotientTwice ==
  ASSUME NEW x \in Nat, NEW n \in Nat \ {0}, NEW k \in Nat \ {0}
  PROVE  x \div (k * n) = (x \div n) \div k
PROOF
<1> DEFINE q == x \div n
           r == x % n
           p == q \div k
           o == q % k
<1>1. q \in Nat /\ r \in 0 .. n - 1 /\ x = q * n + r
  BY Quotient
<1>. HIDE DEF q, r
<1>2. p \in Nat /\ o \in 0 .. k - 1 /\ q = p * k + o
  BY <1>1, Quotient
<1>. HIDE DEF p, o
<1>3. k * n \in Nat \ {0} /\ o * n + r \in Nat
  BY <1>1, <1>2
<1>4. o * n + r < k * n
  <2>1. o * n + n <= k * n
    BY <1>2
  <2>. QED BY <2>1, <1>1, <1>2, <1>3
<1>5. x = p * (k * n) + (o * n + r)
  <2>1. (p * k + o) * n = p * (k * n) + o * n
    BY <1>2
  <2>. QED BY <2>1, <1>1, <1>2
<1>6. x \div (k * n) = p
  <2> DEFINE w == k * n
             s == o * n + r
  <2>1. w \in Nat \ {0} /\ s \in 0 .. w - 1 /\ x = p * w + s
    BY <1>3, <1>4, <1>5
  <2>. HIDE DEF w, s
  <2>2. x \div w = p
    BY <1>2, <2>1, QuotientUnique
  <2>. QED BY <2>2 DEF w
<1>. QED BY <1>6 DEF p, q

-----------------------------------------------------------------------------
(* What a level spans. *)

\* The recursive function span exists, so it satisfies its definition.
LEMMA SpanDef == span = [n \in 0 .. Levels + 1 |-> IF n = 0 THEN 1 ELSE Slots * span[n - 1]]
PROOF
<1> DEFINE G(k) == \E f : f = [n \in 0 .. k |-> IF n = 0 THEN 1 ELSE Slots * f[n - 1]]
           T == {k \in Nat : G(k)}
<1>1. G(0)
  <2>1. [n \in 0 .. 0 |-> 1] =
          [n \in 0 .. 0 |-> IF n = 0 THEN 1 ELSE Slots * [m \in 0 .. 0 |-> 1][n - 1]]
    OBVIOUS
  <2>. QED BY <2>1
<1>2. ASSUME NEW k \in Nat, G(k) PROVE G(k + 1)
  <2>1. PICK f : f = [n \in 0 .. k |-> IF n = 0 THEN 1 ELSE Slots * f[n - 1]]
    BY <1>2
  <2> DEFINE g == [n \in 0 .. k + 1 |-> IF n <= k THEN f[n] ELSE Slots * f[k]]
  <2>2. ASSUME NEW n \in 0 .. k + 1 PROVE g[n] = IF n = 0 THEN 1 ELSE Slots * g[n - 1]
    <3>1. CASE n = 0
      BY <2>1, <3>1
    <3>2. CASE n # 0 /\ n <= k
      <4>1. n \in 0 .. k /\ n - 1 \in 0 .. k /\ n - 1 <= k /\ n - 1 \in 0 .. k + 1
        BY <3>2
      <4>2. g[n] = f[n] /\ g[n - 1] = f[n - 1]
        BY <4>1, <3>2
      <4>. QED BY <4>1, <4>2, <2>1, <3>2
    <3>3. CASE n = k + 1
      <4>1. n - 1 = k /\ k \in 0 .. k + 1 /\ ~(n <= k) /\ n # 0
        BY <3>3
      <4>. QED BY <4>1
    <3>. QED BY <3>1, <3>2, <3>3
  <2>3. g = [n \in 0 .. k + 1 |-> IF n = 0 THEN 1 ELSE Slots * g[n - 1]]
    BY <2>2
  <2>. QED BY <2>3
<1>. HIDE DEF G
<1>3. 0 \in T /\ \A k \in Nat : k \in T => k + 1 \in T
  BY <1>1, <1>2
<1>. HIDE DEF T
<1>4. Levels + 1 \in T
  BY <1>3, Induction, PageTableAssumption
<1>5. G(Levels + 1)
  BY <1>4 DEF T
<1>. QED BY <1>5 DEF span, G

LEMMA SpanNext ==
  /\ span[0] = 1
  /\ \A n \in 0 .. Levels : span[n + 1] = Slots * span[n]
PROOF
<1>. USE PageTableAssumption
<1>1. 0 \in 0 .. Levels + 1
  OBVIOUS
<1>2. ASSUME NEW n \in 0 .. Levels PROVE span[n + 1] = Slots * span[n]
  <2>1. n + 1 \in 0 .. Levels + 1 /\ n + 1 # 0 /\ (n + 1) - 1 = n
    OBVIOUS
  <2>. QED BY <2>1, SpanDef
<1>. QED BY <1>1, <1>2, SpanDef

LEMMA SpanType == \A n \in 0 .. Levels + 1 : span[n] \in Nat \ {0}
PROOF
<1>. USE PageTableAssumption
<1> DEFINE T == {n \in Nat : n <= Levels + 1 => span[n] \in Nat \ {0}}
<1>1. 0 \in T
  BY SpanNext
<1>2. ASSUME NEW n \in Nat, n \in T PROVE n + 1 \in T
  <2>1. SUFFICES ASSUME n + 1 <= Levels + 1 PROVE span[n + 1] \in Nat \ {0}
    OBVIOUS
  <2>2. n \in 0 .. Levels /\ n <= Levels + 1
    BY <2>1
  <2>3. span[n] \in Nat \ {0} /\ span[n + 1] = Slots * span[n]
    BY <1>2, <2>2, SpanNext
  <2>. QED BY <2>3
<1>. HIDE DEF T
<1>3. Nat \subseteq T
  BY <1>1, <1>2, Induction
<1>. QED BY <1>3 DEF T

\* What a level spans is a multiple of what a lower one does.
LEMMA SpanMultiple ==
  \A n \in 0 .. Levels : \E c \in Nat \ {0} : span[Levels] = c * span[n]
PROOF
<1>. USE PageTableAssumption
<1> DEFINE T == {k \in Nat : k <= Levels => \E c \in Nat \ {0} : span[Levels] = c * span[Levels - k]}
<1>1. 0 \in T
  <2>1. span[Levels] = 1 * span[Levels - 0]
    BY SpanType
  <2>. QED BY <2>1
<1>2. ASSUME NEW k \in Nat, k \in T PROVE k + 1 \in T
  <2>1. SUFFICES ASSUME k + 1 <= Levels
                 PROVE  \E c \in Nat \ {0} : span[Levels] = c * span[Levels - (k + 1)]
    OBVIOUS
  <2>2. PICK c \in Nat \ {0} : span[Levels] = c * span[Levels - k]
    BY <1>2, <2>1
  <2> DEFINE n == Levels - (k + 1)
  <2>3. n \in 0 .. Levels /\ n + 1 = Levels - k /\ n \in 0 .. Levels + 1
    BY <2>1
  <2>. HIDE DEF n
  <2>4. span[n + 1] = Slots * span[n] /\ span[n] \in Nat
    BY <2>3, SpanNext, SpanType
  <2>5. c * (Slots * span[n]) = (c * Slots) * span[n] /\ c * Slots \in Nat \ {0}
    BY <2>4
  <2>. QED BY <2>2, <2>3, <2>4, <2>5 DEF n
<1>. HIDE DEF T
<1>3. Nat \subseteq T
  BY <1>1, <1>2, Induction
<1>4. ASSUME NEW n \in 0 .. Levels PROVE \E c \in Nat \ {0} : span[Levels] = c * span[n]
  <2>1. Levels - n \in T /\ Levels - n <= Levels /\ Levels - (Levels - n) = n
    BY <1>3
  <2>. QED BY <2>1 DEF T
<1>. QED BY <1>4

-----------------------------------------------------------------------------
(* The parts of an address. *)

LEMMA VpnType ==
  ASSUME NEW va \in Nat, NEW l \in 0 .. Levels - 1
  PROVE  get_vpn(va, l) \in 0 .. Slots - 1
PROOF
<1>. USE PageTableAssumption
<1> DEFINE w == span[l + 1]
<1>1. w \in Nat \ {0}
  BY SpanType
<1>. HIDE DEF w
<1>2. va \div w \in Nat
  BY <1>1
<1>3. (va \div w) % Slots \in 0 .. Slots - 1
  BY <1>2
<1>. QED BY <1>3 DEF get_vpn, w

\* The parts of the page number are its digits.
LEMMA VpnOfPage ==
  ASSUME NEW p \in Nat, NEW l \in 0 .. Levels - 1
  PROVE  /\ p \div span[l] \in Nat
         /\ p \div span[l + 1] \in Nat
         /\ get_vpn(p * Slots, l) = (p \div span[l]) % Slots
         /\ p \div span[l] = (p \div span[l + 1]) * Slots + get_vpn(p * Slots, l)
PROOF
<1>. USE PageTableAssumption
<1> DEFINE s == span[l]
           q == p \div s
<1>1. s \in Nat \ {0} /\ span[l + 1] = Slots * s /\ Slots \in Nat \ {0}
  BY SpanType, SpanNext
<1>. HIDE DEF s
<1>2. q \in Nat
  BY <1>1, Quotient
<1>3. p \div span[l + 1] = q \div Slots
  <2>1. p \div (Slots * s) = (p \div s) \div Slots
    BY <1>1, QuotientTwice
  <2>. QED BY <1>1, <2>1
<1>4. (p * Slots) \div span[l + 1] = q
  <2>1. p * Slots \in Nat /\ Slots * s = s * Slots
    BY <1>1
  <2>2. (p * Slots) \div (s * Slots) = ((p * Slots) \div Slots) \div s
    BY <1>1, <2>1, QuotientTwice
  <2>3. (p * Slots) \div Slots = p
    <3>1. p * Slots = p * Slots + 0 /\ 0 \in 0 .. Slots - 1
      BY <2>1
    <3>. QED BY <3>1, QuotientUnique
  <2>. QED BY <1>1, <2>1, <2>2, <2>3
<1>. HIDE DEF q
<1>5. q = (q \div Slots) * Slots + (q % Slots) /\ q \div Slots \in Nat
  BY <1>2, Quotient
<1>. QED BY <1>2, <1>3, <1>4, <1>5 DEF get_vpn, q, s

\* No digit is lost: a page number of the translated width has none beyond
\* those of the levels.
LEMMA PageWithin ==
  ASSUME NEW p \in 0 .. span[Levels] - 1
  PROVE  p \div span[Levels] = 0
PROOF
<1> DEFINE w == span[Levels]
<1>1. w \in Nat \ {0} /\ p \in 0 .. w - 1
  BY SpanType, PageTableAssumption
<1>. HIDE DEF w
<1>2. p = 0 * w + p
  BY <1>1
<1>3. p \div w = 0
  BY <1>1, <1>2, QuotientUnique
<1>. QED BY <1>3 DEF w

LEMMA WidthLemma == Width \div Slots = span[Levels] /\ span[Levels] \in Nat \ {0}
PROOF
<1>. USE PageTableAssumption
<1> DEFINE w == span[Levels]
<1>1. w \in Nat \ {0} /\ span[Levels + 1] = Slots * w
  BY SpanType, SpanNext
<1>. HIDE DEF w
<1>2. Slots * w = w * Slots + 0 /\ 0 \in 0 .. Slots - 1
  BY <1>1
<1>3. (Slots * w) \div Slots = w
  BY <1>1, <1>2, QuotientUnique
<1>. QED BY <1>1, <1>3 DEF Width, w

\* The page of an address, without the bits above the translated ones.
translated_page(va) == (va \div Slots) % span[Levels]

\* An address and the first one of its page are told apart by no level.
LEMMA VpnOfAddress ==
  ASSUME NEW va \in Nat
  PROVE  /\ translated_page(va) \in 0 .. Width \div Slots - 1
         /\ \A l \in 0 .. Levels - 1 : get_vpn(va, l) = get_vpn(translated_page(va) * Slots, l)
PROOF
<1>. USE PageTableAssumption
<1> DEFINE L == span[Levels]
           q == va \div Slots
           k == q \div L
           r == q % L
<1>1. L \in Nat \ {0} /\ Width \div Slots = L
  BY WidthLemma
<1>2. q \in Nat
  BY Quotient
<1>3. k \in Nat /\ r \in 0 .. L - 1 /\ q = k * L + r
  BY <1>1, <1>2, Quotient
<1>4. translated_page(va) = r
  BY DEF translated_page
<1>. HIDE DEF L, q, k, r
<1>5. ASSUME NEW l \in 0 .. Levels - 1
      PROVE  get_vpn(va, l) = get_vpn(r * Slots, l)
  <2> DEFINE s == span[l]
             t == r \div s
  <2>1. s \in Nat \ {0} /\ span[l + 1] = Slots * s
    BY SpanType, SpanNext
  <2>2. PICK c \in Nat \ {0} : L = c * span[l + 1]
    BY SpanMultiple DEF L
  <2>3. get_vpn(r * Slots, l) = t % Slots
    BY <1>1, <1>3, VpnOfPage
  <2>. HIDE DEF s
  <2>4. va \div span[l + 1] = q \div s
    <3>1. Slots * s = s * Slots
      BY <2>1
    <3>2. va \div (s * Slots) = (va \div Slots) \div s
      BY <2>1, QuotientTwice
    <3>. QED BY <2>1, <3>1, <3>2 DEF q
  <2>5. t \in Nat /\ r % s \in 0 .. s - 1 /\ r = t * s + (r % s)
    <3>1. r \in Nat
      BY <1>1, <1>3
    <3>. QED BY <2>1, <3>1, Quotient
  <2>. HIDE DEF t
  <2>6. q = ((k * c) * Slots + t) * s + (r % s)
    <3>1. k * L = ((k * c) * Slots) * s
      <4>1. k * (c * (Slots * s)) = ((k * c) * Slots) * s
        BY <1>3, <2>1
      <4>. QED BY <4>1, <2>1, <2>2
    <3> DEFINE n == (k * c) * Slots
    <3>2. n \in Nat
      BY <1>3
    <3>. HIDE DEF n
    <3>3. q = n * s + (t * s + (r % s))
      BY <3>1, <1>3, <2>5 DEF n
    <3>4. n * s + (t * s + (r % s)) = (n + t) * s + (r % s)
      BY <3>2, <2>1, <2>5
    <3>. QED BY <3>3, <3>4 DEF n
  <2>7. k * c \in Nat /\ (k * c) * Slots + t \in Nat
    BY <1>3, <2>5
  <2>8. q \div s = (k * c) * Slots + t
    BY <2>1, <2>5, <2>6, <2>7, QuotientUnique
  <2>9. ((k * c) * Slots + t) % Slots = t % Slots
    <3> DEFINE u == t \div Slots
               v == t % Slots
    <3>1. u \in Nat /\ v \in 0 .. Slots - 1 /\ t = u * Slots + v
      BY <2>5, Quotient
    <3>. HIDE DEF u, v
    <3>2. (k * c) * Slots + t = (k * c + u) * Slots + v
      BY <2>7, <3>1
    <3>3. ((k * c + u) * Slots + v) % Slots = v
      <4>1. k * c + u \in Nat /\ Slots \in Nat \ {0}
        BY <2>7, <3>1
      <4>. QED BY <3>1, <4>1, QuotientUnique
    <3>. QED BY <3>2, <3>3 DEF v
  <2>. QED BY <2>3, <2>4, <2>8, <2>9 DEF get_vpn
<1>. QED BY <1>1, <1>3, <1>4, <1>5

-----------------------------------------------------------------------------
(* The walk. *)

\* What the entry at the place at of a table of level i gives.
outcome(m, va, i, at) ==
  IF ~m[at].V \/ is_rwx_reserved(m[at]) \/ m[at].reserved THEN NoLeaf
  ELSE IF ~is_pointer_to_next_level_pte(m[at]) THEN [level |-> i, at |-> at]
  ELSE IF i = 0 THEN NoLeaf
  ELSE descend(m, va)[i - 1][m[at].ppn]

\* The recursive function of the walk exists, so it satisfies its definition.
LEMMA WalkDef ==
  ASSUME NEW m, NEW va
  PROVE  descend(m, va) = [i \in 0 .. Levels - 1 |-> [a \in Nat |->
           LET at == a * Slots + get_vpn(va, i)
               pte == m[at]
           IN  IF ~pte.V \/ is_rwx_reserved(pte) \/ pte.reserved THEN NoLeaf
               ELSE IF ~is_pointer_to_next_level_pte(pte) THEN [level |-> i, at |-> at]
               ELSE IF i = 0 THEN NoLeaf
               ELSE descend(m, va)[i - 1][pte.ppn]]]
PROOF
<1> DEFINE B(f, i) == [a \in Nat |->
             LET at == a * Slots + get_vpn(va, i)
                 pte == m[at]
             IN  IF ~pte.V \/ is_rwx_reserved(pte) \/ pte.reserved THEN NoLeaf
                 ELSE IF ~is_pointer_to_next_level_pte(pte) THEN [level |-> i, at |-> at]
                 ELSE IF i = 0 THEN NoLeaf
                 ELSE f[i - 1][pte.ppn]]
           G(k) == \E f : f = [i \in 0 .. k |-> B(f, i)]
           T == {k \in Nat : G(k)}
<1>1. G(0)
  <2> DEFINE f == [i \in 0 .. 0 |-> B(<< >>, i)]
  <2>1. B(<< >>, 0) = B(f, 0)
    OBVIOUS
  <2>. HIDE DEF B
  <2>2. f = [i \in 0 .. 0 |-> B(f, i)]
    BY <2>1
  <2>. HIDE DEF f
  <2>. QED BY <2>2
<1>2. ASSUME NEW k \in Nat, G(k) PROVE G(k + 1)
  <2>1. PICK f : f = [i \in 0 .. k |-> B(f, i)]
    BY <1>2
  <2> DEFINE g == [i \in 0 .. k + 1 |-> IF i <= k THEN f[i] ELSE B(f, k + 1)]
  <2>2. ASSUME NEW i \in 0 .. k + 1 PROVE g[i] = B(g, i)
    <3>1. g[i] = B(f, i)
      <4>. HIDE DEF B
      <4>1. CASE i <= k
        BY <4>1, <2>1
      <4>2. CASE i = k + 1
        BY <4>2
      <4>. QED BY <4>1, <4>2
    <3>2. i # 0 => i - 1 \in 0 .. k /\ i - 1 \in 0 .. k + 1 /\ i - 1 <= k
      OBVIOUS
    <3>3. i # 0 => g[i - 1] = f[i - 1]
      BY <3>2
    <3>. HIDE DEF g
    <3>4. B(f, i) = B(g, i)
      BY <3>3
    <3>. QED BY <3>1, <3>4
  <2>. HIDE DEF B
  <2>3. g = [i \in 0 .. k + 1 |-> B(g, i)]
    BY <2>2
  <2>. HIDE DEF g
  <2>. QED BY <2>3
<1>. HIDE DEF G
<1>3. 0 \in T /\ \A k \in Nat : k \in T => k + 1 \in T
  BY <1>1, <1>2
<1>. HIDE DEF T
<1>4. Levels - 1 \in T
  BY <1>3, Induction, PageTableAssumption
<1>5. G(Levels - 1)
  BY <1>4 DEF T
<1>. QED BY <1>5 DEF descend, G

LEMMA WalkFunction ==
  ASSUME NEW m, NEW va
  PROVE  descend(m, va) = [i \in 0 .. Levels - 1 |-> [a \in Nat |->
                            outcome(m, va, i, a * Slots + get_vpn(va, i))]]
PROOF
<1> DEFINE B(i, a) == LET at == a * Slots + get_vpn(va, i)
                          pte == m[at]
                      IN  IF ~pte.V \/ is_rwx_reserved(pte) \/ pte.reserved THEN NoLeaf
                          ELSE IF ~is_pointer_to_next_level_pte(pte) THEN [level |-> i, at |-> at]
                          ELSE IF i = 0 THEN NoLeaf
                          ELSE descend(m, va)[i - 1][pte.ppn]
<1>1. descend(m, va) = [i \in 0 .. Levels - 1 |-> [a \in Nat |-> B(i, a)]]
  BY WalkDef
<1>2. \A i, a : B(i, a) = outcome(m, va, i, a * Slots + get_vpn(va, i))
  BY DEF outcome
<1>. HIDE DEF B
<1>. QED BY <1>1, <1>2

LEMMA WalkStep ==
  ASSUME NEW m, NEW va, NEW i \in 0 .. Levels - 1, NEW a \in Nat
  PROVE  descend(m, va)[i][a] = outcome(m, va, i, a * Slots + get_vpn(va, i))
BY WalkFunction

\* What an entry gives: nothing, a leaf, or what is found from its table on.
LEMMA FoundLemma ==
  ASSUME NEW m, NEW va, NEW i \in Nat, NEW at, m[at] \in Word
  PROVE  \/ outcome(m, va, i, at) = NoLeaf
         \/ outcome(m, va, i, at) = [level |-> i, at |-> at] /\ m[at].V
         \/ /\ outcome(m, va, i, at) = descend(m, va)[i - 1][m[at].ppn]
            /\ m[at].V /\ is_pointer_to_next_level_pte(m[at]) /\ i # 0
PROOF
<1>1. m[at].V \in BOOLEAN /\ m[at].reserved \in BOOLEAN
  BY DEF Word
<1>. QED BY <1>1, Zenon DEF outcome

\* Entries that differ in their accessed and dirty bits give the same, unless
\* it is found further down.
LEMMA SameOutcome ==
  ASSUME NEW m, NEW n, NEW va, NEW i \in Nat, NEW at, m[at] \in Word, n[at] \in Word,
         m[at].V = n[at].V, m[at].R = n[at].R, m[at].W = n[at].W, m[at].E = n[at].E,
         m[at].reserved = n[at].reserved, m[at].ppn = n[at].ppn
  PROVE  \/ outcome(m, va, i, at) = outcome(n, va, i, at)
         \/ /\ outcome(m, va, i, at) = descend(m, va)[i - 1][m[at].ppn]
            /\ outcome(n, va, i, at) = descend(n, va)[i - 1][m[at].ppn]
            /\ m[at].V /\ is_pointer_to_next_level_pte(m[at]) /\ i # 0
PROOF
<1>1. /\ m[at].V \in BOOLEAN /\ m[at].R \in BOOLEAN /\ m[at].W \in BOOLEAN
      /\ m[at].E \in BOOLEAN /\ m[at].reserved \in BOOLEAN
  BY DEF Word
<1>. QED BY <1>1, Zenon DEF outcome, is_rwx_reserved, is_pointer_to_next_level_pte

\* Addresses no level tells apart have the same walk.
LEMMA WalkOfPage ==
  ASSUME NEW m, NEW va, NEW vb,
         \A l \in 0 .. Levels - 1 : get_vpn(va, l) = get_vpn(vb, l)
  PROVE  \A l \in 0 .. Levels - 1 : descend(m, va)[l] = descend(m, vb)[l]
PROOF
<1>. USE PageTableAssumption
<1> DEFINE T == {l \in Nat : l <= Levels - 1 => descend(m, va)[l] = descend(m, vb)[l]}
<1>1. ASSUME NEW l \in 0 .. Levels - 1, l # 0 => descend(m, va)[l - 1] = descend(m, vb)[l - 1]
      PROVE  descend(m, va)[l] = descend(m, vb)[l]
  <2>1. \A v : descend(m, v)[l] = [a \in Nat |-> outcome(m, v, l, a * Slots + get_vpn(v, l))]
    BY WalkFunction
  <2>2. \A a \in Nat : outcome(m, va, l, a * Slots + get_vpn(va, l))
                          = outcome(m, vb, l, a * Slots + get_vpn(vb, l))
    BY <1>1 DEF outcome
  <2>. QED BY <2>1, <2>2
<1>2. 0 \in T
  BY <1>1
<1>3. ASSUME NEW l \in Nat, l \in T PROVE l + 1 \in T
  <2>1. SUFFICES ASSUME l + 1 <= Levels - 1
                 PROVE  descend(m, va)[l + 1] = descend(m, vb)[l + 1]
    OBVIOUS
  <2>2. l + 1 \in 0 .. Levels - 1 /\ (l + 1) - 1 = l /\ l <= Levels - 1
    BY <2>1
  <2>. QED BY <1>1, <1>3, <2>2
<1>. HIDE DEF T
<1>4. Nat \subseteq T
  BY <1>2, <1>3, Induction
<1>. QED BY <1>4 DEF T
=============================================================================
