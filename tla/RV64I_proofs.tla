---------------------------- MODULE RV64I_proofs ----------------------------
(***************************************************************************)
(* Proofs about RV64I, for every program, and about the programs of        *)
(* Idioms, for all operands.                                               *)
(***************************************************************************)
EXTENDS Idioms, WellFoundedInduction, FiniteSetTheorems, TLAPS

-----------------------------------------------------------------------------
(* The operators stay within the width. *)

LEMMA PlusType ==
  ASSUME NEW n \in Nat, NEW a \in Bits(n), NEW b \in Bits(n)
  PROVE  plus(n, a, b) \in Bits(n)
<1>1. \A k \in Carries(n, a, b) : k \in 1 .. n
  BY DEF Carries
<1>2. ASSUME NEW k \in plus(n, a, b) PROVE k \in 0 .. n - 1
  <2>1. k # n /\ (k \in a \cup b \/ k \in Carries(n, a, b))
    BY DEF plus, xor
  <2>2. CASE k \in a \cup b
    BY <2>2 DEF Bits
  <2>3. CASE k \in 1 .. n
    BY <2>1, <2>3
  <2>. QED
    BY <1>1, <2>1, <2>2, <2>3
<1>. QED
  BY <1>2 DEF Bits

LEMMA DifferenceType ==
  ASSUME NEW n \in Nat, NEW a \in Bits(n), NEW b \in Bits(n)
  PROVE  difference(n, a, b) \in Bits(n)
<1>1. \A k \in Borrows(n, a, b) : k \in 1 .. n
  BY DEF Borrows
<1>2. ASSUME NEW k \in difference(n, a, b) PROVE k \in 0 .. n - 1
  <2>1. k # n /\ (k \in a \cup b \/ k \in Borrows(n, a, b))
    BY DEF difference, xor
  <2>2. CASE k \in a \cup b
    BY <2>2 DEF Bits
  <2>3. CASE k \in 1 .. n
    BY <2>1, <2>3
  <2>. QED
    BY <1>1, <2>1, <2>2, <2>3
<1>. QED
  BY <1>2 DEF Bits

LEMMA PlacesType ==
  ASSUME NEW w
  PROVE  places(w) \in 0 .. 63
BY DEF places, worth

LEMMA PlacesOfFive ==
  ASSUME NEW w, 5 \notin w
  PROVE  places(w) \in 0 .. 31
BY DEF places, worth

LEMMA ShiftAmountType ==
  ASSUME NEW id, NEW w
  PROVE  shift_amount(id, w) \in 0 .. 63
BY PlacesType DEF shift_amount

LEMMA ShrType ==
  ASSUME NEW m \in Nat, NEW w \in Bits(m), NEW n \in Nat
  PROVE  shr(w, n) \in Bits(m)
BY DEF shr, Bits

LEMMA BoolType ==
  ASSUME NEW P \in BOOLEAN
  PROVE  bool(P) \in DoubleWord
BY DEF bool, DoubleWord, Bits, XLEN

LEMMA SextWordType ==
  ASSUME NEW w \in SUBSET Int
  PROVE  sext_word(w) \in DoubleWord
BY DEF sext_word, sext, mask_bits, DoubleWord, Bits, XLEN

Arithmetic == RegReg \cup RegImm \cup RegRegW \cup RegImmW

LEMMA ResultType ==
  ASSUME NEW id \in Arithmetic, NEW l \in DoubleWord, NEW r \in DoubleWord
  PROVE  Result(id, l, r) \in DoubleWord
<1>. DEFINE n == shift_amount(id, r)
<1>1. n \in 0 .. 63
  BY ShiftAmountType
<1>. HIDE DEF n
<1>2. plus(XLEN, l, r) \in DoubleWord /\ difference(XLEN, l, r) \in DoubleWord
  BY PlusType, DifferenceType DEF DoubleWord, XLEN
<1>3. l \cap r \in DoubleWord /\ l \cup r \in DoubleWord /\ xor(l, r) \in DoubleWord
  BY DEF DoubleWord, Bits, xor
<1>4. bool(BelowSigned(XLEN, l, r)) \in DoubleWord /\ bool(less(l, r)) \in DoubleWord
  BY DEF bool, DoubleWord, Bits, XLEN
<1>5. shl(l, n) \cap (0 .. XLEN - 1) \in DoubleWord
  BY DEF DoubleWord, Bits
<1>6. shr(l, n) \in DoubleWord
  BY <1>1, ShrType DEF DoubleWord, XLEN
<1>7. shift_right_signed(l, n) \in DoubleWord
  <2>1. XLEN - n .. XLEN - 1 \in DoubleWord
    BY <1>1 DEF DoubleWord, Bits, XLEN
  <2>. QED
    BY <1>6, <2>1 DEF shift_right_signed, DoubleWord, Bits
<1>. QED
  BY <1>2, <1>3, <1>4, <1>5, <1>6, <1>7
     DEF Result, Arithmetic, RegReg, RegImm, RegRegW, RegImmW, n

-----------------------------------------------------------------------------
(* Type correctness. *)

\* What set_reg leaves is well-formed if what it writes is a word.
LEMMA SetRegOK ==
  ASSUME TypeOK, NEW r \in Reg, NEW w \in DoubleWord, set_reg(r, w)
  PROVE  gprs' \in [Reg -> DoubleWord] /\ gprs'[0] = {}
BY StartsAssumption DEF TypeOK, set_reg

LEMMA NextPcType ==
  ASSUME TypeOK
  PROVE  next_pc \in DoubleWord
<1>1. ILEN \in DoubleWord
  BY DEF ILEN, DoubleWord, Bits, XLEN
<1>. QED
  BY <1>1, PlusType DEF next_pc, TypeOK, DoubleWord, XLEN

LEMMA AtType ==
  ASSUME NEW i, TypeOK, Instruction(i)
  PROVE  at(i) \in 0 .. 504 /\ at(i) \in Nat
BY PlacesType DEF at

LEMMA LoadedType ==
  ASSUME NEW i, TypeOK, Instruction(i), Within(i),
         i.id \in {"lb", "lh", "lw", "ld", "lbu", "lhu", "lwu"}
  PROVE  /\ loaded(i) \in SUBSET (0 .. kNBits(i.id) - 1)
         /\ loaded(i) \in DoubleWord
         /\ sext(kNBits(i.id), kNBits(i.id), loaded(i)) \in DoubleWord
<1>. DEFINE n == kNBits(i.id)
<1>1. n \in {8, 16, 32, 64} /\ at(i) \in Nat
  BY AtType DEF kNBits
<1>2. loaded(i) \in SUBSET (0 .. n - 1)
  BY <1>1 DEF loaded, get_bits, mask_bits, shr, n
<1>3. loaded(i) \in DoubleWord
  BY <1>1, <1>2 DEF DoubleWord, Bits, XLEN
<1>. HIDE DEF n
<1>4. sext(n, n, loaded(i)) \in DoubleWord
  BY <1>1, <1>3 DEF sext, DoubleWord, Bits, XLEN
<1>. QED
  BY <1>2, <1>3, <1>4 DEF n

CodeOK == start \in Starts

\* Whatever the program, registers and memory keep their width and x0 is zero.
THEOREM TypeCorrect == Spec => []TypeOK
<1>1. Init => TypeOK /\ CodeOK
  BY StartsAssumption DEF Init, TypeOK, CodeOK
<1>2. TypeOK /\ CodeOK /\ [Next]_vars => (TypeOK /\ CodeOK)'
  <2>. SUFFICES ASSUME TypeOK, CodeOK, Next PROVE TypeOK'
    BY DEF TypeOK, CodeOK, Next, vars
  <2>. DEFINE i == code[pc]
  <2>1. Instruction(i)
    BY StartsAssumption DEF CodeOK, Next, code
  <2>. HIDE DEF i
  <2>2. i.rd \in Reg /\ get_reg(i.rs1) \in DoubleWord /\ get_reg(i.rs2) \in DoubleWord
        /\ i.imm \in DoubleWord
    BY <2>1 DEF Instruction, TypeOK, get_reg
  <2>3. next_pc \in DoubleWord /\ pc \in DoubleWord /\ cell \in DoubleWord
    BY NextPcType DEF TypeOK
  <2>4. plus(XLEN, pc, i.imm) \in DoubleWord
    BY <2>2, <2>3, PlusType DEF DoubleWord, XLEN
  <2>5. CASE exec_rvi_reg_reg(i)
    <3>1. Result(i.id, get_reg(i.rs1), get_reg(i.rs2)) \in DoubleWord
      BY <2>2, <2>5, ResultType DEF exec_rvi_reg_reg, Arithmetic
    <3>. QED
      BY <2>2, <2>3, <2>5, <3>1, SetRegOK DEF exec_rvi_reg_reg, TypeOK
  <2>6. CASE exec_rvi_reg_imm(i)
    <3>1. Result(i.id, get_reg(i.rs1), i.imm) \in DoubleWord
      BY <2>2, <2>6, ResultType DEF exec_rvi_reg_imm, Arithmetic
    <3>. QED
      BY <2>2, <2>3, <2>6, <3>1, SetRegOK DEF exec_rvi_reg_imm, TypeOK
  <2>7. CASE exec_rv64i_reg_reg(i)
    <3>1. Result(i.id, get_reg(i.rs1), get_reg(i.rs2)) \in SUBSET Int
      BY <2>2, <2>7, ResultType DEF exec_rv64i_reg_reg, Arithmetic, DoubleWord, Bits, XLEN
    <3>. QED
      BY <2>2, <2>3, <2>7, <3>1, SextWordType, SetRegOK DEF exec_rv64i_reg_reg, TypeOK
  <2>8. CASE exec_rv64i_reg_imm(i)
    <3>1. Result(i.id, get_reg(i.rs1), i.imm) \in SUBSET Int
      BY <2>2, <2>8, ResultType DEF exec_rv64i_reg_imm, Arithmetic, DoubleWord, Bits, XLEN
    <3>. QED
      BY <2>2, <2>3, <2>8, <3>1, SextWordType, SetRegOK DEF exec_rv64i_reg_imm, TypeOK
  <2>9. CASE exec_lui(i)
    BY <2>2, <2>3, <2>9, SetRegOK DEF exec_lui, TypeOK
  <2>10. CASE exec_auipc(i)
    BY <2>2, <2>3, <2>4, <2>10, SetRegOK DEF exec_auipc, TypeOK
  <2>11. CASE exec_jal(i)
    BY <2>2, <2>3, <2>4, <2>11, SetRegOK DEF exec_jal, TypeOK
  <2>12. CASE exec_jalr(i)
    <3>1. gprs' \in [Reg -> DoubleWord] /\ gprs'[0] = {}
      BY <2>2, <2>3, <2>12, SetRegOK DEF exec_jalr
    <3>2. gprs'[i.rs1] \in DoubleWord
      BY <2>1, <3>1 DEF Instruction
    <3>3. plus(XLEN, gprs'[i.rs1], i.imm) \ {0} \in DoubleWord
      BY <2>2, <3>2, PlusType DEF DoubleWord, Bits, XLEN
    <3>. QED
      BY <2>3, <2>12, <3>1, <3>3 DEF exec_jalr, TypeOK
  <2>13. CASE exec_cond_branch(i)
    BY <2>3, <2>4, <2>13 DEF exec_cond_branch, TypeOK
  <2>14. CASE exec_load(i)
    <3>1. sext(kNBits(i.id), kNBits(i.id), loaded(i)) \in DoubleWord
      BY <2>1, <2>14, LoadedType DEF exec_load
    <3>. QED
      BY <2>2, <2>3, <2>14, <3>1, SetRegOK DEF exec_load, TypeOK
  <2>15. CASE exec_uload(i)
    <3>1. loaded(i) \in DoubleWord
      BY <2>1, <2>15, LoadedType DEF exec_uload
    <3>. QED
      BY <2>2, <2>3, <2>15, <3>1, SetRegOK DEF exec_uload, TypeOK
  <2>16. CASE exec_store(i)
    <3>. DEFINE n == kNBits(i.id)
                w == mask_bits(get_reg(i.rs2), n - 1, 0)
    <3>1. n \in {8, 16, 32, 64} /\ at(i) \in Nat /\ at(i) + n <= 64
      BY <2>1, <2>16, AtType DEF exec_store, kNBits, Within, XLEN
    <3>2. w \in SUBSET (0 .. n - 1)
      BY <3>1 DEF mask_bits
    <3>3. cell' = (cell \ (at(i) .. at(i) + n - 1)) \cup shl(w, at(i))
      BY <2>16 DEF exec_store
    <3>. HIDE DEF n, w
    <3>4. shl(w, at(i)) \in DoubleWord
      BY <3>1, <3>2 DEF shl, DoubleWord, Bits, XLEN
    <3>5. cell' \in DoubleWord
      BY <2>3, <3>3, <3>4 DEF DoubleWord, Bits
    <3>. QED
      BY <2>3, <2>16, <3>5 DEF exec_store, TypeOK
  <2>. QED
    BY <2>5, <2>6, <2>7, <2>8, <2>9, <2>10, <2>11, <2>12, <2>13, <2>14, <2>15, <2>16
       DEF Next, i
<1>. QED
  BY <1>1, <1>2, PTL DEF Spec

-----------------------------------------------------------------------------
(* Words in doublewords. *)

\* The truncated and extended result is that of words if the low halves agree.
LEMMA ExtendedAgree ==
  ASSUME NEW w \in DoubleWord, NEW v \in Bits(32)
  PROVE  sext_word(w) = extended(v) <=> w \cap (0 .. 31) = v
<1>1. sext_word(w) = (w \cap (0 .. 31)) \cup {k \in 32 .. 63 : 31 \in w}
  BY DEF sext_word, sext, mask_bits, XLEN
<1>2. extended(v) = v \cup {k \in 32 .. 63 : 31 \in v}
  BY DEF extended
<1>3. v \in SUBSET (0 .. 31)
  BY DEF Bits
<1>4. ASSUME w \cap (0 .. 31) = v PROVE sext_word(w) = extended(v)
  BY <1>1, <1>2, <1>4
<1>5. ASSUME sext_word(w) = extended(v) PROVE w \cap (0 .. 31) = v
  <2>1. ASSUME NEW k \in 0 .. 31 PROVE k \in w <=> k \in v
    BY <1>1, <1>2, <1>5
  <2>. QED
    BY <1>3, <2>1
<1>. QED
  BY <1>4, <1>5

LEMMA SameLow ==
  ASSUME NEW w, NEW v \in Bits(32)
  PROVE  w \cap (0 .. 31) = v <=> \A k \in 0 .. 31 : k \in w <=> k \in v
<1>1. v \in SUBSET (0 .. 31)
  BY DEF Bits
<1>2. ASSUME \A k \in 0 .. 31 : k \in w <=> k \in v PROVE w \cap (0 .. 31) = v
  BY <1>1, <1>2
<1>. QED
  BY <1>2

\* A carry below position 32 comes from below: the low half of a sum is the sum
\* of the low halves.
LEMMA LowSum ==
  ASSUME NEW a \in DoubleWord, NEW b \in DoubleWord
  PROVE  plus(XLEN, a, b) \cap (0 .. 31) = plus(32, low(a), low(b))
<1>1. a \in SUBSET (0 .. 63) /\ b \in SUBSET (0 .. 63)
  BY DEF DoubleWord, Bits, XLEN
<1>2. ASSUME NEW k \in 0 .. 31
      PROVE  k \in Carries(XLEN, a, b) <=> k \in Carries(32, low(a), low(b))
  <2>1. ASSUME NEW j \in 0 .. 63, j < k
        PROVE  /\ j \in a \cap b <=> j \in low(a) \cap low(b)
               /\ (j + 1 .. k - 1) \subseteq a \cup b
                    <=> (j + 1 .. k - 1) \subseteq low(a) \cup low(b)
    BY <2>1 DEF low
  <2>2. low(a) \cap low(b) \in SUBSET (0 .. 63) /\ a \cap b \in SUBSET (0 .. 63)
    BY <1>1 DEF low
  <2>. QED
    BY <2>1, <2>2 DEF Carries, XLEN
<1>3. ASSUME NEW k \in 0 .. 31
      PROVE  k \in plus(XLEN, a, b) <=> k \in plus(32, low(a), low(b))
  BY <1>2 DEF plus, xor, low, XLEN
<1>4. plus(32, low(a), low(b)) \in SUBSET (0 .. 31)
  <2>1. low(a) \in Bits(32) /\ low(b) \in Bits(32)
    BY DEF low, Bits
  <2>. QED
    BY <2>1, PlusType DEF Bits
<1>. QED
  BY <1>3, <1>4

LEMMA LowDifference ==
  ASSUME NEW a \in DoubleWord, NEW b \in DoubleWord
  PROVE  difference(XLEN, a, b) \cap (0 .. 31) = difference(32, low(a), low(b))
<1>1. a \in SUBSET (0 .. 63) /\ b \in SUBSET (0 .. 63)
  BY DEF DoubleWord, Bits, XLEN
<1>2. ASSUME NEW k \in 0 .. 31
      PROVE  k \in Borrows(XLEN, a, b) <=> k \in Borrows(32, low(a), low(b))
  <2>1. ASSUME NEW j \in 0 .. 63, j < k
        PROVE  /\ j \in b \ a <=> j \in low(b) \ low(a)
               /\ (j + 1 .. k - 1) \cap (a \ b) = {}
                    <=> (j + 1 .. k - 1) \cap (low(a) \ low(b)) = {}
    BY <2>1 DEF low
  <2>2. low(b) \ low(a) \in SUBSET (0 .. 63) /\ b \ a \in SUBSET (0 .. 63)
    BY <1>1 DEF low
  <2>. QED
    BY <2>1, <2>2 DEF Borrows, XLEN
<1>3. ASSUME NEW k \in 0 .. 31
      PROVE  k \in difference(XLEN, a, b) <=> k \in difference(32, low(a), low(b))
  BY <1>2 DEF difference, xor, low, XLEN
<1>4. difference(32, low(a), low(b)) \in SUBSET (0 .. 31)
  <2>1. low(a) \in Bits(32) /\ low(b) \in Bits(32)
    BY DEF low, Bits
  <2>. QED
    BY <2>1, DifferenceType DEF Bits
<1>. QED
  BY <1>3, <1>4

\* The five bits the decoder leaves of an immediate shift are all there are.
Amounts(id) == IF id \in RegRegW \cup {"addiw"} THEN DoubleWord ELSE Bits(5)

LEMMA SameAmount ==
  ASSUME NEW id \in RegRegW \cup RegImmW, NEW b \in Amounts(id),
         id \notin {"addw", "addiw", "subw"}
  PROVE  shift_amount(id, b) = places(mask_bits(b, 4, 0))
<1>1. CASE id \in {"sllw", "srlw", "sraw"}
  BY <1>1 DEF shift_amount
<1>2. CASE id \in {"slliw", "srliw", "sraiw"}
  <2>1. b \in SUBSET (0 .. 4)
    BY <1>2 DEF Amounts, RegRegW, Bits
  <2>2. mask_bits(b, 5, 0) = mask_bits(b, 4, 0)
    BY <2>1 DEF mask_bits
  <2>. QED
    BY <1>2, <2>2 DEF shift_amount
<1>. QED
  BY <1>1, <1>2 DEF RegRegW, RegImmW

\* For all operands, the instructions on words compute what they should exactly
\* if the bits above the word that a right shift brings down are the right ones:
\* srlw and srliw need zeros there, where the other instructions leave copies of
\* the sign.
THEOREM WordsInDoubleWords ==
  ASSUME NEW id \in RegRegW \cup RegImmW, NEW a \in DoubleWord, NEW b \in Amounts(id)
  PROVE  sext_word(Result(id, a, b)) = extended(WordResult(id, a, b))
           <=> BitsAboveFit(id, a, b)
<1>. DEFINE n == places(mask_bits(b, 4, 0))
<1>1. n \in 0 .. 31
  BY PlacesOfFive DEF mask_bits
<1>2. a \in SUBSET (0 .. 63)
  BY DEF DoubleWord, Bits, XLEN
<1>. HIDE DEF n
<1>3. CASE id \in {"addw", "addiw"}
  <2>1. b \in DoubleWord
    BY <1>3 DEF Amounts, RegRegW
  <2>2. Result(id, a, b) = plus(XLEN, a, b) /\ WordResult(id, a, b) = plus(32, low(a), low(b))
    BY <1>3 DEF Result, WordResult
  <2>3. plus(XLEN, a, b) \in DoubleWord /\ plus(32, low(a), low(b)) \in Bits(32)
    <3>1. low(a) \in Bits(32) /\ low(b) \in Bits(32)
      BY DEF low, Bits
    <3>. QED
      BY <2>1, <3>1, PlusType DEF DoubleWord, XLEN
  <2>4. BitsAboveFit(id, a, b)
    BY <1>3 DEF BitsAboveFit
  <2>. QED
    BY <2>1, <2>2, <2>3, <2>4, LowSum, ExtendedAgree
<1>4. CASE id = "subw"
  <2>1. b \in DoubleWord
    BY <1>4 DEF Amounts, RegRegW
  <2>2. /\ Result(id, a, b) = difference(XLEN, a, b)
        /\ WordResult(id, a, b) = difference(32, low(a), low(b))
    BY <1>4 DEF Result, WordResult
  <2>3. difference(XLEN, a, b) \in DoubleWord /\ difference(32, low(a), low(b)) \in Bits(32)
    <3>1. low(a) \in Bits(32) /\ low(b) \in Bits(32)
      BY DEF low, Bits
    <3>. QED
      BY <2>1, <3>1, DifferenceType DEF DoubleWord, XLEN
  <2>4. BitsAboveFit(id, a, b)
    BY <1>4 DEF BitsAboveFit
  <2>. QED
    BY <2>1, <2>2, <2>3, <2>4, LowDifference, ExtendedAgree
<1>5. CASE id \in {"sllw", "slliw"}
  <2>. DEFINE w == shl(a, n) \cap (0 .. 63)
              v == {k \in 0 .. 31 : k - n \in low(a)}
  <2>1. Result(id, a, b) = w /\ WordResult(id, a, b) = v
    BY <1>5, SameAmount DEF Result, WordResult, XLEN, n
  <2>2. w \in DoubleWord /\ v \in Bits(32)
    BY DEF DoubleWord, Bits, XLEN
  <2>3. ASSUME NEW k \in 0 .. 31 PROVE k \in w <=> k \in v
    BY <1>1, <1>2 DEF shl, low
  <2>4. BitsAboveFit(id, a, b)
    BY <1>5 DEF BitsAboveFit
  <2>. QED
    BY <2>1, <2>2, <2>3, <2>4, ExtendedAgree
<1>6. CASE id \in {"srlw", "srliw"}
  <2>. DEFINE w == shr(a, n)
              v == {k \in 0 .. 31 : k + n \in low(a)}
  <2>1. Result(id, a, b) = w /\ WordResult(id, a, b) = v
    BY <1>6, SameAmount DEF Result, WordResult, n
  <2>2. w \in DoubleWord /\ v \in Bits(32)
    <3>1. w \in DoubleWord
      BY <1>1, ShrType DEF DoubleWord, XLEN
    <3>. QED
      BY <3>1 DEF Bits
  <2>3. ASSUME NEW k \in 0 .. 31 PROVE (k \in w <=> k + n \in a) /\ (k \in v <=> k + n \in a /\ k + n < 32)
    BY <1>1, <1>2 DEF shr, low
  <2>4. BitsAboveFit(id, a, b) <=> a \cap (32 .. 31 + n) = {}
    BY <1>6 DEF BitsAboveFit, n
  <2>. HIDE DEF w, v
  <2>5. w \cap (0 .. 31) = v <=> \A k \in 0 .. 31 : k \in w <=> k \in v
    BY <2>2, SameLow
  <2>6. ASSUME a \cap (32 .. 31 + n) = {}, NEW k \in 0 .. 31
        PROVE  k \in w <=> k \in v
    BY <1>1, <2>3, <2>6
  <2>7. ASSUME \A k \in 0 .. 31 : k \in w <=> k \in v, NEW m \in a \cap (32 .. 31 + n)
        PROVE  FALSE
    <3>1. m - n \in 0 .. 31 /\ (m - n) + n = m /\ ~(m < 32)
      BY <1>1, <2>7
    <3>. QED
      BY <2>3, <2>7, <3>1
  <2>. QED
    BY <2>1, <2>2, <2>4, <2>5, <2>6, <2>7, ExtendedAgree
<1>7. CASE id \in {"sraw", "sraiw"}
  <2>. DEFINE w == shift_right_signed(a, n)
              v == {k \in 0 .. 31 : IF k + n > 31 THEN 31 \in a ELSE k + n \in a}
              fit == IF 31 \in a THEN 32 .. 31 + n ELSE {}
  <2>1. Result(id, a, b) = w /\ WordResult(id, a, b) = v
    BY <1>7, SameAmount DEF Result, WordResult, n
  <2>2. w \in DoubleWord /\ v \in Bits(32)
    <3>1. shr(a, n) \in DoubleWord
      BY <1>1, ShrType DEF DoubleWord, XLEN
    <3>2. XLEN - n .. XLEN - 1 \in DoubleWord
      BY <1>1 DEF DoubleWord, Bits, XLEN
    <3>. QED
      BY <3>1, <3>2 DEF shift_right_signed, DoubleWord, Bits
  <2>3. ASSUME NEW k \in 0 .. 31
        PROVE  /\ k \in w <=> k + n \in a
               /\ k \in v <=> IF k + n > 31 THEN 31 \in a ELSE k + n \in a
    BY <1>1, <1>2 DEF shift_right_signed, shr, XLEN
  <2>4. BitsAboveFit(id, a, b) <=> a \cap (32 .. 31 + n) = fit
    BY <1>7 DEF BitsAboveFit, n
  <2>. HIDE DEF w, v
  <2>5. w \cap (0 .. 31) = v <=> \A k \in 0 .. 31 : k \in w <=> k \in v
    BY <2>2, SameLow
  <2>6. ASSUME a \cap (32 .. 31 + n) = fit, NEW k \in 0 .. 31
        PROVE  k \in w <=> k \in v
    <3>1. k + n > 31 => (k + n \in 32 .. 31 + n)
      BY <1>1
    <3>. QED
      BY <2>3, <2>6, <3>1
  <2>7. ASSUME \A k \in 0 .. 31 : k \in w <=> k \in v, NEW m \in 32 .. 31 + n
        PROVE  m \in a <=> 31 \in a
    <3>1. m - n \in 0 .. 31 /\ (m - n) + n = m /\ m > 31
      BY <1>1
    <3>. QED
      BY <2>3, <2>7, <3>1
  <2>8. (\A m \in 32 .. 31 + n : m \in a <=> 31 \in a) => a \cap (32 .. 31 + n) = fit
    OBVIOUS
  <2>. HIDE DEF fit
  <2>. QED
    BY <2>1, <2>2, <2>4, <2>5, <2>6, <2>7, <2>8, ExtendedAgree
<1>. QED
  BY <1>3, <1>4, <1>5, <1>6, <1>7 DEF RegRegW, RegImmW

-----------------------------------------------------------------------------
(* Numbers and addresses of programs. *)

LEMMA BitsOf ==
  ASSUME NEW n \in Nat
  PROVE  /\ Num(n) \subseteq 0 .. 11
         /\ 0 \in Num(n) <=> (n \div 1) % 2 = 1
         /\ 1 \in Num(n) <=> (n \div 2) % 2 = 1
         /\ 2 \in Num(n) <=> (n \div 4) % 2 = 1
         /\ 3 \in Num(n) <=> (n \div 8) % 2 = 1
         /\ 4 \in Num(n) <=> (n \div 16) % 2 = 1
         /\ 5 \in Num(n) <=> (n \div 32) % 2 = 1
         /\ 6 \in Num(n) <=> (n \div 64) % 2 = 1
         /\ 7 \in Num(n) <=> (n \div 128) % 2 = 1
         /\ 8 \in Num(n) <=> (n \div 256) % 2 = 1
         /\ 9 \in Num(n) <=> (n \div 512) % 2 = 1
         /\ 10 \in Num(n) <=> (n \div 1024) % 2 = 1
         /\ 11 \in Num(n) <=> (n \div 2048) % 2 = 1
<1>1. \A k \in 0 .. 11 : k \in Num(n) <=> (n \div Weight[k + 1]) % 2 = 1
  BY DEF Num
<1>2. 0 \in Num(n) <=> (n \div 1) % 2 = 1
  <2>1. Weight[0 + 1] = 1
    BY DEF Weight
  <2>. QED
    BY <1>1, <2>1
<1>3. 1 \in Num(n) <=> (n \div 2) % 2 = 1
  <2>1. Weight[1 + 1] = 2
    BY DEF Weight
  <2>. QED
    BY <1>1, <2>1
<1>4. 2 \in Num(n) <=> (n \div 4) % 2 = 1
  <2>1. Weight[2 + 1] = 4
    BY DEF Weight
  <2>. QED
    BY <1>1, <2>1
<1>5. 3 \in Num(n) <=> (n \div 8) % 2 = 1
  <2>1. Weight[3 + 1] = 8
    BY DEF Weight
  <2>. QED
    BY <1>1, <2>1
<1>6. 4 \in Num(n) <=> (n \div 16) % 2 = 1
  <2>1. Weight[4 + 1] = 16
    BY DEF Weight
  <2>. QED
    BY <1>1, <2>1
<1>7. 5 \in Num(n) <=> (n \div 32) % 2 = 1
  <2>1. Weight[5 + 1] = 32
    BY DEF Weight
  <2>. QED
    BY <1>1, <2>1
<1>8. 6 \in Num(n) <=> (n \div 64) % 2 = 1
  <2>1. Weight[6 + 1] = 64
    BY DEF Weight
  <2>. QED
    BY <1>1, <2>1
<1>9. 7 \in Num(n) <=> (n \div 128) % 2 = 1
  <2>1. Weight[7 + 1] = 128
    BY DEF Weight
  <2>. QED
    BY <1>1, <2>1
<1>10. 8 \in Num(n) <=> (n \div 256) % 2 = 1
  <2>1. Weight[8 + 1] = 256
    BY DEF Weight
  <2>. QED
    BY <1>1, <2>1
<1>11. 9 \in Num(n) <=> (n \div 512) % 2 = 1
  <2>1. Weight[9 + 1] = 512
    BY DEF Weight
  <2>. QED
    BY <1>1, <2>1
<1>12. 10 \in Num(n) <=> (n \div 1024) % 2 = 1
  <2>1. Weight[10 + 1] = 1024
    BY DEF Weight
  <2>. QED
    BY <1>1, <2>1
<1>13. 11 \in Num(n) <=> (n \div 2048) % 2 = 1
  <2>1. Weight[11 + 1] = 2048
    BY DEF Weight
  <2>. QED
    BY <1>1, <2>1
<1>. QED
  BY <1>2, <1>3, <1>4, <1>5, <1>6, <1>7, <1>8, <1>9, <1>10, <1>11, <1>12, <1>13 DEF Num

LEMMA Numbers ==
  /\ Num(0) = {}
  /\ Num(1) = {0}
  /\ Num(2) = {1}
  /\ Num(4) = {2}
  /\ Num(8) = {3}
  /\ Num(12) = {2, 3}
  /\ Num(16) = {4}
  /\ Num(20) = {2, 4}
  /\ Num(32) = {5}
  /\ Num(63) = 0 .. 5
  /\ Num(255) = 0 .. 7
<1>1. Num(0) = {}
  BY BitsOf
<1>2. Num(1) = {0}
  BY BitsOf
<1>3. Num(2) = {1}
  BY BitsOf
<1>4. Num(4) = {2}
  BY BitsOf
<1>5. Num(8) = {3}
  BY BitsOf
<1>6. Num(12) = {2, 3}
  BY BitsOf
<1>7. Num(16) = {4}
  BY BitsOf
<1>8. Num(20) = {2, 4}
  BY BitsOf
<1>9. Num(32) = {5}
  BY BitsOf
<1>10. Num(63) = 0 .. 5
  BY BitsOf
<1>11. Num(255) = 0 .. 7
  BY BitsOf
<1>. QED
  BY <1>1, <1>2, <1>3, <1>4, <1>5, <1>6, <1>7, <1>8, <1>9, <1>10, <1>11

LEMMA SameBits ==
  ASSUME NEW n, NEW a \in Bits(n), NEW b \in Bits(n),
         \A k \in 0 .. n - 1 : k \in a <=> k \in b
  PROVE  a = b
BY DEF Bits

\* Adding a bit clears the ones from it on and sets the zero behind them.
LEMMA PlusBit ==
  ASSUME NEW n \in Nat, NEW w \in Bits(n), NEW k \in 0 .. n - 1, NEW m \in k .. n - 1,
         k .. m - 1 \subseteq w, m \notin w
  PROVE  plus(n, w, {k}) = (w \ (k .. m - 1)) \cup {m}
<1>. DEFINE C == Carries(n, w, {k})
<1>1. ASSUME NEW j \in 0 .. n PROVE j \in C <=> (j \in k + 1 .. m)
  <2>1. CASE k \in w
    <3>1. j \in C <=> j \in 1 .. n /\ k < j /\ (k + 1 .. j - 1) \subseteq w
      BY <2>1 DEF Carries
    <3>2. ASSUME j > m PROVE m \in k + 1 .. j - 1
      BY <2>1, <3>2
    <3>. QED
      BY <3>1, <3>2
  <2>2. CASE k \notin w
    BY <2>2 DEF Carries
  <2>. QED
    BY <2>1, <2>2
<1>2. ASSUME NEW j \in 0 .. n - 1
      PROVE  j \in plus(n, w, {k}) <=> j \in (w \ (k .. m - 1)) \cup {m}
  <2>1. j \in plus(n, w, {k}) <=> ((j \in w <=> j # k) <=> j \notin k + 1 .. m)
    BY <1>1 DEF plus, xor
  <2>. QED
    BY <2>1
<1>3. (w \ (k .. m - 1)) \cup {m} \in Bits(n) /\ {k} \in Bits(n)
  BY DEF Bits
<1>4. plus(n, w, {k}) \in Bits(n)
  BY <1>3, PlusType
<1>. QED
  BY <1>2, <1>3, <1>4, SameBits

LEMMA PlusDisjoint ==
  ASSUME NEW n \in Nat, NEW a \in Bits(n), NEW b \in Bits(n), a \cap b = {}
  PROVE  plus(n, a, b) = a \cup b
<1>1. Carries(n, a, b) = {}
  BY DEF Carries
<1>2. a \cup b \in Bits(n) /\ plus(n, a, b) \in Bits(n)
  BY PlusType DEF Bits
<1>3. ASSUME NEW k \in 0 .. n - 1 PROVE k \in plus(n, a, b) <=> k \in a \cup b
  BY <1>1 DEF plus, xor
<1>. QED
  BY <1>2, <1>3, SameBits

LEMMA Addresses ==
  /\ Address(Base, 1) = {12, 31} /\ Address(Base, 2) = {2, 12, 31}
  /\ Address(Base, 3) = {3, 12, 31} /\ Address(Base, 4) = {2, 3, 12, 31}
  /\ Address(Base, 5) = {4, 12, 31} /\ Address(Base, 6) = {2, 4, 12, 31}
<1>1. ASSUME NEW a \in SUBSET {0, 1, 2, 3, 4, 5} PROVE plus(XLEN, Base, a) = a \cup {12, 31}
  <2>1. a \in Bits(64) /\ Base \in Bits(64) /\ Base \cap a = {}
    BY DEF Bits, Base
  <2>. QED
    BY <2>1, PlusDisjoint DEF XLEN, Base
<1>2. 4 * (1 - 1) = 0 /\ 4 * (2 - 1) = 4 /\ 4 * (3 - 1) = 8 /\ 4 * (4 - 1) = 12
      /\ 4 * (5 - 1) = 16 /\ 4 * (6 - 1) = 20
  OBVIOUS
<1>3. Address(Base, 1) = {12, 31} /\ Address(Base, 2) = {2, 12, 31}
  BY <1>1, <1>2, Numbers DEF Address
<1>4. Address(Base, 3) = {3, 12, 31} /\ Address(Base, 4) = {2, 3, 12, 31}
  BY <1>1, <1>2, Numbers DEF Address
<1>5. Address(Base, 5) = {4, 12, 31} /\ Address(Base, 6) = {2, 4, 12, 31}
  BY <1>1, <1>2, Numbers DEF Address
<1>. QED
  BY <1>3, <1>4, <1>5

LEMMA AddressesDiffer ==
  ASSUME NEW i \in 1 .. 6, NEW j \in 1 .. 6, i # j
  PROVE  Address(Base, i) # Address(Base, j)
<1>1. /\ 2 \in Address(Base, i) <=> i \in {2, 4, 6}
      /\ 3 \in Address(Base, i) <=> i \in {3, 4}
      /\ 4 \in Address(Base, i) <=> i \in {5, 6}
  BY Addresses
<1>2. /\ 2 \in Address(Base, j) <=> j \in {2, 4, 6}
      /\ 3 \in Address(Base, j) <=> j \in {3, 4}
      /\ 4 \in Address(Base, j) <=> j \in {5, 6}
  BY Addresses
<1>. QED
  BY <1>1, <1>2

LEMMA NextAddress ==
  ASSUME NEW j \in 1 .. 5
  PROVE  plus(XLEN, Address(Base, j), ILEN) = Address(Base, j + 1)
<1>1. {12, 31} \in Bits(64) /\ {2, 12, 31} \in Bits(64) /\ {3, 12, 31} \in Bits(64)
      /\ {2, 3, 12, 31} \in Bits(64) /\ {4, 12, 31} \in Bits(64)
  BY DEF Bits
<1>2. plus(64, {12, 31}, {2}) = {2, 12, 31}
  BY <1>1, PlusBit
<1>3. plus(64, {2, 12, 31}, {2}) = {3, 12, 31}
  <2>1. plus(64, {2, 12, 31}, {2}) = ({2, 12, 31} \ (2 .. 3 - 1)) \cup {3}
    BY <1>1, PlusBit
  <2>. QED BY <2>1
<1>4. plus(64, {3, 12, 31}, {2}) = {2, 3, 12, 31}
  BY <1>1, PlusBit
<1>5. plus(64, {2, 3, 12, 31}, {2}) = {4, 12, 31}
  <2>1. plus(64, {2, 3, 12, 31}, {2}) = ({2, 3, 12, 31} \ (2 .. 4 - 1)) \cup {4}
    BY <1>1, PlusBit
  <2>. QED BY <2>1
<1>6. plus(64, {4, 12, 31}, {2}) = {2, 4, 12, 31}
  BY <1>1, PlusBit
<1>7. j \in {1, 2, 3, 4, 5} /\ 1 + 1 = 2 /\ 2 + 1 = 3 /\ 3 + 1 = 4 /\ 4 + 1 = 5 /\ 5 + 1 = 6
  OBVIOUS
<1>8. CASE j = 1
  BY <1>2, <1>7, <1>8, Addresses DEF XLEN, ILEN
<1>9. CASE j = 2
  BY <1>3, <1>7, <1>9, Addresses DEF XLEN, ILEN
<1>10. CASE j = 3
  BY <1>4, <1>7, <1>10, Addresses DEF XLEN, ILEN
<1>11. CASE j = 4
  BY <1>5, <1>7, <1>11, Addresses DEF XLEN, ILEN
<1>12. CASE j = 5
  BY <1>6, <1>7, <1>12, Addresses DEF XLEN, ILEN
<1>. QED
  BY <1>7, <1>8, <1>9, <1>10, <1>11, <1>12

LEMMA CodeAt ==
  ASSUME NEW s, NEW n \in 1 .. 5, DOMAIN s = 1 .. n
  PROVE  /\ DOMAIN Code(Base, s) = {Address(Base, j) : j \in 1 .. n}
         /\ \A j \in 1 .. n : Code(Base, s)[Address(Base, j)] = s[j]
<1>1. ASSUME NEW j \in 1 .. n PROVE Code(Base, s)[Address(Base, j)] = s[j]
  <2>. DEFINE i == CHOOSE i \in DOMAIN s : Address(Base, i) = Address(Base, j)
  <2>1. i \in 1 .. n /\ Address(Base, i) = Address(Base, j)
    OBVIOUS
  <2>2. i = j
    <3>. HIDE DEF i
    <3>. QED BY <2>1, AddressesDiffer
  <2>3. Code(Base, s)[Address(Base, j)] = s[i]
    BY DEF Code
  <2>. QED
    BY <2>2, <2>3
<1>. QED
  BY <1>1 DEF Code

-----------------------------------------------------------------------------
(* Programs without jumps and memory: the registers they leave are those    *)
(* that their instructions, one after the other, make of the first ones.    *)

Plain == RegReg \cup RegImm \cup RegRegW \cup RegImmW \cup {"lui"}

value(i, g) ==
  CASE i.id \in RegReg -> Result(i.id, g[i.rs1], g[i.rs2])
    [] i.id \in RegImm -> Result(i.id, g[i.rs1], i.imm)
    [] i.id \in RegRegW -> sext_word(Result(i.id, g[i.rs1], g[i.rs2]))
    [] i.id \in RegImmW -> sext_word(Result(i.id, g[i.rs1], i.imm))
    [] OTHER -> i.imm

after(i, g) == [r \in Reg |-> IF r = i.rd /\ r # 0 THEN value(i, g) ELSE g[r]]

\* What the first n instructions of s make of g.
ran(s, g, n) ==
  LET g1 == after(s[1], g)
      g2 == after(s[2], g1)
      g3 == after(s[3], g2)
      g4 == after(s[4], g3)
  IN  CASE n = 0 -> g [] n = 1 -> g1 [] n = 2 -> g2 [] n = 3 -> g3 [] n = 4 -> g4
        [] n = 5 -> after(s[5], g4)

LEMMA RanNext ==
  ASSUME NEW s, NEW g, NEW n \in 0 .. 4
  PROVE  ran(s, g, n + 1) = after(s[n + 1], ran(s, g, n))
<1>1. CASE n = 0
  BY <1>1 DEF ran
<1>2. CASE n = 1
  BY <1>2 DEF ran
<1>3. CASE n = 2
  BY <1>3 DEF ran
<1>4. CASE n = 3
  BY <1>4 DEF ran
<1>5. CASE n = 4
  BY <1>5 DEF ran
<1>. QED
  BY <1>1, <1>2, <1>3, <1>4, <1>5

\* One instruction of such a program.
LEMMA PlainStep ==
  ASSUME TypeOK, Next, code[pc].id \in Plain
  PROVE  gprs' = after(code[pc], gprs) /\ pc' = next_pc
<1>. DEFINE i == code[pc]
<1>1. gprs' = (IF i.rd = 0 THEN gprs ELSE [gprs EXCEPT ![i.rd] = value(i, gprs)])
      /\ pc' = next_pc
  <2>. HIDE DEF i
  <2>1. CASE exec_rvi_reg_reg(i)
    <3>1. i.id \in RegReg
      BY <2>1 DEF exec_rvi_reg_reg, RegReg
    <3>2. value(i, gprs) = Result(i.id, gprs[i.rs1], gprs[i.rs2])
      BY <3>1 DEF value, RegReg, RegImm, RegRegW, RegImmW
    <3>3. set_reg(i.rd, value(i, gprs)) /\ pc' = next_pc
      BY <2>1, <3>2 DEF exec_rvi_reg_reg, get_reg
    <3>. QED
      BY <3>3 DEF set_reg
  <2>2. CASE exec_rvi_reg_imm(i)
    <3>1. i.id \in RegImm /\ i.id \notin RegReg
      BY <2>2 DEF exec_rvi_reg_imm, RegReg, RegImm
    <3>2. value(i, gprs) = Result(i.id, gprs[i.rs1], i.imm)
      BY <3>1 DEF value, RegReg, RegImm, RegRegW, RegImmW
    <3>3. set_reg(i.rd, value(i, gprs)) /\ pc' = next_pc
      BY <2>2, <3>2 DEF exec_rvi_reg_imm, get_reg
    <3>. QED
      BY <3>3 DEF set_reg
  <2>3. CASE exec_rv64i_reg_reg(i)
    <3>1. i.id \in RegRegW /\ i.id \notin RegReg /\ i.id \notin RegImm
      BY <2>3 DEF exec_rv64i_reg_reg, RegReg, RegImm, RegRegW
    <3>2. value(i, gprs) = sext_word(Result(i.id, gprs[i.rs1], gprs[i.rs2]))
      BY <3>1 DEF value, RegReg, RegImm, RegRegW, RegImmW
    <3>3. set_reg(i.rd, value(i, gprs)) /\ pc' = next_pc
      BY <2>3, <3>2 DEF exec_rv64i_reg_reg, get_reg
    <3>. QED
      BY <3>3 DEF set_reg
  <2>4. CASE exec_rv64i_reg_imm(i)
    <3>1. i.id \in RegImmW /\ i.id \notin RegReg /\ i.id \notin RegImm /\ i.id \notin RegRegW
      BY <2>4 DEF exec_rv64i_reg_imm, RegReg, RegImm, RegRegW, RegImmW
    <3>2. value(i, gprs) = sext_word(Result(i.id, gprs[i.rs1], i.imm))
      BY <3>1 DEF value, RegReg, RegImm, RegRegW, RegImmW
    <3>3. set_reg(i.rd, value(i, gprs)) /\ pc' = next_pc
      BY <2>4, <3>2 DEF exec_rv64i_reg_imm, get_reg
    <3>. QED
      BY <3>3 DEF set_reg
  <2>5. CASE exec_lui(i)
    BY <2>5 DEF exec_lui, set_reg, value, RegReg, RegImm, RegRegW, RegImmW
  <2>6. ~(exec_auipc(i) \/ exec_jal(i) \/ exec_jalr(i) \/ exec_cond_branch(i)
          \/ exec_load(i) \/ exec_uload(i) \/ exec_store(i))
    <3>1. i.id \in Plain
      BY DEF i
    <3>. QED
      BY <3>1 DEF Plain, RegReg, RegImm, RegRegW, RegImmW, exec_auipc, exec_jal, exec_jalr,
                  exec_cond_branch, Branches, exec_load, exec_uload, exec_store
  <2>7. \/ exec_rvi_reg_reg(i) \/ exec_rvi_reg_imm(i)
        \/ exec_rv64i_reg_reg(i) \/ exec_rv64i_reg_imm(i)
        \/ exec_lui(i) \/ exec_auipc(i) \/ exec_jal(i) \/ exec_jalr(i)
        \/ exec_cond_branch(i)
        \/ exec_load(i) \/ exec_uload(i) \/ exec_store(i)
    BY DEF Next, i
  <2>. QED
    BY <2>1, <2>2, <2>3, <2>4, <2>5, <2>6, <2>7
<1>2. gprs = [r \in Reg |-> gprs[r]]
  BY DEF TypeOK
<1>. HIDE DEF i
<1>3. gprs' = after(i, gprs)
  BY <1>1, <1>2 DEF after
<1>. QED
  BY <1>1, <1>3 DEF i

\* An addition of an immediate.
LEMMA AddsImmediate ==
  ASSUME TypeOK, NEW d \in Reg, NEW r \in Reg, d # 0, NEW w, Next, code[pc] = I("addi", d, r, w)
  PROVE  /\ gprs'[d] = plus(XLEN, gprs[r], w) /\ \A q \in Reg \ {d} : gprs'[q] = gprs[q]
         /\ pc' = next_pc
<1>. DEFINE i == code[pc]
<1>1. i.id = "addi" /\ i.rd = d /\ i.rs1 = r /\ i.imm = w
  BY DEF I, Instr
<1>2. gprs' = after(i, gprs) /\ pc' = next_pc
  BY <1>1, PlainStep DEF Plain, RegImm
<1>. HIDE DEF i
<1>3. value(i, gprs) = plus(XLEN, gprs[r], w)
  BY <1>1 DEF value, RegReg, RegImm, RegRegW, RegImmW, Result
<1>. QED
  BY <1>1, <1>2, <1>3 DEF after

\* An addition to x0.
LEMMA AddImmediate ==
  ASSUME TypeOK, NEW r \in Reg, r # 0, NEW n \in {1, 2}, Next, code[pc] = I("addi", r, 0, Num(n))
  PROVE  /\ gprs'[r] = {n - 1} /\ \A q \in Reg \ {r} : gprs'[q] = gprs[q]
         /\ pc' = next_pc
<1>1. 0 \in Reg /\ gprs[0] = {}
  BY StartsAssumption DEF TypeOK
<1>2. Num(n) = {n - 1}
  BY Numbers
<1>3. plus(64, {}, {n - 1}) = {n - 1}
  <2>1. {} \in Bits(64) /\ {n - 1} \in Bits(64)
    BY DEF Bits
  <2>. QED
    BY <2>1, PlusDisjoint
<1>. DEFINE w == Num(n)
<1>4. code[pc] = I("addi", r, 0, w)
  OBVIOUS
<1>. HIDE DEF w
<1>5. gprs'[r] = plus(XLEN, gprs[0], w)
  BY <1>1, <1>4, AddsImmediate
<1>6. (\A q \in Reg \ {r} : gprs'[q] = gprs[q]) /\ pc' = next_pc
  BY <1>1, <1>4, AddsImmediate
<1>. QED
  BY <1>1, <1>2, <1>3, <1>5, <1>6 DEF w, XLEN

\* The handler of an instruction.
LEMMA HandlerOf ==
  ASSUME NEW i, Next, i = code[pc]
  PROVE  /\ i.id \in Branches => exec_cond_branch(i)
         /\ i.id = "auipc" => exec_auipc(i)
         /\ i.id = "jal" => exec_jal(i)
         /\ i.id = "jalr" => exec_jalr(i)
         /\ i.id \in {"lb", "lh", "lw", "ld"} => exec_load(i)
         /\ i.id \in {"lbu", "lhu", "lwu"} => exec_uload(i)
         /\ i.id \in {"sb", "sh", "sw", "sd"} => exec_store(i)
<1>1. \/ exec_rvi_reg_reg(i) \/ exec_rvi_reg_imm(i)
      \/ exec_rv64i_reg_reg(i) \/ exec_rv64i_reg_imm(i)
      \/ exec_lui(i) \/ exec_auipc(i) \/ exec_jal(i) \/ exec_jalr(i)
      \/ exec_cond_branch(i)
      \/ exec_load(i) \/ exec_uload(i) \/ exec_store(i)
  BY DEF Next
<1>2. \/ i.id \in Arithmetic \cup {"lui"}
      \/ i.id \in Branches /\ exec_cond_branch(i)
      \/ i.id = "auipc" /\ exec_auipc(i)
      \/ i.id = "jal" /\ exec_jal(i)
      \/ i.id = "jalr" /\ exec_jalr(i)
      \/ i.id \in {"lb", "lh", "lw", "ld"} /\ exec_load(i)
      \/ i.id \in {"lbu", "lhu", "lwu"} /\ exec_uload(i)
      \/ i.id \in {"sb", "sh", "sw", "sd"} /\ exec_store(i)
  BY <1>1 DEF Arithmetic, exec_rvi_reg_reg, exec_rvi_reg_imm, exec_rv64i_reg_reg,
       exec_rv64i_reg_imm, exec_lui, exec_auipc, exec_jal, exec_jalr, exec_cond_branch,
       exec_load, exec_uload, exec_store
<1>. QED
  BY <1>2 DEF Arithmetic, RegReg, RegImm, RegRegW, RegImmW, Branches

IsPlain(s) ==
  \E n \in 1 .. 5 : DOMAIN s = 1 .. n /\ (\A j \in 1 .. n : s[j].id \in Plain)

Runs(s) == start.code = Code(Base, s) /\ start.pc = Base

\* Behind n instructions of s.
Behind(s, n) == pc = Address(Base, n + 1) /\ gprs = ran(s, start.gprs, n)

StraightOn ==
  \A s : IsPlain(s) /\ Runs(s) => \E n \in {0} \cup DOMAIN s : Behind(s, n)

LEMMA StraightStep ==
  ASSUME TypeOK, CodeOK, StraightOn, Next
  PROVE  StraightOn'
<1>. SUFFICES ASSUME NEW s, IsPlain(s), Runs(s)'
              PROVE  \E n \in {0} \cup DOMAIN s : Behind(s, n)'
  BY DEF StraightOn
<1>1. start' = start
  BY DEF Next
<1>2. PICK m \in 1 .. 5 : DOMAIN s = 1 .. m /\ \A j \in 1 .. m : s[j].id \in Plain
  BY DEF IsPlain
<1>3. Runs(s)
  BY <1>1 DEF Runs
<1>4. PICK n \in 0 .. m : Behind(s, n)
  BY <1>2, <1>3 DEF StraightOn
<1>5. pc \in DOMAIN Code(Base, s)
  BY <1>3 DEF Next, code, Runs
<1>6. n < m
  <2>1. PICK j \in 1 .. m : pc = Address(Base, j)
    <3>1. DOMAIN Code(Base, s) = {Address(Base, j) : j \in 1 .. m}
      BY <1>2, CodeAt
    <3>. QED
      BY <1>5, <3>1
  <2>2. pc = Address(Base, n + 1) /\ n + 1 \in 1 .. 6 /\ j \in 1 .. 6
    BY <1>4 DEF Behind
  <2>3. n + 1 = j
    BY <2>1, <2>2, AddressesDiffer
  <2>. QED
    BY <2>3
<1>7. n + 1 \in 1 .. m /\ n + 1 \in 1 .. 5 /\ n \in 0 .. 4
  BY <1>6
<1>8. code[pc] = s[n + 1]
  BY <1>2, <1>3, <1>4, <1>7, CodeAt DEF Behind, Runs, code
<1>9. gprs' = after(s[n + 1], gprs) /\ pc' = next_pc
  BY <1>2, <1>7, <1>8, PlainStep
<1>10. gprs' = ran(s, start.gprs, n + 1)
  BY <1>4, <1>7, <1>9, RanNext DEF Behind
<1>11. pc' = Address(Base, (n + 1) + 1)
  BY <1>4, <1>7, <1>9, NextAddress DEF Behind, next_pc
<1>. QED
  BY <1>1, <1>2, <1>7, <1>10, <1>11 DEF Behind

LEMMA StraightThroughout == Spec => [](TypeOK /\ CodeOK /\ StraightOn)
<1>1. Init => CodeOK /\ StraightOn
  <2>. SUFFICES ASSUME Init, NEW s, IsPlain(s), Runs(s) PROVE Behind(s, 0)
    BY DEF Init, CodeOK, StraightOn
  <2>1. pc = Address(Base, 0 + 1)
    BY Addresses DEF Init, Runs, Base
  <2>2. gprs = ran(s, start.gprs, 0)
    BY DEF Init, ran
  <2>. QED
    BY <2>1, <2>2 DEF Behind
<1>2. TypeOK /\ CodeOK /\ StraightOn /\ [Next]_vars => (CodeOK /\ StraightOn)'
  <2>1. CASE Next
    BY <2>1, StraightStep DEF Next, CodeOK
  <2>2. CASE UNCHANGED vars
    BY <2>2 DEF vars, CodeOK, StraightOn, Runs, Behind
  <2>. QED
    BY <2>1, <2>2
<1>. QED
  BY <1>1, <1>2, TypeCorrect, PTL DEF Spec

\* What is left when such a program is done.
LEMMA Ended ==
  ASSUME StraightOn, NEW s, NEW n \in 1 .. 5, DOMAIN s = 1 .. n,
         \A j \in 1 .. n : s[j].id \in Plain, Runs(s), Done
  PROVE  gprs = ran(s, start.gprs, n)
<1>1. IsPlain(s)
  BY DEF IsPlain
<1>2. PICK m \in 0 .. n : Behind(s, m)
  BY <1>1 DEF StraightOn
<1>3. m + 1 \notin 1 .. n
  <2>1. DOMAIN Code(Base, s) = {Address(Base, j) : j \in 1 .. n}
    BY CodeAt
  <2>2. pc = Address(Base, m + 1) /\ pc \notin DOMAIN Code(Base, s)
    BY <1>2 DEF Behind, Done, code, Runs
  <2>. QED
    BY <2>1, <2>2
<1>. QED
  BY <1>2, <1>3 DEF Behind

\* What is known of the state a program starts from.
LEMMA Started ==
  ASSUME CodeOK, NEW s, NEW n \in 1 .. 5, DOMAIN s = 1 .. n, Runs(s)
  PROVE  /\ start \in Starts /\ start.gprs \in [Reg -> DoubleWord] /\ start.gprs[0] = {} /\ 0 \in Reg
         /\ start.cell \in DoubleWord
         /\ \A j \in 1 .. n : Instruction(s[j])
<1>1. ASSUME NEW j \in 1 .. n PROVE Instruction(s[j])
  <2>1. Address(Base, j) \in DOMAIN start.code /\ start.code[Address(Base, j)] = s[j]
    BY CodeAt DEF Runs
  <2>. QED
    BY <2>1, StartsAssumption DEF CodeOK
<1>. QED
  BY <1>1, StartsAssumption DEF CodeOK

LEMMA WordsIn ==
  ASSUME WordPrograms, CodeOK, StraightOn
  PROVE  WordArithmetic
<1>. SUFFICES ASSUME Done, start.program[1] = "word"
              PROVE  LET id == start.program[2] IN
                       gprs[3] = extended(WordResult(id, a_, operand)) <=> BitsAboveFit(id, a_, operand)
  BY DEF WordArithmetic, IsProgram
<1>. DEFINE i == start.code[Base]
            s == <<i>>
<1>1. /\ i.rd = 3 /\ i.rs1 = 1
      /\ \/ i.id \in RegRegW /\ i.rs2 = 2
         \/ i.id = "addiw"
         \/ i.id \in RegImmW /\ i.imm \subseteq 0 .. 4
      /\ start.program = <<"word", i.id>> /\ Runs(s)
  BY DEF CodeOK, WordPrograms, Starting, Runs
<1>. HIDE DEF i
<1>2. DOMAIN s = 1 .. 1 /\ s[1] = i /\ i.id \in RegRegW \cup RegImmW
  BY <1>1 DEF RegImmW
<1>. HIDE DEF s
<1>3. Instruction(i) /\ start.gprs \in [Reg -> DoubleWord] 
  BY <1>1, <1>2, Started
<1>4. gprs = ran(s, start.gprs, 1)
  BY <1>1, <1>2, Ended DEF Plain
<1>5. gprs = after(i, start.gprs)
  BY <1>2, <1>4 DEF ran
<1>6. gprs[3] = value(i, start.gprs)
  BY <1>1, <1>3, <1>5 DEF after, Instruction
<1>7. value(i, start.gprs) = sext_word(Result(i.id, a_, operand))
  <2>1. CASE i.id \in RegRegW
    <3>1. operand = b_
      BY <2>1 DEF operand, code, i
    <3>2. value(i, start.gprs) = sext_word(Result(i.id, start.gprs[i.rs1], start.gprs[i.rs2]))
      BY <2>1 DEF value, RegReg, RegImm, RegRegW, RegImmW
    <3>3. i.rs2 = 2
      BY <1>1, <2>1 DEF RegRegW, RegImmW
    <3>. QED
      BY <1>1, <3>1, <3>2, <3>3 DEF a_, b_
  <2>2. CASE i.id \in RegImmW
    <3>1. operand = i.imm
      BY <2>2 DEF operand, code, i, RegRegW, RegImmW
    <3>2. value(i, start.gprs) = sext_word(Result(i.id, start.gprs[i.rs1], i.imm))
      BY <2>2 DEF value, RegReg, RegImm, RegRegW, RegImmW
    <3>. QED
      BY <1>1, <3>1, <3>2 DEF a_
  <2>. QED
    BY <1>2, <2>1, <2>2
<1>8. a_ \in DoubleWord /\ operand \in Amounts(i.id)
  <2>1. a_ \in DoubleWord
    BY <1>1, <1>3 DEF Instruction, a_
  <2>2. CASE i.id \in RegRegW
    <3>1. operand = b_
      BY <2>2 DEF operand, code, i
    <3>2. i.rs2 = 2
      BY <1>1, <2>2 DEF RegRegW, RegImmW
    <3>. QED
      BY <1>3, <2>1, <2>2, <3>1, <3>2 DEF Instruction, b_, Amounts
  <2>3. CASE i.id \in RegImmW
    <3>1. operand = i.imm
      BY <2>3 DEF operand, code, i, RegRegW, RegImmW
    <3>2. i.imm \in DoubleWord /\ (i.id = "addiw" \/ i.imm \subseteq 0 .. 4)
      BY <1>1, <1>3, <2>3 DEF Instruction, RegRegW, RegImmW
    <3>. QED
      BY <2>1, <3>1, <3>2 DEF Amounts, Bits, RegRegW
  <2>. QED
    BY <1>2, <2>1, <2>2, <2>3
<1>9. start.program[2] = i.id
  BY <1>1
<1>. HIDE DEF i
<1>. QED
  BY <1>2, <1>6, <1>7, <1>8, <1>9, WordsInDoubleWords

\* Programs of one instruction on words, whatever the operands: the result is
\* that of words exactly if a right shift brings down the right bits.
THEOREM WordsRight == ASSUME WordPrograms PROVE Spec => []WordArithmetic
<1>1. TypeOK /\ CodeOK /\ StraightOn => WordArithmetic
  BY WordsIn
<1>. QED
  BY <1>1, StraightThroughout, PTL

-----------------------------------------------------------------------------
(* Orders. *)

\* a - b borrows from behind the last bit exactly if a is less.
LEMMA BorrowIsLess ==
  ASSUME NEW a \in DoubleWord, NEW b \in DoubleWord
  PROVE  Below(a, b) <=> less(a, b)
<1>. a \in SUBSET (0 .. 63) /\ b \in SUBSET (0 .. 63)
  BY DEF DoubleWord, Bits, XLEN
<1>1. Below(a, b) <=> \E k \in b \ a : (k + 1 .. 63) \cap (a \ b) = {}
  BY DEF Below, Borrows, XLEN
<1>2. ASSUME NEW k \in b \ a
      PROVE  (k + 1 .. 63) \cap (a \ b) = {} <=> \A j \in a \ b : j < k
  OBVIOUS
<1>. QED
  BY <1>1, <1>2 DEF less, Above

\* The order of signed numbers is that of the numbers with the sign inverted.
LEMMA SignedIsFlipped ==
  ASSUME NEW a \in DoubleWord, NEW b \in DoubleWord
  PROVE  BelowSigned(XLEN, a, b) <=> BelowInOrder(a, b)
<1>. DEFINE fa == flip(a, 63)
            fb == flip(b, 63)
<1>. a \in SUBSET (0 .. 63) /\ b \in SUBSET (0 .. 63)
  BY DEF DoubleWord, Bits, XLEN
<1>1. fa \in DoubleWord /\ fb \in DoubleWord
  BY DEF flip, DoubleWord, Bits, XLEN
<1>2. /\ \A j \in 0 .. 62 : (j \in fa <=> j \in a) /\ (j \in fb <=> j \in b)
      /\ 63 \in fa <=> 63 \notin a
      /\ 63 \in fb <=> 63 \notin b
  BY DEF flip
<1>3. fa \in SUBSET (0 .. 63) /\ fb \in SUBSET (0 .. 63)
  BY <1>1 DEF DoubleWord, Bits, XLEN
<1>. HIDE DEF fa, fb
<1>4. BelowSigned(XLEN, a, b) <=> less(fa, fb)
  <2>1. CASE 63 \in a /\ 63 \notin b
    <3>1. 63 \in fb \ fa /\ \A j \in fa \ fb : j < 63
      BY <1>2, <1>3, <2>1
    <3>. QED
      BY <2>1, <3>1 DEF Above, less, BelowSigned, XLEN
  <2>2. CASE 63 \in b /\ 63 \notin a
    <3>1. 63 \in fa \ fb
      BY <1>2, <2>2
    <3>2. ~Above(fb, fa)
      BY <1>3, <3>1 DEF Above
    <3>. QED
      BY <2>2, <3>2 DEF BelowSigned, XLEN, less
  <2>3. CASE 63 \in a <=> 63 \in b
    <3>1. \A j \in 0 .. 63 : (j \in fa \ fb <=> j \in a \ b) /\ (j \in fb \ fa <=> j \in b \ a)
      BY <1>2, <2>3
    <3>2. fa \ fb = a \ b /\ fb \ fa = b \ a
      BY <1>3, <3>1
    <3>3. Above(b, a) <=> Above(fb, fa)
      BY <3>2 DEF Above
    <3>. QED
      BY <2>3, <3>3 DEF BelowSigned, less, XLEN
  <2>. QED
    BY <2>1, <2>2, <2>3
<1>. QED
  BY <1>1, <1>4, BorrowIsLess DEF BelowInOrder, fa, fb

-----------------------------------------------------------------------------
(* Branches. *)

\* The relation of a branch.
Related(id) ==
  CASE id = "beq" -> a_ = b_
    [] id = "bne" -> a_ # b_
    [] id = "bltu" -> Below(a_, b_)
    [] id = "bgeu" -> ~Below(a_, b_)
    [] id = "blt" -> BelowInOrder(a_, b_)
    [] id = "bge" -> ~BelowInOrder(a_, b_)

LEMMA TakenIfRelated ==
  ASSUME a_ \in DoubleWord, b_ \in DoubleWord, NEW id \in Branches
  PROVE  Taken(id, a_, b_) <=> Related(id)
<1>1. /\ Below(a_, b_) <=> less(a_, b_)
      /\ BelowSigned(XLEN, a_, b_) <=> BelowInOrder(a_, b_)
  BY BorrowIsLess, SignedIsFlipped
<1>. QED
  BY <1>1 DEF Branches, Taken, Related

\* Before the branch, behind it, and behind what it skips.
BranchOn ==
  start.program[1] = "branch" =>
    LET id == start.program[2] IN
      \/ pc = Address(Base, 1) /\ gprs = start.gprs
      \/ pc = Address(Base, 2) /\ gprs = start.gprs /\ ~Related(id)
      \/ pc = Address(Base, 3) /\ (gprs[3] = {} <=> Related(id))

LEMMA BranchStart ==
  ASSUME BranchPrograms, CodeOK, start.program[1] = "branch"
  PROVE  LET id == start.program[2] IN
           /\ id \in Branches /\ start.gprs[3] = {} /\ Runs(Skip(id))
           /\ a_ \in DoubleWord /\ b_ \in DoubleWord /\ 3 \in Reg
           /\ DOMAIN code = {Address(Base, 1), Address(Base, 2)}
           /\ code[Address(Base, 1)] = Instr(id, 0, 1, 2, Num(8))
           /\ code[Address(Base, 2)] = I("addi", 3, 0, Num(1))
<1>. DEFINE id == start.program[2]
            s == Skip(id)
<1>1. id \in Branches /\ start.gprs[3] = {} /\ Runs(s)
  BY DEF CodeOK, BranchPrograms, Starting, Runs
<1>2. DOMAIN s = 1 .. 2 /\ s[1] = Instr(id, 0, 1, 2, Num(8)) /\ s[2] = I("addi", 3, 0, Num(1))
  BY DEF Skip
<1>. HIDE DEF s
<1>3. DOMAIN Code(Base, s) = {Address(Base, 1), Address(Base, 2)}
      /\ Code(Base, s)[Address(Base, 1)] = s[1] /\ Code(Base, s)[Address(Base, 2)] = s[2]
  <2>0. DOMAIN s = 1 .. 2 /\ 2 \in 1 .. 5
    BY <1>2
  <2>1. DOMAIN Code(Base, s) = {Address(Base, j) : j \in 1 .. 2}
    BY <2>0, CodeAt
  <2>2. \A j \in 1 .. 2 : Code(Base, s)[Address(Base, j)] = s[j]
    BY <2>0, CodeAt
  <2>. QED
    BY <2>1, <2>2
<1>4. start.gprs \in [Reg -> DoubleWord] /\ Instruction(s[1]) /\ Instruction(s[2])
  <2>1. \A j \in 1 .. 2 : Instruction(s[j])
    BY <1>1, <1>2, Started
  <2>2. start.gprs \in [Reg -> DoubleWord]
    BY <1>1, <1>2, Started
  <2>. QED
    BY <2>1, <2>2
<1>5. 1 \in Reg /\ 2 \in Reg /\ 3 \in Reg
  BY <1>2, <1>4 DEF Instruction, Instr, I
<1>6. a_ \in DoubleWord /\ b_ \in DoubleWord
  BY <1>4, <1>5 DEF a_, b_
<1>7. code = Code(Base, s)
  BY <1>1 DEF Runs, code
<1>. QED
  BY <1>1, <1>2, <1>3, <1>5, <1>6, <1>7 DEF s

\* One instruction of a kind known.
LEMMA BranchStep ==
  ASSUME Next, code[pc].id \in Branches
  PROVE  /\ gprs' = gprs
         /\ pc' = IF Taken(code[pc].id, gprs[code[pc].rs1], gprs[code[pc].rs2])
                  THEN plus(XLEN, pc, code[pc].imm) ELSE next_pc
BY HandlerOf DEF exec_cond_branch, get_reg

\* Whatever is compared, a branch is taken exactly if its relation holds.
THEOREM BranchesRight == ASSUME BranchPrograms PROVE Spec => []BranchesDecide
<1>1. Init => BranchOn
  BY Addresses, StartsAssumption DEF Init, BranchOn, BranchPrograms, Starting, Base
<1>2. TypeOK /\ CodeOK /\ BranchOn /\ [Next]_vars => BranchOn'
  <2>. SUFFICES ASSUME TypeOK, CodeOK, BranchOn, Next, start.program[1] = "branch" PROVE BranchOn'
    BY DEF BranchOn, Related, a_, b_, vars, Next
  <2>. DEFINE id == start.program[2]
  <2>0. start' = start /\ (Related(id) <=> Related(id)')
    BY DEF Next, Related, a_, b_
  <2>1. /\ id \in Branches /\ start.gprs[3] = {}
        /\ a_ \in DoubleWord /\ b_ \in DoubleWord /\ 3 \in Reg
        /\ DOMAIN code = {Address(Base, 1), Address(Base, 2)}
        /\ code[Address(Base, 1)] = Instr(id, 0, 1, 2, Num(8))
        /\ code[Address(Base, 2)] = I("addi", 3, 0, Num(1))
    BY BranchStart
  <2>2. pc \in DOMAIN code
    BY DEF Next
  <2>3. /\ Address(Base, 1) # Address(Base, 2) /\ Address(Base, 1) # Address(Base, 3)
        /\ Address(Base, 2) # Address(Base, 3)
    BY AddressesDiffer
  <2>4. plus(XLEN, Address(Base, 1), ILEN) = Address(Base, 2)
        /\ plus(XLEN, Address(Base, 2), ILEN) = Address(Base, 3)
    BY NextAddress
  <2>5. plus(XLEN, Address(Base, 1), Num(8)) = Address(Base, 3)
    BY Addresses DEF Address, Base
  <2>. HIDE DEF id
  <2>6. CASE pc = Address(Base, 1) /\ gprs = start.gprs
    <3>1. code[pc].id = id /\ code[pc].rs1 = 1 /\ code[pc].rs2 = 2 /\ code[pc].imm = Num(8)
      BY <2>1, <2>6 DEF Instr
    <3>2. gprs' = gprs /\ pc' = IF Taken(id, a_, b_) THEN plus(XLEN, pc, Num(8)) ELSE next_pc
      BY <2>1, <2>6, <3>1, BranchStep DEF a_, b_
    <3>3. Taken(id, a_, b_) <=> Related(id)
      BY <2>1, TakenIfRelated
    <3>. QED
      BY <2>0, <2>1, <2>4, <2>5, <2>6, <3>2, <3>3 DEF BranchOn, next_pc, id
  <2>7. CASE pc = Address(Base, 2) /\ gprs = start.gprs /\ ~Related(id)
    <3>1. gprs'[3] = {1 - 1} /\ pc' = next_pc
      BY <2>1, <2>7, AddImmediate
    <3>2. gprs'[3] # {} /\ pc' = Address(Base, 3)
      BY <2>4, <2>7, <3>1 DEF next_pc
    <3>. QED
      BY <2>0, <2>7, <3>2 DEF BranchOn, id
  <2>. QED
    BY <2>1, <2>2, <2>3, <2>6, <2>7 DEF BranchOn, id
<1>3. TypeOK /\ CodeOK /\ BranchOn => BranchesDecide
  <2>. SUFFICES ASSUME TypeOK, CodeOK, BranchOn, Done, start.program[1] = "branch"
                PROVE  gprs[3] = {} <=> Related(start.program[2])
    BY DEF BranchesDecide, IsProgram, Related
  <2>1. DOMAIN code = {Address(Base, 1), Address(Base, 2)}
    BY BranchStart
  <2>. QED
    BY <2>1 DEF BranchOn, Done
<1>4. Spec => [](TypeOK /\ CodeOK)
  BY StraightThroughout, PTL
<1>. QED
  BY <1>1, <1>2, <1>3, <1>4, PTL DEF Spec

-----------------------------------------------------------------------------
(* Sequences of shifts, masks and comparisons. *)

LEMMA AfterR ==
  ASSUME NEW id \in RegReg, NEW rd, NEW r1, NEW r2, NEW g, NEW r \in Reg
  PROVE  after(R(id, rd, r1, r2), g)[r] =
           IF r = rd /\ r # 0 THEN Result(id, g[r1], g[r2]) ELSE g[r]
<1>. DEFINE i == R(id, rd, r1, r2)
<1>1. i.id = id /\ i.rd = rd /\ i.rs1 = r1 /\ i.rs2 = r2
  BY DEF R, Instr
<1>. HIDE DEF i
<1>2. value(i, g) = Result(id, g[r1], g[r2])
  BY <1>1 DEF value, RegReg, RegImm, RegRegW, RegImmW
<1>3. after(i, g)[r] = IF r = rd /\ r # 0 THEN Result(id, g[r1], g[r2]) ELSE g[r]
  BY <1>1, <1>2 DEF after
<1>. QED
  BY <1>3 DEF i

LEMMA AfterI ==
  ASSUME NEW id \in RegImm, NEW rd, NEW r1, NEW w, NEW g, NEW r \in Reg
  PROVE  after(I(id, rd, r1, w), g)[r] =
           IF r = rd /\ r # 0 THEN Result(id, g[r1], w) ELSE g[r]
<1>. DEFINE i == I(id, rd, r1, w)
<1>1. i.id = id /\ i.rd = rd /\ i.rs1 = r1 /\ i.imm = w
  BY DEF I, Instr
<1>. HIDE DEF i
<1>2. value(i, g) = Result(id, g[r1], w)
  BY <1>1 DEF value, RegReg, RegImm, RegRegW, RegImmW
<1>3. after(i, g)[r] = IF r = rd /\ r # 0 THEN Result(id, g[r1], w) ELSE g[r]
  BY <1>1, <1>2 DEF after
<1>. QED
  BY <1>3 DEF i

\* The end of a program and what it started from.
LEMMA EndOf ==
  ASSUME CodeOK, StraightOn, Done, NEW s, NEW n \in 1 .. 5, DOMAIN s = 1 .. n, Runs(s),
         \A j \in 1 .. n : s[j].id \in Plain
  PROVE  /\ gprs = ran(s, start.gprs, n)
         /\ start.gprs \in [Reg -> DoubleWord] /\ start.gprs[0] = {} /\ 0 \in Reg
         /\ \A j \in 1 .. n : s[j].rd \in Reg /\ s[j].rs1 \in Reg /\ s[j].rs2 \in Reg
<1>1. gprs = ran(s, start.gprs, n)
  BY Ended
<1>2. start.gprs \in [Reg -> DoubleWord] /\ start.gprs[0] = {} /\ 0 \in Reg
  BY Started
<1>3. \A j \in 1 .. n : Instruction(s[j])
  BY Started
<1>. QED
  BY <1>1, <1>2, <1>3 DEF Instruction

LEMMA Ran1 == \A s, g : ran(s, g, 1) = after(s[1], g)
BY DEF ran
LEMMA Ran2 == \A s, g : ran(s, g, 2) = after(s[2], after(s[1], g))
BY DEF ran
LEMMA Ran3 == \A s, g : ran(s, g, 3) = after(s[3], after(s[2], after(s[1], g)))
BY DEF ran
LEMMA Ran4 == \A s, g : ran(s, g, 4) = after(s[4], after(s[3], after(s[2], after(s[1], g))))
BY DEF ran
LEMMA Ran5 ==
  \A s, g : ran(s, g, 5) = after(s[5], after(s[4], after(s[3], after(s[2], after(s[1], g)))))
BY DEF ran

LEMMA StraightIn ==
  ASSUME StraightPrograms, CodeOK, NEW p \in DOMAIN Straight, start.program[1] = p
  PROVE  Runs(Straight[p])
BY DEF StraightPrograms, CodeOK, Starting, Runs

LEMMA Comparisons ==
  ASSUME NEW a \in DoubleWord
  PROVE  /\ less(a, {0}) <=> a = {}
         /\ less({}, a) <=> a # {}
         /\ BelowSigned(XLEN, a, {}) <=> 63 \in a
<1>. a \in SUBSET (0 .. 63)
  BY DEF DoubleWord, Bits, XLEN
<1>1. less(a, {0}) <=> a = {}
  <2>1. less(a, {0}) <=> 0 \notin a /\ \A j \in a \ {0} : j < 0
    BY DEF less, Above
  <2>. QED
    BY <2>1
<1>2. less({}, a) <=> a # {}
  BY DEF less, Above
<1>3. BelowSigned(XLEN, a, {}) <=> 63 \in a
  BY DEF BelowSigned, Above, XLEN
<1>. QED
  BY <1>1, <1>2, <1>3

LEMMA IsZeroRight ==
  ASSUME StraightPrograms, CodeOK, StraightOn, IsProgram("is_zero")
  PROVE  gprs[3] = IF a_ = {} THEN {0} ELSE {}
<1>. DEFINE s == Straight["is_zero"]
            g == start.gprs
<1>1. s = <<I("sltiu", 3, 1, Num(1))>> /\ Runs(s) /\ Done
  BY StraightIn DEF IsProgram, Straight
<1>. HIDE DEF s
<1>2. DOMAIN s = 1 .. 1 /\ s[1] = I("sltiu", 3, 1, {0})
  BY <1>1, Numbers
<1>3. /\ s[1].id = "sltiu" /\ s[1].rd = 3 /\ s[1].rs1 = 1
  BY <1>2 DEF I, Instr
<1>4. \A j \in 1 .. 1 : s[j].id \in Plain
  BY <1>3 DEF Plain, RegImm
<1>5. gprs = ran(s, g, 1) /\ g \in [Reg -> DoubleWord] /\ 3 \in Reg /\ 1 \in Reg
  BY <1>1, <1>2, <1>3, <1>4, EndOf
<1>6. gprs[3] = Result("sltiu", g[1], {0})
  BY <1>2, <1>5, Ran1, AfterI DEF RegImm
<1>7. Result("sltiu", g[1], {0}) = bool(less(g[1], {0}))
  BY DEF Result
<1>. QED
  BY <1>5, <1>6, <1>7, Comparisons DEF bool, a_

LEMMA ShiftRight ==
  ASSUME StraightPrograms, CodeOK, StraightOn, IsProgram("shift")
  PROVE  LET n == places(b_ \cap (0 .. 5)) IN
           gprs[3] = {k \in 0 .. 63 : (IF k + n > 63 THEN 63 ELSE k + n) \in a_}
<1>. DEFINE s == Straight["shift"]
            g == start.gprs
            n == places(b_ \cap (0 .. 5))
<1>1. s = <<R("sra", 3, 1, 2)>> /\ Runs(s) /\ Done
  BY StraightIn DEF IsProgram, Straight
<1>. HIDE DEF s
<1>2. DOMAIN s = 1 .. 1 /\ s[1] = R("sra", 3, 1, 2)
  BY <1>1
<1>3. /\ s[1].id = "sra" /\ s[1].rd = 3 /\ s[1].rs1 = 1
  BY <1>2 DEF R, Instr
<1>4. \A j \in 1 .. 1 : s[j].id \in Plain
  BY <1>3 DEF Plain, RegReg
<1>5. gprs = ran(s, g, 1) /\ g \in [Reg -> DoubleWord] /\ 3 \in Reg /\ 1 \in Reg
  BY <1>1, <1>2, <1>3, <1>4, EndOf
<1>6. gprs[3] = Result("sra", g[1], g[2])
  BY <1>2, <1>5, Ran1, AfterR DEF RegReg
<1>7. n \in 0 .. 63 /\ n = shift_amount("sra", b_)
  BY PlacesType DEF shift_amount, mask_bits
<1>8. Result("sra", g[1], g[2]) = shift_right_signed(a_, n)
  BY <1>7 DEF Result, a_, b_
<1>9. a_ \in SUBSET (0 .. 63)
  BY <1>5 DEF a_, DoubleWord, Bits, XLEN
<1>. HIDE DEF n
<1>10. shift_right_signed(a_, n) = {k \in 0 .. 63 : (IF k + n > 63 THEN 63 ELSE k + n) \in a_}
  <2>1. shift_right_signed(a_, n) \in SUBSET (0 .. 63)
    BY <1>7, <1>9 DEF shift_right_signed, shr, XLEN
  <2>2. ASSUME NEW k \in 0 .. 63
        PROVE  k \in shift_right_signed(a_, n) <=> (IF k + n > 63 THEN 63 ELSE k + n) \in a_
    <3>1. k \in shr(a_, n) <=> k + n \in a_
      BY <1>7, <1>9 DEF shr
    <3>. QED
      BY <1>7, <1>9, <3>1 DEF shift_right_signed, XLEN
  <2>. QED
    BY <2>1, <2>2
<1>. QED
  BY <1>6, <1>8, <1>10 DEF n

LEMMA ClearRight ==
  ASSUME StraightPrograms, CodeOK, StraightOn, IsProgram("clear")
  PROVE  gprs[3] = a_ \ (0 .. 7)
<1>. DEFINE s == Straight["clear"]
            g == start.gprs
            w == Num(255)
<1>1. s = <<I("ori", 3, 1, w), I("xori", 3, 3, w), I("andi", 0, 1, Num(1))>>
      /\ Runs(s) /\ Done
  BY StraightIn DEF IsProgram, Straight
<1>. HIDE DEF s, w
<1>2. DOMAIN s = 1 .. 3 /\ s[1] = I("ori", 3, 1, w) /\ s[2] = I("xori", 3, 3, w)
      /\ s[3] = I("andi", 0, 1, Num(1))
  BY <1>1
<1>3. s[1].id = "ori" /\ s[2].id = "xori" /\ s[3].id = "andi" /\ s[1].rd = 3 /\ s[1].rs1 = 1
  BY <1>2 DEF I, Instr
<1>4. \A j \in 1 .. 3 : s[j].id \in Plain
  BY <1>3 DEF Plain, RegImm
<1>5. gprs = ran(s, g, 3) /\ g \in [Reg -> DoubleWord] /\ 3 \in Reg /\ 1 \in Reg
  BY <1>1, <1>2, <1>3, <1>4, EndOf
<1>. DEFINE g1 == after(s[1], g)
            g2 == after(s[2], g1)
<1>6. g1[3] = Result("ori", g[1], w)
  BY <1>2, <1>5, AfterI DEF RegImm
<1>7. g2[3] = Result("xori", g1[3], w)
  BY <1>2, <1>5, AfterI DEF RegImm
<1>8. gprs = after(s[3], g2)
  BY <1>5, Ran3
<1>. HIDE DEF g1, g2
<1>9. gprs[3] = g2[3]
  BY <1>2, <1>5, <1>8, AfterI DEF RegImm
<1>10. Result("ori", g[1], w) = a_ \cup w /\ Result("xori", g1[3], w) = xor(g1[3], w)
  BY DEF Result, a_
<1>. QED
  BY <1>6, <1>7, <1>9, <1>10, Numbers DEF xor, w

LEMMA UnsignedRight ==
  ASSUME StraightPrograms, CodeOK, StraightOn, IsProgram("unsigned")
  PROVE  gprs[3] = low(a_)
<1>. DEFINE s == Straight["unsigned"]
            g == start.gprs
<1>1. s = <<I("slli", 3, 1, Num(32)), I("srli", 3, 3, Num(32))>> /\ Runs(s) /\ Done
  BY StraightIn DEF IsProgram, Straight
<1>. HIDE DEF s
<1>2. DOMAIN s = 1 .. 2 /\ s[1] = I("slli", 3, 1, {5}) /\ s[2] = I("srli", 3, 3, {5})
  BY <1>1, Numbers
<1>3. s[1].id = "slli" /\ s[2].id = "srli" /\ s[1].rd = 3 /\ s[1].rs1 = 1
  BY <1>2 DEF I, Instr
<1>4. \A j \in 1 .. 2 : s[j].id \in Plain
  BY <1>3 DEF Plain, RegImm
<1>5. gprs = ran(s, g, 2) /\ g \in [Reg -> DoubleWord] /\ 3 \in Reg /\ 1 \in Reg
  BY <1>1, <1>2, <1>3, <1>4, EndOf
<1>. DEFINE g1 == after(s[1], g)
<1>6. g1[3] = Result("slli", g[1], {5})
  BY <1>2, <1>5, AfterI DEF RegImm
<1>7. gprs = after(s[2], g1)
  BY <1>5, Ran2
<1>. HIDE DEF g1
<1>8. gprs[3] = Result("srli", g1[3], {5})
  BY <1>2, <1>5, <1>7, AfterI DEF RegImm
<1>9. shift_amount("slli", {5}) = 32 /\ shift_amount("srli", {5}) = 32
  BY DEF shift_amount, mask_bits, places, worth
<1>10. g1[3] = shl(a_, 32) \cap (0 .. 63) /\ gprs[3] = shr(g1[3], 32)
  BY <1>6, <1>8, <1>9 DEF Result, a_, XLEN
<1>11. a_ \in SUBSET (0 .. 63)
  BY <1>5 DEF a_, DoubleWord, Bits, XLEN
<1>12. g1[3] \in SUBSET (0 .. 63) /\ \A k \in 0 .. 63 : k \in g1[3] <=> k - 32 \in a_
  BY <1>10, <1>11 DEF shl
<1>13. gprs[3] \in SUBSET (0 .. 31) /\ \A k \in 0 .. 31 : k \in gprs[3] <=> k + 32 \in g1[3]
  BY <1>10, <1>12 DEF shr
<1>14. \A k \in 0 .. 31 : k \in gprs[3] <=> k \in a_
  BY <1>12, <1>13
<1>. QED
  BY <1>13, <1>14 DEF low

\* Masks of all ones and of none.
Ones == 0 .. 63

LEMMA NegatedBool ==
  ASSUME NEW P \in BOOLEAN
  PROVE  difference(XLEN, {}, bool(P)) = IF P THEN Ones ELSE {}
<1>1. CASE P
  <2>1. Borrows(64, {}, {0}) = 1 .. 64
    BY DEF Borrows
  <2>. QED
    BY <1>1, <2>1 DEF difference, bool, XLEN, xor, Ones
<1>2. CASE ~P
  BY <1>2 DEF Borrows, difference, bool, XLEN, xor
<1>. QED
  BY <1>1, <1>2

LEMMA AbsRight ==
  ASSUME StraightPrograms, CodeOK, StraightOn, IsProgram("abs")
  PROVE  gprs[3] = IF 63 \in a_ THEN difference(XLEN, {}, a_) ELSE a_
<1>. DEFINE s == Straight["abs"]
            g == start.gprs
            w == Num(63)
<1>1. s = <<I("srai", 4, 1, w), R("xor", 3, 1, 4), R("sub", 3, 3, 4)>> /\ Runs(s) /\ Done
  BY StraightIn DEF IsProgram, Straight
<1>. HIDE DEF s, w
<1>2. DOMAIN s = 1 .. 3 /\ s[1] = I("srai", 4, 1, w) /\ s[2] = R("xor", 3, 1, 4)
      /\ s[3] = R("sub", 3, 3, 4)
  BY <1>1
<1>3. s[1].id = "srai" /\ s[2].id = "xor" /\ s[3].id = "sub" /\ s[1].rd = 4 /\ s[1].rs1 = 1
      /\ s[2].rd = 3
  BY <1>2 DEF I, R, Instr
<1>4. \A j \in 1 .. 3 : s[j].id \in Plain
  BY <1>2, <1>3 DEF Plain, RegImm, RegReg
<1>5. gprs = ran(s, g, 3) /\ g \in [Reg -> DoubleWord] /\ 3 \in Reg /\ 1 \in Reg /\ 4 \in Reg
  BY <1>1, <1>2, <1>3, <1>4, EndOf
<1>. DEFINE g1 == after(s[1], g)
            g2 == after(s[2], g1)
<1>6. g1[4] = Result("srai", g[1], w) /\ g1[1] = g[1]
  BY <1>2, <1>5, AfterI DEF RegImm
<1>7. g2[3] = Result("xor", g1[1], g1[4]) /\ g2[4] = g1[4]
  BY <1>2, <1>5, AfterR DEF RegReg
<1>8. gprs = after(s[3], g2)
  BY <1>5, Ran3
<1>. HIDE DEF g1, g2
<1>9. gprs[3] = Result("sub", g2[3], g2[4])
  BY <1>2, <1>5, <1>8, AfterR DEF RegReg
<1>10. a_ \in SUBSET (0 .. 63)
  BY <1>5 DEF a_, DoubleWord, Bits, XLEN
<1>11. g1[4] = IF 63 \in a_ THEN Ones ELSE {}
  <2>1. w = 0 .. 5
    BY Numbers DEF w
  <2>2. mask_bits(0 .. 5, 5, 0) = 0 .. 5
    BY DEF mask_bits
  <2>3. places(0 .. 5) = 63
    BY DEF places, worth
  <2>4. shift_amount("srai", w) = 63
    BY <2>1, <2>2, <2>3 DEF shift_amount
  <2>5. g1[4] = shift_right_signed(a_, 63)
    BY <1>6, <2>4 DEF Result, a_
  <2>. QED
    BY <1>10, <2>5 DEF shift_right_signed, shr, Ones, XLEN
<1>12. gprs[3] = difference(XLEN, xor(a_, g1[4]), g1[4])
  BY <1>6, <1>7, <1>9 DEF Result, a_
<1>13. CASE 63 \in a_
  <2>1. xor(a_, Ones) = Ones \ a_ /\ Ones \ (Ones \ a_) = a_ /\ (Ones \ a_) \ Ones = {}
    BY <1>10 DEF xor, Ones
  <2>2. Borrows(64, Ones \ a_, Ones) = Borrows(64, {}, a_)
    BY <2>1 DEF Borrows
  <2>3. xor(Ones \ a_, Ones) = xor({}, a_)
    BY <2>1 DEF xor
  <2>. QED
    BY <1>11, <1>12, <1>13, <2>1, <2>2, <2>3 DEF difference, XLEN
<1>14. CASE 63 \notin a_
  <2>1. xor(a_, {}) = a_
    BY DEF xor
  <2>2. Borrows(64, a_, {}) = {}
    BY DEF Borrows
  <2>3. difference(64, a_, {}) = a_
    BY <1>10, <2>1, <2>2 DEF difference
  <2>. QED
    BY <1>11, <1>12, <1>14, <2>1, <2>3 DEF XLEN
<1>. QED
  BY <1>13, <1>14

LEMMA MinRight ==
  ASSUME StraightPrograms, CodeOK, StraightOn, IsProgram("min")
  PROVE  gprs[3] = IF BelowInOrder(a_, b_) THEN a_ ELSE b_
<1>. DEFINE s == Straight["min"]
            g == start.gprs
            P == BelowSigned(XLEN, a_, b_)
<1>1. s = <<R("slt", 4, 1, 2), R("sub", 4, 0, 4), R("xor", 3, 1, 2), R("and", 3, 3, 4),
            R("xor", 3, 3, 2)>> /\ Runs(s) /\ Done
  BY StraightIn DEF IsProgram, Straight
<1>. HIDE DEF s
<1>2. DOMAIN s = 1 .. 5 /\ s[1] = R("slt", 4, 1, 2) /\ s[2] = R("sub", 4, 0, 4)
      /\ s[3] = R("xor", 3, 1, 2) /\ s[4] = R("and", 3, 3, 4) /\ s[5] = R("xor", 3, 3, 2)
  BY <1>1
<1>3. /\ s[1].id = "slt" /\ s[2].id = "sub" /\ s[3].id = "xor" /\ s[4].id = "and"
      /\ s[5].id = "xor" /\ s[1].rd = 4 /\ s[1].rs1 = 1 /\ s[1].rs2 = 2 /\ s[3].rd = 3
  BY <1>2 DEF R, Instr
<1>4. \A j \in 1 .. 5 : s[j].id \in Plain
  BY <1>2, <1>3 DEF Plain, RegReg
<1>5. gprs = ran(s, g, 5)
  BY <1>1, <1>2, <1>4, EndOf
<1>6. g \in [Reg -> DoubleWord] /\ g[0] = {} /\ 0 \in Reg
  BY <1>1, <1>2, <1>4, EndOf
<1>7. 1 \in Reg /\ 2 \in Reg /\ 3 \in Reg /\ 4 \in Reg
  <2>1. \A j \in 1 .. 5 : s[j].rd \in Reg /\ s[j].rs1 \in Reg /\ s[j].rs2 \in Reg
    BY <1>1, <1>2, <1>4, EndOf
  <2>. QED
    BY <1>3, <2>1
<1>. DEFINE g1 == after(s[1], g)
            g2 == after(s[2], g1)
            g3 == after(s[3], g2)
            g4 == after(s[4], g3)
<1>8. g1[4] = Result("slt", g[1], g[2]) /\ g1[0] = g[0] /\ g1[1] = g[1] /\ g1[2] = g[2]
  BY <1>2, <1>6, <1>7, AfterR DEF RegReg
<1>9. g2[4] = Result("sub", g1[0], g1[4]) /\ g2[1] = g1[1] /\ g2[2] = g1[2]
  BY <1>2, <1>6, <1>7, AfterR DEF RegReg
<1>10. g3[3] = Result("xor", g2[1], g2[2]) /\ g3[2] = g2[2] /\ g3[4] = g2[4]
  BY <1>2, <1>6, <1>7, AfterR DEF RegReg
<1>11. g4[3] = Result("and", g3[3], g3[4]) /\ g4[2] = g3[2]
  BY <1>2, <1>6, <1>7, AfterR DEF RegReg
<1>12. gprs = after(s[5], g4)
  BY <1>5, Ran5
<1>. HIDE DEF g1, g2, g3, g4
<1>13. gprs[3] = Result("xor", g4[3], g4[2])
  BY <1>2, <1>7, <1>12, AfterR DEF RegReg
<1>14. a_ \in SUBSET (0 .. 63) /\ b_ \in SUBSET (0 .. 63) /\ a_ \in DoubleWord /\ b_ \in DoubleWord
  BY <1>6, <1>7 DEF a_, b_, DoubleWord, Bits, XLEN
<1>15. g1[4] = bool(P)
  BY <1>8 DEF Result, a_, b_
<1>16. P \in BOOLEAN
  BY DEF BelowSigned, Above
<1>. HIDE DEF P
<1>17. g2[4] = IF P THEN Ones ELSE {}
  <2>1. g2[4] = difference(XLEN, {}, bool(P))
    BY <1>6, <1>8, <1>9, <1>15 DEF Result
  <2>. QED
    BY <1>16, <2>1, NegatedBool
<1>18. gprs[3] = xor(xor(a_, b_) \cap g2[4], b_)
  BY <1>8, <1>9, <1>10, <1>11, <1>13 DEF Result, a_, b_
<1>19. gprs[3] = IF P THEN a_ ELSE b_
  BY <1>14, <1>17, <1>18 DEF xor, Ones
<1>. QED
  BY <1>14, <1>19, SignedIsFlipped DEF P

LEMMA SignRight ==
  ASSUME StraightPrograms, CodeOK, StraightOn, IsProgram("sign")
  PROVE  gprs[3] = IF 63 \in a_ THEN 0 .. 63 ELSE IF a_ = {} THEN {} ELSE {0}
<1>. DEFINE s == Straight["sign"]
            g == start.gprs
            P == BelowSigned(XLEN, a_, {})
<1>1. s = <<R("sltu", 3, 0, 1), I("slti", 4, 1, {}), R("sub", 4, 0, 4), R("or", 3, 3, 4)>>
      /\ Runs(s) /\ Done
  BY StraightIn DEF IsProgram, Straight
<1>. HIDE DEF s
<1>2. DOMAIN s = 1 .. 4 /\ s[1] = R("sltu", 3, 0, 1) /\ s[2] = I("slti", 4, 1, {})
      /\ s[3] = R("sub", 4, 0, 4) /\ s[4] = R("or", 3, 3, 4)
  BY <1>1
<1>3. /\ s[1].id = "sltu" /\ s[2].id = "slti" /\ s[3].id = "sub" /\ s[4].id = "or"
      /\ s[1].rd = 3 /\ s[2].rd = 4 /\ s[2].rs1 = 1
  BY <1>2 DEF R, I, Instr
<1>4. \A j \in 1 .. 4 : s[j].id \in Plain
  BY <1>2, <1>3 DEF Plain, RegReg, RegImm
<1>5. gprs = ran(s, g, 4)
  BY <1>1, <1>2, <1>4, EndOf
<1>6. g \in [Reg -> DoubleWord] /\ g[0] = {} /\ 0 \in Reg
  BY <1>1, <1>2, <1>4, EndOf
<1>7. 1 \in Reg /\ 3 \in Reg /\ 4 \in Reg
  <2>1. \A j \in 1 .. 4 : s[j].rd \in Reg /\ s[j].rs1 \in Reg /\ s[j].rs2 \in Reg
    BY <1>1, <1>2, <1>4, EndOf
  <2>. QED
    BY <1>3, <2>1
<1>. DEFINE g1 == after(s[1], g)
            g2 == after(s[2], g1)
            g3 == after(s[3], g2)
<1>8. g1[3] = Result("sltu", g[0], g[1]) /\ g1[0] = g[0] /\ g1[1] = g[1]
  <2>1. "sltu" \in RegReg
    BY DEF RegReg
  <2>2. \A r \in Reg : g1[r] = IF r = 3 /\ r # 0 THEN Result("sltu", g[0], g[1]) ELSE g[r]
    BY <1>2, <2>1, AfterR
  <2>. QED
    BY <1>6, <1>7, <2>2
<1>9. g2[4] = Result("slti", g1[1], {}) /\ g2[0] = g1[0] /\ g2[3] = g1[3]
  BY <1>2, <1>6, <1>7, AfterI DEF RegImm
<1>10. g3[4] = Result("sub", g2[0], g2[4]) /\ g3[3] = g2[3]
  BY <1>2, <1>6, <1>7, AfterR DEF RegReg
<1>11. gprs = after(s[4], g3)
  BY <1>5, Ran4
<1>. HIDE DEF g1, g2, g3
<1>12. gprs[3] = Result("or", g3[3], g3[4])
  BY <1>2, <1>7, <1>11, AfterR DEF RegReg
<1>13. a_ \in DoubleWord
  BY <1>6, <1>7 DEF a_
<1>14. g2[4] = bool(P) /\ g1[3] = bool(less({}, a_))
  BY <1>6, <1>8, <1>9 DEF Result, a_
<1>15. P \in BOOLEAN
  BY DEF BelowSigned, Above
<1>. HIDE DEF P
<1>16. g3[4] = IF P THEN Ones ELSE {}
  <2>1. g3[4] = difference(XLEN, {}, bool(P))
    BY <1>6, <1>8, <1>9, <1>10, <1>14 DEF Result
  <2>. QED
    BY <1>15, <2>1, NegatedBool
<1>17. gprs[3] = bool(less({}, a_)) \cup g3[4]
  BY <1>9, <1>10, <1>12, <1>14 DEF Result
<1>18. (less({}, a_) <=> a_ # {}) /\ (P <=> 63 \in a_)
  BY <1>13, Comparisons DEF P
<1>. QED
  BY <1>16, <1>17, <1>18 DEF bool, Ones

\* The low six bits of -b are what b lacks of 64.
LEMMA NegatedPlaces ==
  ASSUME NEW b \in DoubleWord
  PROVE  places(mask_bits(difference(XLEN, {}, b), 5, 0))
           = (64 - places(b \cap (0 .. 5))) % 64
<1>. DEFINE d == difference(64, {}, b)
            c == b \cap (0 .. 5)
            m == mask_bits(d, 5, 0)
<1>. b \in SUBSET (0 .. 63)
  BY DEF DoubleWord, Bits, XLEN
<1>1. \A k \in 1 .. 64 : k \in Borrows(64, {}, b) <=> \E j \in b : j < k
  BY DEF Borrows
<1>2. \A k \in 0 .. 63 : k \in d <=> ~(k \in b <=> k \in Borrows(64, {}, b))
  BY DEF difference, xor
<1>3. 0 \notin Borrows(64, {}, b)
  BY DEF Borrows
<1>4. \A k \in 0 .. 5 : (k \in c <=> k \in b) /\ (k \in m <=> k \in d)
  BY DEF mask_bits
<1>. HIDE DEF d, c, m
<1>5. \A k \in 1 .. 5 : k \in m <=> ~(k \in c <=> (\E j \in 0 .. 5 : j < k /\ j \in c))
  <2>. SUFFICES ASSUME NEW k \in 1 .. 5
                PROVE  k \in m <=> ~(k \in c <=> (\E j \in 0 .. 5 : j < k /\ j \in c))
    OBVIOUS
  <2>1. (\E j \in b : j < k) <=> (\E j \in 0 .. 5 : j < k /\ j \in c)
    BY <1>4
  <2>. QED
    BY <1>1, <1>2, <1>4, <2>1
<1>6. 0 \in m <=> 0 \in c
  BY <1>2, <1>3, <1>4
<1>7. /\ 1 \in m <=> ~(1 \in c <=> 0 \in c)
      /\ 2 \in m <=> ~(2 \in c <=> (0 \in c \/ 1 \in c))
      /\ 3 \in m <=> ~(3 \in c <=> (0 \in c \/ 1 \in c \/ 2 \in c))
      /\ 4 \in m <=> ~(4 \in c <=> (0 \in c \/ 1 \in c \/ 2 \in c \/ 3 \in c))
      /\ 5 \in m <=> ~(5 \in c <=> (0 \in c \/ 1 \in c \/ 2 \in c \/ 3 \in c \/ 4 \in c))
  <2>1. 1 \in m <=> ~(1 \in c <=> 0 \in c)
    BY <1>5
  <2>2. 2 \in m <=> ~(2 \in c <=> (0 \in c \/ 1 \in c))
    BY <1>5
  <2>3. 3 \in m <=> ~(3 \in c <=> (0 \in c \/ 1 \in c \/ 2 \in c))
    BY <1>5
  <2>4. 4 \in m <=> ~(4 \in c <=> (0 \in c \/ 1 \in c \/ 2 \in c \/ 3 \in c))
    BY <1>5
  <2>5. 5 \in m <=> ~(5 \in c <=> (0 \in c \/ 1 \in c \/ 2 \in c \/ 3 \in c \/ 4 \in c))
    BY <1>5
  <2>. QED
    BY <2>1, <2>2, <2>3, <2>4, <2>5
<1>8. places(m) = (64 - places(c)) % 64
  <2>. DEFINE x == places(c) y == places(m)
  <2>1. x \in 0 .. 63 /\ y \in 0 .. 63
    BY PlacesType
  <2>2. x + y = 64 \/ (x = 0 /\ y = 0)
    BY <1>6, <1>7 DEF places, worth
  <2>. HIDE DEF x, y
  <2>3. y = (64 - x) % 64
    BY <2>1, <2>2
  <2>. QED
    BY <2>3 DEF x, y
<1>. QED
  BY <1>8 DEF m, d, c, XLEN

LEMMA RotateRight ==
  ASSUME StraightPrograms, CodeOK, StraightOn, IsProgram("rotate")
  PROVE  LET n == places(b_ \cap (0 .. 5)) IN gprs[3] = {(k + n) % 64 : k \in a_}
<1>. DEFINE s == Straight["rotate"]
            g == start.gprs
            n == places(b_ \cap (0 .. 5))
            m == (64 - n) % 64
<1>1. s = <<R("sll", 3, 1, 2), R("sub", 4, 0, 2), R("srl", 4, 1, 4), R("or", 3, 3, 4)>>
      /\ Runs(s) /\ Done
  BY StraightIn DEF IsProgram, Straight
<1>. HIDE DEF s
<1>2. DOMAIN s = 1 .. 4 /\ s[1] = R("sll", 3, 1, 2) /\ s[2] = R("sub", 4, 0, 2)
      /\ s[3] = R("srl", 4, 1, 4) /\ s[4] = R("or", 3, 3, 4)
  BY <1>1
<1>3. /\ s[1].id = "sll" /\ s[2].id = "sub" /\ s[3].id = "srl" /\ s[4].id = "or"
      /\ s[1].rd = 3 /\ s[1].rs1 = 1 /\ s[1].rs2 = 2 /\ s[2].rd = 4
  BY <1>2 DEF R, Instr
<1>4. \A j \in 1 .. 4 : s[j].id \in Plain
  BY <1>2, <1>3 DEF Plain, RegReg
<1>5. gprs = ran(s, g, 4)
  BY <1>1, <1>2, <1>4, EndOf
<1>6. g \in [Reg -> DoubleWord] /\ g[0] = {} /\ 0 \in Reg
  BY <1>1, <1>2, <1>4, EndOf
<1>7. 1 \in Reg /\ 2 \in Reg /\ 3 \in Reg /\ 4 \in Reg
  <2>1. \A j \in 1 .. 4 : s[j].rd \in Reg /\ s[j].rs1 \in Reg /\ s[j].rs2 \in Reg
    BY <1>1, <1>2, <1>4, EndOf
  <2>. QED
    BY <1>3, <2>1
<1>. DEFINE g1 == after(s[1], g)
            g2 == after(s[2], g1)
            g3 == after(s[3], g2)
<1>8. /\ "sll" \in RegReg /\ "sub" \in RegReg /\ "srl" \in RegReg /\ "or" \in RegReg
  BY DEF RegReg
<1>9. g1[3] = Result("sll", g[1], g[2]) /\ g1[0] = g[0] /\ g1[1] = g[1] /\ g1[2] = g[2]
  <2>1. \A r \in Reg : g1[r] = IF r = 3 /\ r # 0 THEN Result("sll", g[1], g[2]) ELSE g[r]
    BY <1>2, <1>8, AfterR
  <2>. QED
    BY <1>6, <1>7, <2>1
<1>10. g2[4] = Result("sub", g1[0], g1[2]) /\ g2[1] = g1[1] /\ g2[3] = g1[3]
  <2>1. \A r \in Reg : g2[r] = IF r = 4 /\ r # 0 THEN Result("sub", g1[0], g1[2]) ELSE g1[r]
    BY <1>2, <1>8, AfterR
  <2>. QED
    BY <1>6, <1>7, <2>1
<1>11. g3[4] = Result("srl", g2[1], g2[4]) /\ g3[3] = g2[3]
  <2>1. \A r \in Reg : g3[r] = IF r = 4 /\ r # 0 THEN Result("srl", g2[1], g2[4]) ELSE g2[r]
    BY <1>2, <1>8, AfterR
  <2>. QED
    BY <1>6, <1>7, <2>1
<1>12. gprs = after(s[4], g3)
  BY <1>5, Ran4
<1>. HIDE DEF g1, g2, g3
<1>13. gprs[3] = Result("or", g3[3], g3[4])
  <2>1. \A r \in Reg : gprs[r] = IF r = 3 /\ r # 0 THEN Result("or", g3[3], g3[4]) ELSE g3[r]
    BY <1>2, <1>8, <1>12, AfterR
  <2>. QED
    BY <1>7, <2>1
<1>14. a_ \in SUBSET (0 .. 63) /\ b_ \in DoubleWord
  BY <1>6, <1>7 DEF a_, b_, DoubleWord, Bits, XLEN
<1>15. n \in 0 .. 63
  BY PlacesType
<1>16. shift_amount("sll", b_) = n
  BY DEF shift_amount, mask_bits
<1>17. shift_amount("srl", g2[4]) = m
  <2>1. g2[4] = difference(XLEN, {}, b_)
    BY <1>6, <1>9, <1>10 DEF Result, b_
  <2>. QED
    BY <1>14, <2>1, NegatedPlaces DEF shift_amount
<1>. HIDE DEF n
<1>18. m \in 0 .. 63 /\ (n = 0 => m = 0) /\ (n # 0 => m = 64 - n)
  BY <1>15
<1>. HIDE DEF m
<1>19. g3[3] = shl(a_, n) \cap (0 .. 63) /\ g3[4] = shr(a_, m)
  BY <1>9, <1>10, <1>11, <1>16, <1>17 DEF Result, a_, b_, XLEN
<1>20. gprs[3] = (shl(a_, n) \cap (0 .. 63)) \cup shr(a_, m)
  BY <1>13, <1>19 DEF Result
<1>21. \A k \in 0 .. 63 : k \in gprs[3] <=> k - n \in a_ \/ k + m \in a_
  BY <1>14, <1>15, <1>18, <1>20 DEF shl, shr
<1>22. gprs[3] \in SUBSET (0 .. 63)
  BY <1>14, <1>18, <1>20 DEF shr
<1>23. \A j \in 0 .. 63 : (j + n < 64 => (j + n) % 64 = j + n)
                          /\ (j + n >= 64 => (j + n) % 64 = j - m)
  BY <1>15, <1>18
<1>24. \A k \in 0 .. 63 : k \in {(j + n) % 64 : j \in a_} <=> k - n \in a_ \/ k + m \in a_
  <2>. SUFFICES ASSUME NEW k \in 0 .. 63
                PROVE  (\E j \in a_ : k = (j + n) % 64) <=> k - n \in a_ \/ k + m \in a_
    OBVIOUS
  <2>1. ASSUME NEW j \in a_, k = (j + n) % 64 PROVE k - n \in a_ \/ k + m \in a_
    <3>1. CASE j + n < 64
      BY <1>14, <1>15, <1>23, <2>1, <3>1
    <3>2. CASE j + n >= 64
      BY <1>14, <1>15, <1>18, <1>23, <2>1, <3>2
    <3>. QED
      BY <1>14, <1>15, <3>1, <3>2
  <2>2. ASSUME k - n \in a_ PROVE \E j \in a_ : k = (j + n) % 64
    <3>1. (k - n) + n = k /\ (k - n) + n < 64 /\ k - n \in 0 .. 63
      BY <1>14, <1>15, <2>2
    <3>2. k = ((k - n) + n) % 64
      BY <3>1
    <3>. QED
      BY <2>2, <3>2
  <2>3. ASSUME k + m \in a_ PROVE \E j \in a_ : k = (j + n) % 64
    <3>1. k + m \in 0 .. 63
      BY <1>14, <2>3
    <3>2. CASE n = 0
      BY <1>18, <1>23, <2>3, <3>1, <3>2
    <3>3. CASE n # 0
      <4>1. (k + m) + n >= 64
        BY <1>15, <1>18, <3>3
      <4>2. ((k + m) + n) % 64 = (k + m) - m
        BY <1>23, <3>1, <4>1
      <4>. QED
        BY <1>18, <2>3, <4>2
    <3>. QED
      BY <3>2, <3>3
  <2>. QED
    BY <2>1, <2>2, <2>3
<1>25. {(j + n) % 64 : j \in a_} \in SUBSET (0 .. 63)
  BY <1>14, <1>15
<1>26. gprs[3] = {(j + n) % 64 : j \in a_}
  BY <1>21, <1>22, <1>24, <1>25
<1>. QED
  BY <1>26 DEF n

\* Whatever the operands, the sequences compute what they are known for.
THEOREM IdentitiesHold == ASSUME StraightPrograms PROVE Spec => []Identities
<1>1. TypeOK /\ CodeOK /\ StraightOn => Identities
  BY RotateRight, ShiftRight, AbsRight, MinRight, IsZeroRight, SignRight, UnsignedRight, ClearRight
     DEF Identities
<1>. QED
  BY <1>1, StraightThroughout, PTL

-----------------------------------------------------------------------------
(* Sums and differences position by position. *)

\* A set that has a number and with each one the next has all from there on.
LEMMA Upward ==
  ASSUME NEW f \in Nat, NEW t \in Nat, NEW T, f \in T, \A k \in f .. t - 1 : k \in T => k + 1 \in T
  PROVE  f .. t \subseteq T
<1>. DEFINE W == (f .. t) \ T
<1>. SUFFICES ASSUME W # {} PROVE FALSE
  OBVIOUS
<1>1. W \in SUBSET Nat
  OBVIOUS
<1>2. PICK x \in W : \A y \in W : ~ (<<y, x>> \in OpToRel(<, Nat))
  BY <1>1, NatLessThanWellFounded, WFMin
<1>3. OpToRel(<, Nat) = {ss \in Nat \X Nat : ss[1] < ss[2]}
  BY DEF OpToRel
<1>4. x \in f .. t /\ x # f /\ x - 1 \in f .. t - 1
  OBVIOUS
<1>5. x - 1 \in W
  BY <1>4
<1>6. <<x - 1, x>> \in {ss \in Nat \X Nat : ss[1] < ss[2]}
  <2>1. <<x - 1, x>> \in Nat \X Nat /\ <<x - 1, x>>[1] = x - 1 /\ <<x - 1, x>>[2] = x
    BY <1>4
  <2>. QED
    BY <1>4, <2>1
<1>. QED
  BY <1>2, <1>3, <1>5, <1>6

\* The bit that two of the three have.
Two(p, q, r) == (p /\ q) \/ (p /\ r) \/ (q /\ r)

\* One of the three, or all.
Odd(p, q, r) ==
  (p /\ q /\ r) \/ (p /\ ~q /\ ~r) \/ (~p /\ q /\ ~r) \/ (~p /\ ~q /\ r)

LEMMA XorBit ==
  ASSUME NEW a, NEW b, NEW k
  PROVE  k \in xor(a, b) <=> ~(k \in a <=> k \in b)
BY DEF xor

LEMMA CarryStep ==
  ASSUME NEW n \in Nat, NEW a \in Bits(n), NEW b \in Bits(n), NEW k \in 0 .. n - 1
  PROVE  /\ 0 \notin Carries(n, a, b)
         /\ k + 1 \in Carries(n, a, b) <=> Two(k \in a, k \in b, k \in Carries(n, a, b))
         /\ k \in plus(n, a, b) <=> Odd(k \in a, k \in b, k \in Carries(n, a, b))
<1>. DEFINE C == Carries(n, a, b)
<1>. a \in SUBSET (0 .. n - 1) /\ b \in SUBSET (0 .. n - 1)
  BY DEF Bits
<1>1. \A m \in 0 .. n :
        m \in C <=> \E j \in a \cap b : j < m /\ (j + 1 .. m - 1) \subseteq a \cup b
  BY DEF Carries
<1>2. 0 \notin C
  BY DEF Carries
<1>3. ASSUME k + 1 \in C PROVE Two(k \in a, k \in b, k \in C)
  <2>1. PICK j \in a \cap b : j < k + 1 /\ (j + 1 .. (k + 1) - 1) \subseteq a \cup b
    BY <1>1, <1>3
  <2>. HIDE DEF C
  <2>2. CASE j = k
    BY <2>1, <2>2 DEF Two
  <2>3. CASE j # k
    <3>1. j < k /\ k \in j + 1 .. (k + 1) - 1 /\ (j + 1 .. k - 1) \subseteq a \cup b
      BY <2>1, <2>3
    <3>2. k \in C /\ k \in a \cup b
      BY <1>1, <2>1, <3>1
    <3>. QED
      BY <3>2 DEF Two
  <2>. QED
    BY <2>2, <2>3
<1>4. ASSUME Two(k \in a, k \in b, k \in C) PROVE k + 1 \in C
  <2>. HIDE DEF C
  <2>0. (k + 1) - 1 = k /\ k + 1 \in 0 .. n /\ k < k + 1
    OBVIOUS
  <2>1. CASE k \in a \cap b
    <3>1. (k + 1 .. k) \subseteq a \cup b
      OBVIOUS
    <3>. QED
      BY <1>1, <2>0, <2>1, <3>1
  <2>2. CASE k \in C /\ k \in a \cup b
    <3>1. PICK j \in a \cap b : j < k /\ (j + 1 .. k - 1) \subseteq a \cup b
      BY <1>1, <2>2
    <3>2. (j + 1 .. k) \subseteq a \cup b /\ j < k + 1
      BY <2>2, <3>1
    <3>. QED
      BY <1>1, <2>0, <3>2
  <2>. QED
    BY <1>4, <2>1, <2>2 DEF Two
<1>5. k \in plus(n, a, b) <=> Odd(k \in a, k \in b, k \in C)
  <2>1. k # n
    OBVIOUS
  <2>2. k \in plus(n, a, b) <=> k \in xor(xor(a, b), C)
    BY <2>1 DEF plus
  <2>3. k \in xor(xor(a, b), C) <=> ~(k \in xor(a, b) <=> k \in C)
    BY XorBit
  <2>4. k \in xor(a, b) <=> ~(k \in a <=> k \in b)
    BY XorBit
  <2>. HIDE DEF C
  <2>. QED
    BY <2>2, <2>3, <2>4 DEF Odd
<1>. QED
  BY <1>2, <1>3, <1>4, <1>5

\* Subtraction is addition to the complement.
complement(n, a) == (0 .. n - 1) \ a

LEMMA BorrowIsCarry ==
  ASSUME NEW n \in Nat, NEW a \in Bits(n), NEW b \in Bits(n)
  PROVE  Carries(n, complement(n, a), b) = Borrows(n, a, b)
<1>. DEFINE a1 == complement(n, a)
<1>1. a1 \cap b = b \ a
  BY DEF Bits, complement
<1>2. ASSUME NEW m \in 1 .. n, NEW j \in b \ a
      PROVE  (j + 1 .. m - 1) \subseteq a1 \cup b <=> (j + 1 .. m - 1) \cap (a \ b) = {}
  <2>1. j \in 0 .. n - 1
    BY DEF Bits
  <2>. QED
    BY <2>1 DEF complement
<1>. HIDE DEF a1
<1>3. Carries(n, a1, b) = Borrows(n, a, b)
  BY <1>1, <1>2 DEF Carries, Borrows
<1>. QED
  BY <1>3 DEF a1

LEMMA BorrowStep ==
  ASSUME NEW n \in Nat, NEW a \in Bits(n), NEW b \in Bits(n), NEW k \in 0 .. n - 1
  PROVE  /\ 0 \notin Borrows(n, a, b)
         /\ k + 1 \in Borrows(n, a, b) <=> Two(k \notin a, k \in b, k \in Borrows(n, a, b))
         /\ k \in difference(n, a, b) <=> Odd(k \in a, k \in b, k \in Borrows(n, a, b))
<1>. DEFINE a1 == complement(n, a)
<1>1. a1 \in Bits(n)
  BY DEF Bits, complement
<1>2. Carries(n, a1, b) = Borrows(n, a, b)
  BY BorrowIsCarry
<1>3. k \in a1 <=> k \notin a
  BY DEF complement
<1>. HIDE DEF a1
<1>4. /\ 0 \notin Carries(n, a1, b)
      /\ k + 1 \in Carries(n, a1, b) <=> Two(k \in a1, k \in b, k \in Carries(n, a1, b))
  BY <1>1, CarryStep
<1>5. k \in difference(n, a, b) <=> Odd(k \in a, k \in b, k \in Borrows(n, a, b))
  <2>1. k # n
    OBVIOUS
  <2>2. k \in difference(n, a, b) <=> k \in xor(xor(a, b), Borrows(n, a, b))
    BY <2>1 DEF difference
  <2>3. k \in xor(xor(a, b), Borrows(n, a, b))
          <=> ~(k \in xor(a, b) <=> k \in Borrows(n, a, b))
    BY XorBit
  <2>4. k \in xor(a, b) <=> ~(k \in a <=> k \in b)
    BY XorBit
  <2>. QED
    BY <2>2, <2>3, <2>4 DEF Odd
<1>. QED
  BY <1>2, <1>3, <1>4, <1>5

LEMMA DifferenceIsSum ==
  ASSUME NEW n \in Nat, NEW a \in Bits(n), NEW b \in Bits(n)
  PROVE  difference(n, a, b) = complement(n, plus(n, complement(n, a), b))
<1>. DEFINE a1 == complement(n, a)
            s == plus(n, a1, b)
<1>1. a1 \in Bits(n)
  BY DEF Bits, complement
<1>2. \A k \in 0 .. n - 1 : (k \in a1 <=> k \notin a) /\ (k \in complement(n, s) <=> k \notin s)
  BY DEF complement
<1>3. Carries(n, a1, b) = Borrows(n, a, b)
  BY BorrowIsCarry
<1>4. difference(n, a, b) \in Bits(n) /\ complement(n, s) \in Bits(n)
  BY DifferenceType DEF Bits, complement
<1>. HIDE DEF a1, s
<1>5. ASSUME NEW k \in 0 .. n - 1 PROVE k \in difference(n, a, b) <=> k \in complement(n, s)
  <2>1. k \in difference(n, a, b) <=> Odd(k \in a, k \in b, k \in Borrows(n, a, b))
    BY BorrowStep
  <2>2. k \in s <=> Odd(k \in a1, k \in b, k \in Carries(n, a1, b))
    BY <1>1, CarryStep DEF s
  <2>. QED
    BY <1>2, <1>3, <2>1, <2>2 DEF Odd
<1>6. difference(n, a, b) = complement(n, s)
  BY <1>4, <1>5, SameBits
<1>. QED
  BY <1>6 DEF s, a1

\* A sum is less than what was added to exactly if it is carried out of the word.
LEMMA SumIsLess ==
  ASSUME NEW a \in DoubleWord, NEW b \in DoubleWord
  PROVE  less(plus(XLEN, a, b), a) <=> 64 \in Carries(64, a, b)
<1>. DEFINE s == plus(64, a, b)
            C == Carries(64, a, b)
            B == Borrows(64, s, a)
            T == {k \in 0 .. 64 : k \in B <=> k \in C}
<1>1. a \in Bits(64) /\ b \in Bits(64) /\ s \in Bits(64)
  BY PlusType DEF DoubleWord, XLEN
<1>2. 64 \in Nat /\ 0 \in Nat /\ 0 \in 0 .. 64 - 1
  OBVIOUS
<1>3. 0 \in T
  <2>1. 0 \notin B
    BY <1>1, <1>2, BorrowStep
  <2>2. 0 \notin C
    BY <1>1, <1>2, CarryStep
  <2>. QED
    BY <2>1, <2>2
<1>4. ASSUME NEW k \in 0 .. 64 - 1, k \in T PROVE k + 1 \in T
  <2>1. k + 1 \in B <=> Two(k \notin s, k \in a, k \in B)
    BY <1>1, <1>2, BorrowStep
  <2>2. /\ k + 1 \in C <=> Two(k \in a, k \in b, k \in C)
        /\ k \in s <=> Odd(k \in a, k \in b, k \in C)
    BY <1>1, <1>2, CarryStep
  <2>3. k \in B <=> k \in C
    BY <1>4
  <2>. HIDE DEF s, B, C
  <2>4. k + 1 \in B <=> k + 1 \in C
    <3>1. CASE k \in C
      BY <2>1, <2>2, <2>3, <3>1 DEF Two, Odd
    <3>2. CASE k \notin C
      BY <2>1, <2>2, <2>3, <3>2 DEF Two, Odd
    <3>. QED
      BY <3>1, <3>2
  <2>. QED
    BY <2>4
<1>. HIDE DEF T
<1>5. 0 .. 64 \subseteq T
  BY <1>2, <1>3, <1>4, Upward
<1>6. 64 \in B <=> 64 \in C
  BY <1>5 DEF T
<1>7. Below(s, a) <=> less(s, a)
  BY <1>1, BorrowIsLess DEF DoubleWord, XLEN
<1>. QED
  BY <1>6, <1>7 DEF Below, XLEN

-----------------------------------------------------------------------------
(* Numbers of 128 bits. *)

whole(l, h) == l \cup shl(h, 64)

LEMMA WholeBits ==
  ASSUME NEW l \in DoubleWord, NEW h \in DoubleWord
  PROVE  /\ whole(l, h) \in Bits(128)
         /\ \A k \in 0 .. 63 : (k \in whole(l, h) <=> k \in l)
                               /\ (k + 64 \in whole(l, h) <=> k \in h)
<1>. l \in SUBSET (0 .. 63) /\ h \in SUBSET (0 .. 63)
  BY DEF DoubleWord, Bits, XLEN
<1>. DEFINE w == whole(l, h)
<1>1. w \in SUBSET (0 .. 127)
  <2>1. \A j \in shl(h, 64) : j \in 0 .. 127
    BY DEF shl
  <2>2. \A j \in l : j \in 0 .. 127
    OBVIOUS
  <2>3. \A j \in w : j \in 0 .. 127
    BY <2>1, <2>2 DEF whole
  <2>. QED
    BY <2>3
<1>2. ASSUME NEW k \in 0 .. 63 PROVE (k \in w <=> k \in l) /\ (k + 64 \in w <=> k \in h)
  <2>1. k \notin shl(h, 64) /\ (k + 64 \in shl(h, 64) <=> k \in h) /\ k + 64 \notin l
    BY DEF shl
  <2>. QED
    BY <2>1 DEF whole
<1>. HIDE DEF w
<1>3. w \in Bits(128)
  BY <1>1 DEF Bits
<1>. QED
  BY <1>2, <1>3 DEF w

LEMMA SameWhole ==
  ASSUME NEW a \in Bits(128), NEW b \in Bits(128),
         \A k \in 0 .. 63 : (k \in a <=> k \in b) /\ (k + 64 \in a <=> k + 64 \in b)
  PROVE  a = b
<1>1. ASSUME NEW k \in 0 .. 128 - 1 PROVE k \in a <=> k \in b
  <2>1. CASE k < 64
    BY <2>1
  <2>2. CASE k >= 64
    <3>1. k - 64 \in 0 .. 63 /\ (k - 64) + 64 = k
      BY <2>2
    <3>. QED
      BY <3>1
  <2>. QED
    BY <2>1, <2>2
<1>. QED
  BY <1>1, SameBits

\* The sum of the halves, with the carry of the low ones added to the high ones.
LEMMA WideSum ==
  ASSUME NEW a0 \in DoubleWord, NEW a1 \in DoubleWord, NEW b0 \in DoubleWord, NEW b1 \in DoubleWord
  PROVE  LET l == plus(XLEN, a0, b0) IN
           whole(l, plus(XLEN, plus(XLEN, a1, b1), bool(less(l, a0))))
             = plus(128, whole(a0, a1), whole(b0, b1))
<1>. DEFINE a == whole(a0, a1)
            b == whole(b0, b1)
            l == plus(64, a0, b0)
            h == plus(64, a1, b1)
            u == bool(less(l, a0))
            r == plus(64, h, u)
            C == Carries(128, a, b)
            L == Carries(64, a0, b0)
            D == Carries(64, a1, b1)
            E == Carries(64, h, u)
            T == {k \in 0 .. 64 : k \in C <=> k \in L}
            U == {k \in 1 .. 64 : (k + 64 \in C <=> k \in D \/ k \in E) /\ ~(k \in D /\ k \in E)}
<1>1. a0 \in Bits(64) /\ a1 \in Bits(64) /\ b0 \in Bits(64) /\ b1 \in Bits(64)
      /\ a \in Bits(128) /\ b \in Bits(128)
  BY WholeBits DEF DoubleWord, XLEN
<1>2. l \in Bits(64) /\ h \in Bits(64)
  BY <1>1, PlusType
<1>3. u \in Bits(64)
  BY BoolType DEF DoubleWord, XLEN, less, Above
<1>4. r \in Bits(64)
  BY <1>2, <1>3, PlusType
<1>5. \A k \in 0 .. 63 : /\ k \in a <=> k \in a0
                         /\ k + 64 \in a <=> k \in a1
                         /\ k \in b <=> k \in b0
                         /\ k + 64 \in b <=> k \in b1
  BY WholeBits
<1>6. ASSUME NEW k \in 0 .. 64 - 1
      PROVE  /\ 0 \notin L /\ 0 \notin D /\ 0 \notin E
             /\ k + 1 \in L <=> Two(k \in a0, k \in b0, k \in L)
             /\ k \in l <=> Odd(k \in a0, k \in b0, k \in L)
             /\ k + 1 \in D <=> Two(k \in a1, k \in b1, k \in D)
             /\ k \in h <=> Odd(k \in a1, k \in b1, k \in D)
             /\ k + 1 \in E <=> Two(k \in h, k \in u, k \in E)
             /\ k \in r <=> Odd(k \in h, k \in u, k \in E)
  <2>1. /\ 0 \notin L
        /\ k + 1 \in L <=> Two(k \in a0, k \in b0, k \in L)
        /\ k \in l <=> Odd(k \in a0, k \in b0, k \in L)
    BY <1>1, CarryStep
  <2>2. /\ 0 \notin D
        /\ k + 1 \in D <=> Two(k \in a1, k \in b1, k \in D)
        /\ k \in h <=> Odd(k \in a1, k \in b1, k \in D)
    BY <1>1, CarryStep
  <2>3. /\ 0 \notin E
        /\ k + 1 \in E <=> Two(k \in h, k \in u, k \in E)
        /\ k \in r <=> Odd(k \in h, k \in u, k \in E)
    BY <1>2, <1>3, CarryStep
  <2>. QED
    BY <2>1, <2>2, <2>3
<1>7. ASSUME NEW k \in 0 .. 128 - 1
      PROVE  /\ 0 \notin C
             /\ k + 1 \in C <=> Two(k \in a, k \in b, k \in C)
             /\ k \in plus(128, a, b) <=> Odd(k \in a, k \in b, k \in C)
  BY <1>1, CarryStep
<1>8. 64 \in L <=> less(l, a0)
  BY <1>1, SumIsLess DEF DoubleWord, XLEN
<1>9. \A k \in 0 .. 63 : k \in u <=> k = 0 /\ less(l, a0)
  BY DEF bool
<1>. HIDE DEF a, b, l, h, u, r, C, L, D, E
<1>10. 0 .. 64 \subseteq T
  <2>1. 0 \in T
    BY <1>6, <1>7
  <2>2. ASSUME NEW k \in 0 .. 64 - 1, k \in T PROVE k + 1 \in T
    <3>1. k \in 0 .. 128 - 1 /\ k \in 0 .. 63
      OBVIOUS
    <3>2. k + 1 \in C <=> k + 1 \in L
      BY <1>5, <1>6, <1>7, <2>2, <3>1
    <3>. QED
      BY <3>2
  <2>. HIDE DEF T
  <2>. QED
    BY <2>1, <2>2, Upward
<1>11. 64 \in C <=> less(l, a0)
  BY <1>8, <1>10
<1>12. ASSUME NEW k \in 0 .. 63
       PROVE  /\ (k + 1) + 64 \in C <=> Two(k \in a1, k \in b1, k + 64 \in C)
              /\ k + 64 \in plus(128, a, b) <=> Odd(k \in a1, k \in b1, k + 64 \in C)
  <2>1. k + 64 \in 0 .. 128 - 1 /\ (k + 64) + 1 = (k + 1) + 64
    OBVIOUS
  <2>. QED
    BY <1>5, <1>7, <2>1
<1>13. 1 .. 64 \subseteq U
  <2>1. 1 \in U
    <3>1. 1 + 64 \in C <=> Two(0 \in a1, 0 \in b1, less(l, a0))
      <4>1. 0 \in 0 .. 63 /\ (0 + 1) + 64 = 1 + 64 /\ 0 + 64 = 64
        OBVIOUS
      <4>2. 1 + 64 \in C <=> Two(0 \in a1, 0 \in b1, 64 \in C)
        BY <1>12, <4>1
      <4>. QED
        BY <1>11, <4>2 DEF Two
    <3>2. /\ 1 \in D <=> Two(0 \in a1, 0 \in b1, FALSE)
          /\ 0 \in h <=> Odd(0 \in a1, 0 \in b1, FALSE)
          /\ 1 \in E <=> Two(0 \in h, less(l, a0), FALSE)
      <4>1. /\ 0 \notin D /\ 0 \notin E
            /\ 1 \in D <=> Two(0 \in a1, 0 \in b1, 0 \in D)
            /\ 0 \in h <=> Odd(0 \in a1, 0 \in b1, 0 \in D)
            /\ 1 \in E <=> Two(0 \in h, 0 \in u, 0 \in E)
        BY <1>6
      <4>2. 0 \in u <=> less(l, a0)
        BY <1>9
      <4>. QED
        BY <4>1, <4>2 DEF Two, Odd
    <3>3. (1 + 64 \in C <=> 1 \in D \/ 1 \in E) /\ ~(1 \in D /\ 1 \in E)
      BY <3>1, <3>2 DEF Two, Odd
    <3>. QED
      BY <3>3
  <2>2. ASSUME NEW k \in 1 .. 64 - 1, k \in U PROVE k + 1 \in U
    <3>1. k \in 0 .. 63 /\ k \notin u
      BY <1>9
    <3>2. (k + 1) + 64 \in C <=> Two(k \in a1, k \in b1, k + 64 \in C)
      BY <1>12, <3>1
    <3>3. /\ k + 1 \in D <=> Two(k \in a1, k \in b1, k \in D)
          /\ k \in h <=> Odd(k \in a1, k \in b1, k \in D)
          /\ k + 1 \in E <=> Two(k \in h, FALSE, k \in E)
      <4>1. k + 1 \in E <=> Two(k \in h, k \in u, k \in E)
        BY <1>6, <3>1
      <4>2. k + 1 \in E <=> Two(k \in h, FALSE, k \in E)
        BY <3>1, <4>1 DEF Two
      <4>3. k + 1 \in D <=> Two(k \in a1, k \in b1, k \in D)
        BY <1>6, <3>1
      <4>4. k \in h <=> Odd(k \in a1, k \in b1, k \in D)
        BY <1>6, <3>1
      <4>. QED
        BY <4>2, <4>3, <4>4
    <3>4. (k + 64 \in C <=> k \in D \/ k \in E) /\ ~(k \in D /\ k \in E)
      BY <2>2
    <3>5. /\ (k + 1) + 64 \in C <=> k + 1 \in D \/ k + 1 \in E
          /\ ~(k + 1 \in D /\ k + 1 \in E)
      <4>1. CASE k \in E
        BY <3>2, <3>3, <3>4, <4>1 DEF Two, Odd
      <4>2. CASE k \notin E
        BY <3>2, <3>3, <3>4, <4>2 DEF Two, Odd
      <4>. QED
        BY <4>1, <4>2
    <3>. QED
      BY <3>5
  <2>. HIDE DEF U
  <2>. QED
    BY <2>1, <2>2, Upward
<1>14. ASSUME NEW k \in 0 .. 63 PROVE k \in whole(l, r) <=> k \in plus(128, a, b)
  <2>1. k \in whole(l, r) <=> k \in l
    BY <1>2, <1>4, WholeBits DEF DoubleWord, XLEN
  <2>2. k \in C <=> k \in L
    BY <1>10
  <2>. QED
    BY <1>5, <1>6, <1>7, <2>1, <2>2
<1>15. ASSUME NEW k \in 0 .. 63 PROVE k + 64 \in whole(l, r) <=> k + 64 \in plus(128, a, b)
  <2>1. k + 64 \in whole(l, r) <=> k \in r
    BY <1>2, <1>4, WholeBits DEF DoubleWord, XLEN
  <2>2. k \in r <=> Odd(k \in a1, k \in b1, k + 64 \in C)
    <3>1. CASE k = 0
      <4>1. /\ 0 \in h <=> Odd(0 \in a1, 0 \in b1, FALSE)
            /\ 0 \in r <=> Odd(0 \in h, less(l, a0), FALSE)
        <5>1. /\ 0 \notin D /\ 0 \notin E
              /\ 0 \in h <=> Odd(0 \in a1, 0 \in b1, 0 \in D)
              /\ 0 \in r <=> Odd(0 \in h, 0 \in u, 0 \in E)
          BY <1>6
        <5>2. 0 \in u <=> less(l, a0)
          BY <1>9
        <5>. QED
          BY <5>1, <5>2 DEF Odd
      <4>. QED
        BY <1>11, <3>1, <4>1 DEF Odd
    <3>2. CASE k # 0
      <4>1. /\ k \in h <=> Odd(k \in a1, k \in b1, k \in D)
            /\ k \in r <=> Odd(k \in h, FALSE, k \in E)
        <5>1. k \in r <=> Odd(k \in h, k \in u, k \in E)
          BY <1>6
        <5>2. k \notin u
          BY <1>9, <3>2
        <5>3. k \in r <=> Odd(k \in h, FALSE, k \in E)
          BY <5>1, <5>2 DEF Odd
        <5>4. k \in h <=> Odd(k \in a1, k \in b1, k \in D)
          BY <1>6
        <5>. QED
          BY <5>3, <5>4
      <4>2. (k + 64 \in C <=> k \in D \/ k \in E) /\ ~(k \in D /\ k \in E)
        BY <1>13, <3>2
      <4>3. CASE k \in E
        BY <4>1, <4>2, <4>3 DEF Odd
      <4>4. CASE k \notin E
        BY <4>1, <4>2, <4>4 DEF Odd
      <4>. QED
        BY <4>3, <4>4
    <3>. QED
      BY <3>1, <3>2
  <2>. QED
    BY <1>12, <2>1, <2>2
<1>16. whole(l, r) \in Bits(128) /\ plus(128, a, b) \in Bits(128)
  <2>1. whole(l, r) \in Bits(128)
    BY <1>2, <1>4, WholeBits DEF DoubleWord, XLEN
  <2>. QED
    BY <1>1, <2>1, PlusType
<1>17. whole(l, r) = plus(128, a, b)
  BY <1>14, <1>15, <1>16, SameWhole
<1>. QED
  BY <1>17 DEF a, b, l, r, h, u, XLEN
\* The difference of the halves, with the borrow of the low ones taken from the high ones.
LEMMA WideDifference ==
  ASSUME NEW a0 \in DoubleWord, NEW a1 \in DoubleWord, NEW b0 \in DoubleWord, NEW b1 \in DoubleWord
  PROVE  whole(difference(XLEN, a0, b0),
               difference(XLEN, difference(XLEN, a1, b1), bool(less(a0, b0))))
           = difference(128, whole(a0, a1), whole(b0, b1))
<1>. DEFINE c0 == complement(64, a0)
            c1 == complement(64, a1)
            b == whole(b0, b1)
            u == bool(less(a0, b0))
            l == plus(64, c0, b0)
            h == plus(64, c1, b1)
            r == plus(64, h, u)
            d0 == difference(64, a0, b0)
            d1 == difference(64, a1, b1)
            d == difference(64, d1, u)
<1>1. /\ a0 \in Bits(64) /\ a1 \in Bits(64) /\ b0 \in Bits(64) /\ b1 \in Bits(64)
      /\ c0 \in Bits(64) /\ c1 \in Bits(64) /\ u \in Bits(64)
  BY BoolType DEF DoubleWord, XLEN, complement, Bits, less, Above
<1>2. /\ l \in Bits(64) /\ h \in Bits(64) /\ r \in Bits(64)
      /\ d0 \in Bits(64) /\ d1 \in Bits(64) /\ d \in Bits(64)
  BY <1>1, PlusType, DifferenceType
<1>3. /\ \A k \in 0 .. 63 : (k \in c0 <=> k \notin a0) /\ (k \in c1 <=> k \notin a1)
      /\ \A k \in 0 .. 127 : \A w : k \in complement(128, w) <=> k \notin w
  BY DEF complement
<1>4. /\ d0 = complement(64, l) /\ d1 = complement(64, h)
      /\ d = complement(64, plus(64, complement(64, d1), u))
  BY <1>1, <1>2, DifferenceIsSum
<1>5. complement(64, d1) = h
  BY <1>2, <1>4 DEF complement, Bits
<1>6. less(l, c0) <=> less(a0, b0)
  <2>1. less(l, c0) <=> 64 \in Carries(64, c0, b0)
    BY <1>1, SumIsLess DEF DoubleWord, XLEN
  <2>2. Carries(64, c0, b0) = Borrows(64, a0, b0)
    BY <1>1, BorrowIsCarry
  <2>3. 64 \in Borrows(64, a0, b0) <=> less(a0, b0)
    BY BorrowIsLess DEF Below, XLEN
  <2>. QED
    BY <2>1, <2>2, <2>3
<1>7. whole(c0, c1) = complement(128, whole(a0, a1))
  <2>1. whole(c0, c1) \in Bits(128) /\ complement(128, whole(a0, a1)) \in Bits(128)
    <3>1. whole(c0, c1) \in Bits(128)
      BY <1>1, WholeBits DEF DoubleWord, XLEN
    <3>. QED
      BY <3>1 DEF complement, Bits
  <2>2. ASSUME NEW k \in 0 .. 63
        PROVE  /\ k \in whole(c0, c1) <=> k \in complement(128, whole(a0, a1))
               /\ k + 64 \in whole(c0, c1) <=> k + 64 \in complement(128, whole(a0, a1))
    <3>1. (k \in whole(c0, c1) <=> k \in c0) /\ (k + 64 \in whole(c0, c1) <=> k \in c1)
      BY <1>1, WholeBits DEF DoubleWord, XLEN
    <3>2. (k \in whole(a0, a1) <=> k \in a0) /\ (k + 64 \in whole(a0, a1) <=> k \in a1)
      BY WholeBits
    <3>3. k \in 0 .. 127 /\ k + 64 \in 0 .. 127
      OBVIOUS
    <3>. QED
      BY <1>3, <3>1, <3>2, <3>3
  <2>. QED
    BY <2>1, <2>2, SameWhole
<1>8. whole(a0, a1) \in Bits(128) /\ b \in Bits(128)
  BY WholeBits
<1>9. difference(128, whole(a0, a1), b) = complement(128, whole(l, r))
  <2>1. c0 \in DoubleWord /\ c1 \in DoubleWord
    BY <1>1 DEF DoubleWord, XLEN
  <2>2. whole(l, plus(64, h, bool(less(l, c0)))) = plus(128, whole(c0, c1), b)
    BY <2>1, WideSum DEF XLEN
  <2>3. bool(less(l, c0)) = u
    BY <1>6 DEF bool
  <2>4. difference(128, whole(a0, a1), b) =
          complement(128, plus(128, complement(128, whole(a0, a1)), b))
    BY <1>8, DifferenceIsSum
  <2>. HIDE DEF l, h, u, c0, c1, b
  <2>. QED
    BY <1>7, <2>2, <2>3, <2>4
<1>. HIDE DEF l, h, r, c0, c1, d0, d1, d, b, u
<1>10. ASSUME NEW k \in 0 .. 63
       PROVE  /\ k \in whole(d0, d) <=> k \in complement(128, whole(l, r))
              /\ k + 64 \in whole(d0, d) <=> k + 64 \in complement(128, whole(l, r))
  <2>1. (k \in whole(d0, d) <=> k \in d0) /\ (k + 64 \in whole(d0, d) <=> k \in d)
    BY <1>2, WholeBits DEF DoubleWord, XLEN
  <2>2. (k \in whole(l, r) <=> k \in l) /\ (k + 64 \in whole(l, r) <=> k \in r)
    BY <1>2, WholeBits DEF DoubleWord, XLEN
  <2>3. (k \in d0 <=> k \notin l) /\ (k \in d <=> k \notin r)
    BY <1>4, <1>5 DEF complement, r
  <2>4. k \in 0 .. 127 /\ k + 64 \in 0 .. 127
    OBVIOUS
  <2>. QED
    BY <1>3, <2>1, <2>2, <2>3, <2>4
<1>11. whole(d0, d) \in Bits(128) /\ complement(128, whole(l, r)) \in Bits(128)
  <2>1. whole(d0, d) \in Bits(128)
    BY <1>2, WholeBits DEF DoubleWord, XLEN
  <2>. QED
    BY <2>1 DEF complement, Bits
<1>12. whole(d0, d) = difference(128, whole(a0, a1), b)
  BY <1>9, <1>10, <1>11, SameWhole
<1>. QED
  BY <1>12 DEF d0, d, d1, u, b, XLEN

LEMMA WideIn ==
  ASSUME WidePrograms, CodeOK, StraightOn, IsProgram("wide")
  PROVE  whole(gprs[5], gprs[6]) =
           LET a == whole(a_, b_)
               b == whole(start.gprs[3], start.gprs[4])
           IN  IF start.program[2] = "sum" THEN plus(128, a, b) ELSE difference(128, a, b)
<1>. DEFINE g == start.gprs
<1>0. Done /\ start.program[1] = "wide" /\ start \in Starts
  BY DEF IsProgram, CodeOK
<1>1. PICK p \in {"sum", "difference"} : start.program[2] = p /\ Runs(Wide[p])
  <2>1. PICK p \in DOMAIN Wide : Starting(start, <<"wide", p>>, Code(Base, Wide[p]))
    BY <1>0 DEF WidePrograms
  <2>. QED
    BY <2>1 DEF Starting, Runs, Wide
<1>. DEFINE s == Wide[p]
<1>2. /\ "add" \in RegReg /\ "sltu" \in RegReg /\ "sub" \in RegReg
  BY DEF RegReg
<1>3. CASE p = "sum"
  <2>1. s = <<R("add", 5, 1, 3), R("sltu", 6, 5, 1), R("add", 2, 2, 4), R("add", 6, 2, 6)>>
    BY <1>3 DEF Wide
  <2>2. Runs(s)
    BY <1>1
  <2>. HIDE DEF s
  <2>3. DOMAIN s = 1 .. 4 /\ s[1] = R("add", 5, 1, 3) /\ s[2] = R("sltu", 6, 5, 1)
        /\ s[3] = R("add", 2, 2, 4) /\ s[4] = R("add", 6, 2, 6)
    BY <2>1
  <2>4. /\ s[1].id = "add" /\ s[2].id = "sltu" /\ s[3].id = "add" /\ s[4].id = "add"
        /\ s[1].rd = 5 /\ s[1].rs1 = 1 /\ s[1].rs2 = 3 /\ s[2].rd = 6 /\ s[3].rd = 2
        /\ s[3].rs2 = 4
    BY <2>3 DEF R, Instr
  <2>5. \A j \in 1 .. 4 : s[j].id \in Plain
    BY <2>3, <2>4 DEF Plain, RegReg
  <2>6. DOMAIN s = 1 .. 4
    BY <2>3
  <2>7. gprs = ran(s, g, 4)
    BY <1>0, <2>2, <2>5, <2>6, EndOf
  <2>8. g \in [Reg -> DoubleWord]
    BY <1>0, <2>2, <2>5, <2>6, EndOf
  <2>9. 1 \in Reg /\ 2 \in Reg /\ 3 \in Reg /\ 4 \in Reg /\ 5 \in Reg /\ 6 \in Reg
    <3>1. \A j \in 1 .. 4 : s[j].rd \in Reg /\ s[j].rs1 \in Reg /\ s[j].rs2 \in Reg
      BY <1>0, <2>2, <2>5, <2>6, EndOf
    <3>. QED
      BY <2>4, <3>1
  <2>. DEFINE g1 == after(s[1], g)
              g2 == after(s[2], g1)
              g3 == after(s[3], g2)
  <2>10. \A r \in Reg : g1[r] = IF r = 5 /\ r # 0 THEN Result("add", g[1], g[3]) ELSE g[r]
    BY <1>2, <2>3, AfterR
  <2>11. \A r \in Reg : g2[r] = IF r = 6 /\ r # 0 THEN Result("sltu", g1[5], g1[1]) ELSE g1[r]
    BY <1>2, <2>3, AfterR
  <2>12. \A r \in Reg : g3[r] = IF r = 2 /\ r # 0 THEN Result("add", g2[2], g2[4]) ELSE g2[r]
    BY <1>2, <2>3, AfterR
  <2>13. gprs = after(s[4], g3)
    BY <2>7, Ran4
  <2>. HIDE DEF g1, g2, g3
  <2>14. \A r \in Reg : gprs[r] = IF r = 6 /\ r # 0 THEN Result("add", g3[2], g3[6]) ELSE g3[r]
    BY <1>2, <2>3, <2>13, AfterR
  <2>15. g1[5] = plus(XLEN, g[1], g[3]) /\ g1[1] = g[1] /\ g1[2] = g[2] /\ g1[4] = g[4]
    BY <2>9, <2>10 DEF Result
  <2>16. g2[5] = g1[5] /\ g2[6] = bool(less(g1[5], g1[1])) /\ g2[2] = g1[2] /\ g2[4] = g1[4]
    BY <2>9, <2>11 DEF Result
  <2>17. g3[5] = g2[5] /\ g3[6] = g2[6] /\ g3[2] = plus(XLEN, g2[2], g2[4])
    BY <2>9, <2>12 DEF Result
  <2>18. gprs[5] = g3[5] /\ gprs[6] = plus(XLEN, g3[2], g3[6])
    BY <2>9, <2>14 DEF Result
  <2>19. g[1] \in DoubleWord /\ g[2] \in DoubleWord /\ g[3] \in DoubleWord /\ g[4] \in DoubleWord
    BY <2>8, <2>9
  <2>20. whole(gprs[5], gprs[6]) = plus(128, whole(g[1], g[2]), whole(g[3], g[4]))
    BY <2>15, <2>16, <2>17, <2>18, <2>19, WideSum
  <2>. QED
    BY <1>1, <1>3, <2>20 DEF a_, b_
<1>4. CASE p = "difference"
  <2>1. s = <<R("sltu", 6, 1, 3), R("sub", 5, 1, 3), R("sub", 2, 2, 4), R("sub", 6, 2, 6)>>
    BY <1>4 DEF Wide
  <2>2. Runs(s)
    BY <1>1
  <2>. HIDE DEF s
  <2>3. DOMAIN s = 1 .. 4 /\ s[1] = R("sltu", 6, 1, 3) /\ s[2] = R("sub", 5, 1, 3)
        /\ s[3] = R("sub", 2, 2, 4) /\ s[4] = R("sub", 6, 2, 6)
    BY <2>1
  <2>4. /\ s[1].id = "sltu" /\ s[2].id = "sub" /\ s[3].id = "sub" /\ s[4].id = "sub"
        /\ s[1].rd = 6 /\ s[1].rs1 = 1 /\ s[1].rs2 = 3 /\ s[2].rd = 5 /\ s[3].rd = 2
        /\ s[3].rs2 = 4
    BY <2>3 DEF R, Instr
  <2>5. \A j \in 1 .. 4 : s[j].id \in Plain
    BY <2>3, <2>4 DEF Plain, RegReg
  <2>6. DOMAIN s = 1 .. 4
    BY <2>3
  <2>7. gprs = ran(s, g, 4)
    BY <1>0, <2>2, <2>5, <2>6, EndOf
  <2>8. g \in [Reg -> DoubleWord]
    BY <1>0, <2>2, <2>5, <2>6, EndOf
  <2>9. 1 \in Reg /\ 2 \in Reg /\ 3 \in Reg /\ 4 \in Reg /\ 5 \in Reg /\ 6 \in Reg
    <3>1. \A j \in 1 .. 4 : s[j].rd \in Reg /\ s[j].rs1 \in Reg /\ s[j].rs2 \in Reg
      BY <1>0, <2>2, <2>5, <2>6, EndOf
    <3>. QED
      BY <2>4, <3>1
  <2>. DEFINE g1 == after(s[1], g)
              g2 == after(s[2], g1)
              g3 == after(s[3], g2)
  <2>10. \A r \in Reg : g1[r] = IF r = 6 /\ r # 0 THEN Result("sltu", g[1], g[3]) ELSE g[r]
    BY <1>2, <2>3, AfterR
  <2>11. \A r \in Reg : g2[r] = IF r = 5 /\ r # 0 THEN Result("sub", g1[1], g1[3]) ELSE g1[r]
    BY <1>2, <2>3, AfterR
  <2>12. \A r \in Reg : g3[r] = IF r = 2 /\ r # 0 THEN Result("sub", g2[2], g2[4]) ELSE g2[r]
    BY <1>2, <2>3, AfterR
  <2>13. gprs = after(s[4], g3)
    BY <2>7, Ran4
  <2>. HIDE DEF g1, g2, g3
  <2>14. \A r \in Reg : gprs[r] = IF r = 6 /\ r # 0 THEN Result("sub", g3[2], g3[6]) ELSE g3[r]
    BY <1>2, <2>3, <2>13, AfterR
  <2>15. g1[6] = bool(less(g[1], g[3])) /\ g1[1] = g[1] /\ g1[2] = g[2] /\ g1[3] = g[3]
         /\ g1[4] = g[4]
    BY <2>9, <2>10 DEF Result
  <2>16. g2[5] = difference(XLEN, g1[1], g1[3]) /\ g2[6] = g1[6] /\ g2[2] = g1[2] /\ g2[4] = g1[4]
    BY <2>9, <2>11 DEF Result
  <2>17. g3[5] = g2[5] /\ g3[6] = g2[6] /\ g3[2] = difference(XLEN, g2[2], g2[4])
    BY <2>9, <2>12 DEF Result
  <2>18. gprs[5] = g3[5] /\ gprs[6] = difference(XLEN, g3[2], g3[6])
    BY <2>9, <2>14 DEF Result
  <2>19. g[1] \in DoubleWord /\ g[2] \in DoubleWord /\ g[3] \in DoubleWord /\ g[4] \in DoubleWord
    BY <2>8, <2>9
  <2>20. whole(gprs[5], gprs[6]) = difference(128, whole(g[1], g[2]), whole(g[3], g[4]))
    BY <2>15, <2>16, <2>17, <2>18, <2>19, WideDifference
  <2>. QED
    BY <1>1, <1>4, <2>20 DEF a_, b_
<1>. QED
  BY <1>3, <1>4

\* Whatever the two numbers of 128 bits, the four instructions add and subtract
\* them, with the carry and the borrow between the halves.
THEOREM WideRight == ASSUME WidePrograms PROVE Spec => []WideArithmetic
<1>1. TypeOK /\ CodeOK /\ StraightOn => WideArithmetic
  BY WideIn DEF WideArithmetic, whole
<1>. QED
  BY <1>1, StraightThroughout, PTL

-----------------------------------------------------------------------------
(* Constants of 32 bits. *)

\* The high part makes up for the sign of the low one: their sum is the
\* constant with its sign, but for the constants whose high part is too large.
LEMMA HighAndLow ==
  ASSUME NEW c \in Bits(32)
  PROVE  /\ hi(c) \in DoubleWord /\ lo(c) \in DoubleWord
         /\ plus(XLEN, hi(c), lo(c)) \cap (0 .. 31) = c
         /\ (11 .. 30 \subseteq c => 31 \in c) => plus(XLEN, hi(c), lo(c)) = sext(32, 32, c)
<1>. DEFINE t == plus(32, c, {11})
            K == Carries(32, c, {11})
            h == hi(c)
            l == lo(c)
            s == plus(64, h, l)
            S == Carries(64, h, l)
<1>1. c \in SUBSET (0 .. 31) /\ {11} \in Bits(32)
  BY DEF Bits
<1>2. h \in DoubleWord /\ \A k \in 0 .. 63 :
        k \in h <=> IF k > 31 THEN 31 \in t ELSE k >= 12 /\ k \in t
  <2>1. h = (t \cap (12 .. 31)) \cup {k \in 32 .. 63 : 31 \in t}
    BY DEF hi, sext, XLEN
  <2>. QED
    BY <2>1 DEF DoubleWord, Bits, XLEN
<1>3. l \in DoubleWord /\ \A k \in 0 .. 63 : k \in l <=> IF k > 11 THEN 11 \in c ELSE k \in c
  <2>. DEFINE w == c \cap (0 .. 11)
              f == flip(w, 11)
  <2>1. l = minus(f, 11)
    BY DEF lo, sext, XLEN
  <2>2. CASE 11 \in c
    <3>1. f = w \ {11} /\ f \in SUBSET (0 .. 10)
      BY <2>2 DEF flip
    <3>2. minus(f, 11) = f \cup 11 .. 63
      BY <3>1 DEF minus, XLEN
    <3>. QED
      BY <2>1, <2>2, <3>1, <3>2 DEF DoubleWord, Bits, XLEN
  <2>3. CASE 11 \notin c
    <3>1. f = w \cup {11} /\ w \in SUBSET (0 .. 10)
      BY <2>3 DEF flip
    <3>2. minus(f, 11) = w
      BY <3>1 DEF minus, XLEN
    <3>. QED
      BY <2>1, <2>3, <3>1, <3>2 DEF DoubleWord, Bits, XLEN
  <2>. QED
    BY <2>2, <2>3
<1>4. h \in Bits(64) /\ l \in Bits(64) /\ s \in Bits(64)
  BY <1>2, <1>3, PlusType DEF DoubleWord, XLEN
<1>5. /\ 0 \notin K /\ 0 \notin S
      /\ \A k \in 0 .. 31 : /\ k + 1 \in K <=> Two(k \in c, k = 11, k \in K)
                            /\ k \in t <=> Odd(k \in c, k = 11, k \in K)
      /\ \A k \in 0 .. 63 : /\ k + 1 \in S <=> Two(k \in h, k \in l, k \in S)
                            /\ k \in s <=> Odd(k \in h, k \in l, k \in S)
  <2>1. ASSUME NEW k \in 0 .. 32 - 1
        PROVE  /\ 0 \notin K
               /\ k + 1 \in K <=> Two(k \in c, k = 11, k \in K)
               /\ k \in t <=> Odd(k \in c, k = 11, k \in K)
    <3>1. /\ 0 \notin K
          /\ k + 1 \in K <=> Two(k \in c, k \in {11}, k \in K)
          /\ k \in t <=> Odd(k \in c, k \in {11}, k \in K)
      BY <1>1, CarryStep
    <3>2. k \in {11} <=> k = 11
      OBVIOUS
    <3>. HIDE DEF K, t
    <3>. QED
      BY <3>1, <3>2 DEF Two, Odd
  <2>2. ASSUME NEW k \in 0 .. 64 - 1
        PROVE  /\ 0 \notin S
               /\ k + 1 \in S <=> Two(k \in h, k \in l, k \in S)
               /\ k \in s <=> Odd(k \in h, k \in l, k \in S)
    BY <1>4, CarryStep
  <2>. HIDE DEF K, t, S, s, h, l
  <2>. QED
    BY <2>1, <2>2
<1>6. 31 \in K /\ 11 \in c => (12 .. 30 \subseteq c)
  BY DEF Carries
<1>. HIDE DEF t, K, h, l, s, S
<1>7. \A k \in 0 .. 11 : k \notin K
  <2>. DEFINE T == {k \in 0 .. 11 : k \notin K}
  <2>1. 0 \in T
    BY <1>5
  <2>2. ASSUME NEW k \in 0 .. 11 - 1, k \in T PROVE k + 1 \in T
    <3>1. k \in 0 .. 31 /\ k # 11 /\ k \notin K
      BY <2>2
    <3>. QED
      BY <1>5, <3>1 DEF Two
  <2>. HIDE DEF T
  <2>3. 0 .. 11 \subseteq T
    BY <2>1, <2>2, Upward
  <2>. QED
    BY <2>3 DEF T
<1>8. 12 \in K <=> 11 \in c
  <2>1. 11 + 1 \in K <=> Two(11 \in c, 11 = 11, 11 \in K)
    BY <1>5
  <2>. QED
    BY <1>7, <2>1 DEF Two
<1>9. \A k \in 0 .. 12 : k \notin S
  <2>. DEFINE T == {k \in 0 .. 12 : k \notin S}
  <2>1. 0 \in T
    BY <1>5
  <2>2. ASSUME NEW k \in 0 .. 12 - 1, k \in T PROVE k + 1 \in T
    <3>1. k \in 0 .. 63 /\ k \notin h /\ k \notin S
      BY <1>2, <2>2
    <3>. QED
      BY <1>5, <3>1 DEF Two
  <2>. HIDE DEF T
  <2>3. 0 .. 12 \subseteq T
    BY <2>1, <2>2, Upward
  <2>. QED
    BY <2>3 DEF T
<1>10. ASSUME NEW k \in 0 .. 11 PROVE k \in s <=> k \in c
  <2>1. k \in 0 .. 63 /\ k \notin h /\ k \notin S /\ (k \in l <=> k \in c)
    BY <1>2, <1>3, <1>9
  <2>2. k \in s <=> Odd(k \in h, k \in l, k \in S)
    BY <1>5, <2>1
  <2>. QED
    BY <2>1, <2>2 DEF Odd
<1>11. ASSUME NEW k \in 12 .. 31
       PROVE  /\ k + 1 \in K <=> k \in c /\ k \in K
              /\ k \in h <=> Odd(k \in c, FALSE, k \in K)
              /\ k \in l <=> 11 \in c
  <2>1. k \in 0 .. 31 /\ k # 11
    OBVIOUS
  <2>2. k + 1 \in K <=> Two(k \in c, FALSE, k \in K)
    BY <1>5, <2>1
  <2>3. k \in t <=> Odd(k \in c, FALSE, k \in K)
    BY <1>5, <2>1
  <2>4. (k \in h <=> k \in t) /\ (k \in l <=> 11 \in c)
    BY <1>2, <1>3
  <2>. QED
    BY <2>2, <2>3, <2>4 DEF Two
<1>12. \A k \in 12 .. 32 : IF 11 \in c THEN k \in S <=> k \notin K ELSE k \notin S /\ k \notin K
  <2>. DEFINE T == {k \in 12 .. 32 :
                      IF 11 \in c THEN k \in S <=> k \notin K ELSE k \notin S /\ k \notin K}
  <2>1. 12 \in T
    BY <1>8, <1>9
  <2>2. ASSUME NEW k \in 12 .. 32 - 1, k \in T PROVE k + 1 \in T
    <3>1. /\ k + 1 \in K <=> k \in c /\ k \in K
          /\ k \in h <=> Odd(k \in c, FALSE, k \in K)
          /\ k \in l <=> 11 \in c
      <4>1. k + 1 \in K <=> k \in c /\ k \in K
        BY <1>11
      <4>2. k \in h <=> Odd(k \in c, FALSE, k \in K)
        BY <1>11 DEF Odd
      <4>3. k \in l <=> 11 \in c
        BY <1>11
      <4>. QED
        BY <4>1, <4>2, <4>3
    <3>2. k + 1 \in S <=> Two(k \in h, k \in l, k \in S)
      BY <1>5
    <3>3. IF 11 \in c THEN k \in S <=> k \notin K ELSE k \notin S /\ k \notin K
      BY <2>2
    <3>4. CASE 11 \in c
      <4>1. k + 1 \in S <=> k + 1 \notin K
        BY <3>1, <3>2, <3>3, <3>4 DEF Two, Odd
      <4>. QED
        BY <3>4, <4>1
    <3>5. CASE 11 \notin c
      <4>1. k + 1 \notin S /\ k + 1 \notin K
        BY <3>1, <3>2, <3>3, <3>5 DEF Two, Odd
      <4>. QED
        BY <3>5, <4>1
    <3>. QED
      BY <3>4, <3>5
  <2>. HIDE DEF T
  <2>3. 12 .. 32 \subseteq T
    BY <2>1, <2>2, Upward
  <2>. QED
    BY <2>3 DEF T
<1>13. ASSUME NEW k \in 12 .. 31 PROVE k \in s <=> k \in c
  <2>1. k \in s <=> Odd(k \in h, k \in l, k \in S)
    BY <1>5
  <2>2. /\ k \in h <=> Odd(k \in c, FALSE, k \in K)
        /\ k \in l <=> 11 \in c
    BY <1>11
  <2>3. IF 11 \in c THEN k \in S <=> k \notin K ELSE k \notin S /\ k \notin K
    BY <1>12
  <2>4. CASE 11 \in c
    BY <2>1, <2>2, <2>3, <2>4 DEF Odd
  <2>5. CASE 11 \notin c
    BY <2>1, <2>2, <2>3, <2>5 DEF Odd
  <2>. QED
    BY <2>4, <2>5
<1>14. s \cap (0 .. 31) = c
  <2>1. \A k \in 0 .. 31 : k \in s <=> k \in c
    BY <1>10, <1>13
  <2>. QED
    BY <1>1, <2>1
<1>15. ASSUME 11 .. 30 \subseteq c => 31 \in c
       PROVE  s = sext(32, 32, c)
  <2>1. sext(32, 32, c) = c \cup {k \in 32 .. 63 : 31 \in c}
    BY DEF sext, XLEN
  <2>2. 31 \in K /\ 11 \in c => 31 \in c
    <3>1. ASSUME 31 \in K, 11 \in c PROVE 11 .. 30 \subseteq c
      BY <1>6, <3>1
    <3>. QED
      BY <1>15, <3>1
  <2>3. /\ 32 \in K <=> 31 \in c /\ 31 \in K
        /\ 31 \in h <=> Odd(31 \in c, FALSE, 31 \in K)
    <3>1. 31 + 1 = 32 /\ 31 \in 12 .. 31
      OBVIOUS
    <3>2. 31 + 1 \in K <=> 31 \in c /\ 31 \in K
      BY <1>11, <3>1
    <3>3. 31 \in h <=> Odd(31 \in c, FALSE, 31 \in K)
      BY <1>11, <3>1
    <3>. QED
      BY <3>1, <3>2, <3>3
  <2>4. /\ IF 11 \in c THEN 32 \in S <=> 32 \notin K ELSE 32 \notin S /\ 32 \notin K
        /\ 11 \notin c => 31 \notin K
    BY <1>12
  <2>5. \A k \in 32 .. 63 : (k \in h <=> 31 \in h) /\ (k \in l <=> 11 \in c)
    BY <1>2, <1>3
  <2>6. \A k \in 32 .. 64 : k \in S <=> 32 \in S
    <3>. DEFINE T == {k \in 32 .. 64 : k \in S <=> 32 \in S}
    <3>1. 32 \in T
      OBVIOUS
    <3>2. ASSUME NEW k \in 32 .. 64 - 1, k \in T PROVE k + 1 \in T
      <4>1. k + 1 \in S <=> Two(k \in h, k \in l, k \in S)
        BY <1>5
      <4>2. (k \in h <=> 31 \in h) /\ (k \in l <=> 11 \in c) /\ (k \in S <=> 32 \in S)
        BY <2>5, <3>2
      <4>3. k + 1 \in S <=> 32 \in S
        BY <2>2, <2>3, <2>4, <4>1, <4>2 DEF Two, Odd
      <4>. QED
        BY <4>3
    <3>. HIDE DEF T
    <3>3. 32 .. 64 \subseteq T
      BY <3>1, <3>2, Upward
    <3>. QED
      BY <3>3 DEF T
  <2>7. ASSUME NEW k \in 32 .. 63 PROVE k \in s <=> 31 \in c
    <3>1. k \in s <=> Odd(k \in h, k \in l, k \in S)
      BY <1>5
    <3>2. (k \in h <=> 31 \in h) /\ (k \in l <=> 11 \in c) /\ (k \in S <=> 32 \in S)
      BY <2>5, <2>6
    <3>. QED
      BY <2>2, <2>3, <2>4, <3>1, <3>2 DEF Odd
  <2>8. \A k \in 0 .. 64 - 1 : k \in s <=> k \in sext(32, 32, c)
    BY <1>1, <1>10, <1>13, <2>1, <2>7
  <2>9. sext(32, 32, c) \in Bits(64)
    <3>1. \A k \in sext(32, 32, c) : k \in 0 .. 64 - 1
      <4>1. \A k \in c : k \in 0 .. 64 - 1
        BY <1>1
      <4>2. \A k \in {j \in 32 .. 63 : 31 \in c} : k \in 0 .. 64 - 1
        OBVIOUS
      <4>. QED
        BY <2>1, <4>1, <4>2
    <3>. QED
      BY <3>1 DEF Bits
  <2>. QED
    BY <1>4, <2>8, <2>9, SameBits
<1>. QED
  BY <1>2, <1>3, <1>14, <1>15 DEF s, h, l, XLEN

LEMMA ConstantIn ==
  ASSUME ConstantPrograms, CodeOK, StraightOn, IsProgram("constant")
  PROVE  gprs[3] = extended(start.program[2])
<1>. DEFINE g == start.gprs
            c == start.program[2]
            s == Constant(c)
<1>1. c \in Bits(32) /\ Runs(s) /\ Done
  BY DEF ConstantPrograms, CodeOK, IsProgram, Starting, Runs
<1>2. DOMAIN s = 1 .. 2 /\ s[1] = I("lui", 3, 0, hi(c)) /\ s[2] = I("addiw", 3, 3, lo(c))
  BY DEF Constant
<1>. HIDE DEF s, c
<1>3. /\ s[1].id = "lui" /\ s[1].rd = 3 /\ s[1].imm = hi(c)
      /\ s[2].id = "addiw" /\ s[2].rd = 3 /\ s[2].rs1 = 3 /\ s[2].imm = lo(c)
  BY <1>2 DEF I, Instr
<1>4. DOMAIN s = 1 .. 2 /\ \A j \in 1 .. 2 : s[j].id \in Plain
  BY <1>2, <1>3 DEF Plain, RegImmW
<1>5. gprs = ran(s, g, 2)
  BY <1>1, <1>4, EndOf
<1>6. 3 \in Reg
  <2>1. \A j \in 1 .. 2 : s[j].rd \in Reg /\ s[j].rs1 \in Reg /\ s[j].rs2 \in Reg
    BY <1>1, <1>4, EndOf
  <2>. QED
    BY <1>3, <2>1
<1>. DEFINE g1 == after(s[1], g)
<1>7. g1[3] = hi(c)
  <2>1. value(s[1], g) = hi(c)
    BY <1>3 DEF value, RegReg, RegImm, RegRegW, RegImmW
  <2>. QED
    BY <1>3, <1>6, <2>1 DEF after
<1>8. gprs = after(s[2], g1)
  BY <1>5, Ran2
<1>. HIDE DEF g1
<1>9. gprs[3] = sext_word(Result("addiw", g1[3], lo(c)))
  <2>1. value(s[2], g1) = sext_word(Result("addiw", g1[3], lo(c)))
    BY <1>3 DEF value, RegReg, RegImm, RegRegW, RegImmW
  <2>. QED
    BY <1>3, <1>6, <1>8, <2>1 DEF after
<1>10. Result("addiw", g1[3], lo(c)) = plus(XLEN, hi(c), lo(c))
  BY <1>7 DEF Result
<1>11. plus(XLEN, hi(c), lo(c)) \in DoubleWord /\ plus(XLEN, hi(c), lo(c)) \cap (0 .. 31) = c
  <2>1. hi(c) \in DoubleWord /\ lo(c) \in DoubleWord
    BY <1>1, HighAndLow
  <2>2. plus(XLEN, hi(c), lo(c)) \in DoubleWord
    BY <2>1, PlusType DEF DoubleWord, XLEN
  <2>. QED
    BY <1>1, <2>2, HighAndLow
<1>12. gprs[3] = extended(c)
  BY <1>1, <1>9, <1>10, <1>11, ExtendedAgree
<1>. QED
  BY <1>12 DEF c

\* lui and addiw load every constant of 32 bits.
THEOREM ConstantsRight == ASSUME ConstantPrograms PROVE Spec => []ConstantsLoaded
<1>1. TypeOK /\ CodeOK /\ StraightOn => ConstantsLoaded
  BY ConstantIn DEF ConstantsLoaded
<1>. QED
  BY <1>1, StraightThroughout, PTL

-----------------------------------------------------------------------------
(* Calls. *)

LEMMA PlusAssociative ==
  ASSUME NEW n \in Nat, NEW a \in Bits(n), NEW b \in Bits(n), NEW c \in Bits(n)
  PROVE  plus(n, plus(n, a, b), c) = plus(n, a, plus(n, b, c))
<1>. DEFINE p == plus(n, a, b)
            q == plus(n, b, c)
            l == plus(n, p, c)
            r == plus(n, a, q)
            C1 == Carries(n, a, b)
            C2 == Carries(n, p, c)
            D1 == Carries(n, b, c)
            D2 == Carries(n, a, q)
            T == {k \in 0 .. n : /\ k \in C1 /\ k \in C2 <=> k \in D1 /\ k \in D2
                                 /\ k \in C1 \/ k \in C2 <=> k \in D1 \/ k \in D2}
<1>1. p \in Bits(n) /\ q \in Bits(n)
  BY PlusType
<1>2. l \in Bits(n) /\ r \in Bits(n)
  BY <1>1, PlusType
<1>3. 0 \in T
  <2>1. 0 \notin C1 /\ 0 \notin C2 /\ 0 \notin D1 /\ 0 \notin D2
    BY DEF Carries
  <2>. QED
    BY <2>1
<1>4. ASSUME NEW k \in 0 .. n - 1
      PROVE  /\ k + 1 \in C1 <=> Two(k \in a, k \in b, k \in C1)
             /\ k \in p <=> Odd(k \in a, k \in b, k \in C1)
             /\ k + 1 \in C2 <=> Two(k \in p, k \in c, k \in C2)
             /\ k \in l <=> Odd(k \in p, k \in c, k \in C2)
             /\ k + 1 \in D1 <=> Two(k \in b, k \in c, k \in D1)
             /\ k \in q <=> Odd(k \in b, k \in c, k \in D1)
             /\ k + 1 \in D2 <=> Two(k \in a, k \in q, k \in D2)
             /\ k \in r <=> Odd(k \in a, k \in q, k \in D2)
  <2>1. /\ k + 1 \in C1 <=> Two(k \in a, k \in b, k \in C1)
        /\ k \in p <=> Odd(k \in a, k \in b, k \in C1)
    BY CarryStep
  <2>2. /\ k + 1 \in C2 <=> Two(k \in p, k \in c, k \in C2)
        /\ k \in l <=> Odd(k \in p, k \in c, k \in C2)
    BY <1>1, CarryStep
  <2>3. /\ k + 1 \in D1 <=> Two(k \in b, k \in c, k \in D1)
        /\ k \in q <=> Odd(k \in b, k \in c, k \in D1)
    BY CarryStep
  <2>4. /\ k + 1 \in D2 <=> Two(k \in a, k \in q, k \in D2)
        /\ k \in r <=> Odd(k \in a, k \in q, k \in D2)
    BY <1>1, CarryStep
  <2>. HIDE DEF p, q, l, r, C1, C2, D1, D2
  <2>. QED
    BY <2>1, <2>2, <2>3, <2>4
<1>. HIDE DEF p, q, l, r, C1, C2, D1, D2
<1>5. ASSUME NEW k \in 0 .. n - 1, k \in T
      PROVE  k + 1 \in T /\ (k \in l <=> k \in r)
  <2>1. /\ k \in C1 /\ k \in C2 <=> k \in D1 /\ k \in D2
        /\ k \in C1 \/ k \in C2 <=> k \in D1 \/ k \in D2
    BY <1>5
  <2>. HIDE DEF T
  <2>2. /\ k + 1 \in C1 /\ k + 1 \in C2 <=> k + 1 \in D1 /\ k + 1 \in D2
        /\ k + 1 \in C1 \/ k + 1 \in C2 <=> k + 1 \in D1 \/ k + 1 \in D2
        /\ k \in l <=> k \in r
    <3>1. CASE k \in a /\ k \in b
      BY <1>4, <2>1, <3>1 DEF Two, Odd
    <3>2. CASE k \in a /\ k \notin b
      BY <1>4, <2>1, <3>2 DEF Two, Odd
    <3>3. CASE k \notin a /\ k \in b
      BY <1>4, <2>1, <3>3 DEF Two, Odd
    <3>4. CASE k \notin a /\ k \notin b
      BY <1>4, <2>1, <3>4 DEF Two, Odd
    <3>. QED
      BY <3>1, <3>2, <3>3, <3>4
  <2>. QED
    BY <2>2 DEF T
<1>. HIDE DEF T
<1>6. 0 .. n \subseteq T
  BY <1>3, <1>5, Upward
<1>7. \A k \in 0 .. n - 1 : k \in l <=> k \in r
  BY <1>5, <1>6
<1>8. l = r
  BY <1>2, <1>7, SameBits
<1>. QED
  BY <1>8 DEF l, r, p, q

\* A function at t behind its caller.
LEMMA LinkedCode ==
  ASSUME NEW s, NEW n \in 2 .. 3, DOMAIN s = 1 .. n, NEW t \in DoubleWord,
         {Address(Base, j) : j \in 1 .. n + 1} \cap {Address(t, j) : j \in 1 .. 2} = {}
  PROVE  LET all == Linked(Code(Base, s), Code(t, Callee))
             t2 == plus(XLEN, t, ILEN)
         IN  /\ DOMAIN all = {Address(Base, j) : j \in 1 .. n} \cup {t, t2}
             /\ \A j \in 1 .. n : all[Address(Base, j)] = s[j]
             /\ all[t] = I("addi", 4, 0, Num(2)) /\ all[t2] = I("jalr", 0, 1, {})
             /\ \A j \in 1 .. n + 1 : Address(Base, j) \notin {t, t2}
<1>. DEFINE all == Linked(Code(Base, s), Code(t, Callee))
            t2 == plus(XLEN, t, ILEN)
            own == {Address(Base, j) : j \in 1 .. n}
<1>1. Address(t, 1) = t /\ Address(t, 2) = t2
  <2>1. 4 * (1 - 1) = 0 /\ 4 * (2 - 1) = 4
    OBVIOUS
  <2>2. plus(64, t, {}) = t
    <3>1. Carries(64, t, {}) = {}
      BY DEF Carries
    <3>2. 64 \notin t
      BY DEF DoubleWord, Bits, XLEN
    <3>. QED
      BY <3>1, <3>2 DEF plus, xor
  <2>. QED
    BY <2>1, <2>2, Numbers DEF Address, XLEN, ILEN
<1>2. t2 # t
  <2>1. t \in Bits(64) /\ {2} \in Bits(64) /\ 2 \in 0 .. 64 - 1
    BY DEF DoubleWord, Bits, XLEN
  <2>2. 2 \in t2 <=> Odd(2 \in t, 2 \in {2}, 2 \in Carries(64, t, {2}))
    BY <2>1, CarryStep DEF XLEN, ILEN
  <2>3. 2 \notin Carries(64, t, {2})
    BY DEF Carries
  <2>. QED
    BY <2>2, <2>3 DEF Odd
<1>3. DOMAIN Callee = 1 .. 2 /\ Callee[1] = I("addi", 4, 0, Num(2)) /\ Callee[2] = I("jalr", 0, 1, {})
  BY DEF Callee
<1>. HIDE DEF t2
<1>4. DOMAIN Code(t, Callee) = {t, t2}
  BY <1>1, <1>3 DEF Code
<1>5. Code(t, Callee)[t] = Callee[1] /\ Code(t, Callee)[t2] = Callee[2]
  <2>1. \A a \in {t, t2} : Code(t, Callee)[a] = Callee[CHOOSE j \in 1 .. 2 : Address(t, j) = a]
    BY <1>1, <1>3 DEF Code
  <2>2. (CHOOSE j \in 1 .. 2 : Address(t, j) = t) = 1
    BY <1>1, <1>2
  <2>3. (CHOOSE j \in 1 .. 2 : Address(t, j) = t2) = 2
    BY <1>1, <1>2
  <2>. QED
    BY <2>1, <2>2, <2>3
<1>6. n \in 1 .. 5 /\ DOMAIN Code(Base, s) = own
  <2>1. n \in 1 .. 5 /\ DOMAIN s = 1 .. n
    OBVIOUS
  <2>. QED
    BY <2>1, CodeAt, Zenon
<1>7. \A j \in 1 .. n : Code(Base, s)[Address(Base, j)] = s[j]
  <2>1. n \in 1 .. 5 /\ DOMAIN s = 1 .. n
    OBVIOUS
  <2>. QED
    BY <2>1, CodeAt, Zenon
<1>8. \A j \in 1 .. n + 1 : Address(Base, j) \notin {t, t2}
  <2>1. {Address(t, j) : j \in 1 .. 2} = {t, t2}
    BY <1>1
  <2>. QED
    BY <2>1
<1>9. t \notin own /\ t2 \notin own
  BY <1>8
<1>. HIDE DEF own
<1>10. DOMAIN all = own \cup {t, t2}
  BY <1>4, <1>6 DEF Linked
<1>11. \A a \in own : all[a] = Code(Base, s)[a]
  BY <1>4, <1>6 DEF Linked
<1>12. all[t] = Code(t, Callee)[t] /\ all[t2] = Code(t, Callee)[t2]
  BY <1>4, <1>6, <1>9 DEF Linked
<1>13. \A j \in 1 .. n : all[Address(Base, j)] = s[j]
  BY <1>7, <1>11 DEF own
<1>. HIDE DEF all
<1>. QED
  BY <1>3, <1>5, <1>8, <1>10, <1>12, <1>13 DEF all, own, t2

\* The instructions of the calls, on any state.
LEMMA ToRegister ==
  ASSUME TypeOK, NEW r \in Reg, r # 0, NEW w \in DoubleWord, set_reg(r, w)
  PROVE  gprs'[r] = w /\ \A q \in Reg \ {r} : gprs'[q] = gprs[q]
BY DEF TypeOK, set_reg

\* The way of a call by a register: the address put together, the link set, the
\* function run, and back.
CallOn ==
  start.program[1] = "call" =>
    LET via == start.program[2]
        t == Target(start.program[3])
    IN  \/ pc = Address(Base, 1)
        \/ pc = Address(Base, 2) /\ gprs[via] = plus(XLEN, Base, hi(start.program[3]))
        \/ pc = t /\ gprs[1] = Address(Base, 3)
        \/ pc = plus(XLEN, t, ILEN) /\ gprs[1] = Address(Base, 3) /\ gprs[4] = {1}
        \/ pc = Address(Base, 3) /\ gprs[4] = {1}
        \/ pc = Address(Base, 4) /\ gprs[4] = {1} /\ gprs[3] = {0}

LEMMA TargetOf ==
  ASSUME NEW c \in Bits(32), 11 .. 30 \subseteq c => 31 \in c
  PROVE  /\ Target(c) \in DoubleWord
         /\ plus(XLEN, plus(XLEN, Base, hi(c)), lo(c)) \ {0} = Target(c)
         /\ plus(XLEN, Base, hi(c)) \in DoubleWord
<1>1. hi(c) \in Bits(64) /\ lo(c) \in Bits(64) /\ plus(64, hi(c), lo(c)) = sext(32, 32, c)
  BY HighAndLow DEF DoubleWord, XLEN
<1>2. Base \in Bits(64)
  BY DEF Base, Bits
<1>3. plus(64, plus(64, Base, hi(c)), lo(c)) = plus(64, Base, plus(64, hi(c), lo(c)))
  BY <1>1, <1>2, PlusAssociative
<1>4. plus(64, Base, hi(c)) \in Bits(64)
  BY <1>1, <1>2, PlusType
<1>5. plus(64, plus(64, Base, hi(c)), lo(c)) \in Bits(64)
  BY <1>1, <1>4, PlusType
<1>6. plus(64, plus(64, Base, hi(c)), lo(c)) \ {0} = Target(c)
  BY <1>1, <1>3 DEF Target, XLEN
<1>. QED
  BY <1>4, <1>5, <1>6 DEF XLEN, DoubleWord, Bits

LEMMA CallStart ==
  ASSUME CallPrograms, CodeOK, start.program[1] = "call"
  PROVE  LET via == start.program[2]
             c == start.program[3]
             t == Target(c)
             t2 == plus(XLEN, t, ILEN)
         IN  /\ via \in Reg \ {0, 1} /\ 1 \in Reg /\ 3 \in Reg /\ 4 \in Reg
             /\ hi(c) \in DoubleWord /\ lo(c) \in DoubleWord
             /\ plus(XLEN, plus(XLEN, Base, hi(c)), lo(c)) \ {0} = t
             /\ plus(XLEN, Base, hi(c)) \in DoubleWord
             /\ DOMAIN code = {Address(Base, 1), Address(Base, 2), Address(Base, 3), t, t2}
             /\ code[Address(Base, 1)] = I("auipc", via, 0, hi(c))
             /\ code[Address(Base, 2)] = I("jalr", 1, via, lo(c))
             /\ code[Address(Base, 3)] = I("addi", 3, 0, Num(1))
             /\ code[t] = I("addi", 4, 0, Num(2))
             /\ code[t2] = I("jalr", 0, 1, {})
             /\ Address(Base, 4) \notin {t, t2}
<1>. DEFINE via == start.program[2]
            c == start.program[3]
            t == Target(c)
            t2 == plus(XLEN, t, ILEN)
            s == Caller(via, c)
<1>1. /\ via \notin {0, 1} /\ c \in Bits(32) /\ (11 .. 30 \subseteq c => 31 \in c)
      /\ {Address(Base, j) : j \in 1 .. 4} \cap {Address(t, j) : j \in 1 .. 2} = {}
      /\ start.code = Linked(Code(Base, s), Code(t, Callee))
  BY DEF CallPrograms, CodeOK, Starting
<1>2. DOMAIN s = 1 .. 3 /\ s[1] = I("auipc", via, 0, hi(c)) /\ s[2] = I("jalr", 1, via, lo(c))
      /\ s[3] = I("addi", 3, 0, Num(1))
  BY DEF Caller
<1>. HIDE DEF s, c, via
<1>3. /\ t \in DoubleWord /\ plus(XLEN, plus(XLEN, Base, hi(c)), lo(c)) \ {0} = t
      /\ plus(XLEN, Base, hi(c)) \in DoubleWord
  BY <1>1, TargetOf
<1>4. hi(c) \in DoubleWord /\ lo(c) \in DoubleWord
  BY <1>1, HighAndLow
<1>. HIDE DEF t
<1>5. DOMAIN s = 1 .. 3
  BY <1>2
<1>6. /\ DOMAIN code = {Address(Base, j) : j \in 1 .. 3} \cup {t, t2}
      /\ \A j \in 1 .. 3 : code[Address(Base, j)] = s[j]
      /\ code[t] = I("addi", 4, 0, Num(2)) /\ code[t2] = I("jalr", 0, 1, {})
      /\ \A j \in 1 .. 4 : Address(Base, j) \notin {t, t2}
  <2>1. PICK n \in 2 .. 3 : n = 3
    OBVIOUS
  <2>2. DOMAIN s = 1 .. n
        /\ {Address(Base, j) : j \in 1 .. n + 1} \cap {Address(t, j) : j \in 1 .. 2} = {}
    BY <1>1, <1>5, <2>1
  <2>3. /\ DOMAIN Linked(Code(Base, s), Code(t, Callee)) = {Address(Base, j) : j \in 1 .. n} \cup {t, t2}
        /\ \A j \in 1 .. n : Linked(Code(Base, s), Code(t, Callee))[Address(Base, j)] = s[j]
        /\ Linked(Code(Base, s), Code(t, Callee))[t] = I("addi", 4, 0, Num(2))
        /\ Linked(Code(Base, s), Code(t, Callee))[t2] = I("jalr", 0, 1, {})
        /\ \A j \in 1 .. n + 1 : Address(Base, j) \notin {t, t2}
    <3>1. t \in DoubleWord
      BY <1>3
    <3>2. DOMAIN Linked(Code(Base, s), Code(t, Callee)) = {Address(Base, j) : j \in 1 .. n} \cup {t, t2}
      BY <2>2, <3>1, LinkedCode
    <3>3. \A j \in 1 .. n : Linked(Code(Base, s), Code(t, Callee))[Address(Base, j)] = s[j]
      BY <2>2, <3>1, LinkedCode
    <3>4. /\ Linked(Code(Base, s), Code(t, Callee))[t] = I("addi", 4, 0, Num(2))
          /\ Linked(Code(Base, s), Code(t, Callee))[t2] = I("jalr", 0, 1, {})
      BY <2>2, <3>1, LinkedCode
    <3>5. \A j \in 1 .. n + 1 : Address(Base, j) \notin {t, t2}
      BY <2>2, <3>1, LinkedCode
    <3>. QED
      BY <3>2, <3>3, <3>4, <3>5
  <2>4. code = Linked(Code(Base, s), Code(t, Callee))
    BY <1>1 DEF code
  <2>. QED
    BY <2>1, <2>3, <2>4
<1>7. \A a \in DOMAIN code : Instruction(code[a])
  BY StartsAssumption DEF CodeOK, code
<1>8. \A a \in {Address(Base, 1), Address(Base, 2), Address(Base, 3), t} : a \in DOMAIN code
  BY <1>6
<1>9. Instruction(s[1]) /\ Instruction(s[2]) /\ Instruction(s[3]) /\ Instruction(code[t])
  BY <1>6, <1>7, <1>8
<1>10. via \in Reg /\ 1 \in Reg /\ 3 \in Reg /\ 4 \in Reg
  BY <1>2, <1>6, <1>9 DEF Instruction, I, Instr
<1>11. DOMAIN code = {Address(Base, 1), Address(Base, 2), Address(Base, 3), t, t2}
  BY <1>6
<1>12. /\ code[Address(Base, 1)] = s[1] /\ code[Address(Base, 2)] = s[2]
       /\ code[Address(Base, 3)] = s[3] /\ Address(Base, 4) \notin {t, t2}
  BY <1>6
<1>. QED
  BY <1>1, <1>2, <1>3, <1>4, <1>6, <1>10, <1>11, <1>12 DEF via, c, t

LEMMA CallStep ==
  ASSUME CallPrograms, TypeOK, CodeOK, CallOn, Next, start.program[1] = "call"
  PROVE  CallOn'
<1>. DEFINE via == start.program[2]
            c == start.program[3]
            t == Target(c)
            t2 == plus(XLEN, t, ILEN)
            i == code[pc]
<1>1. /\ via \in Reg \ {0, 1} /\ 1 \in Reg /\ 3 \in Reg /\ 4 \in Reg
      /\ hi(c) \in DoubleWord /\ lo(c) \in DoubleWord
      /\ plus(XLEN, plus(XLEN, Base, hi(c)), lo(c)) \ {0} = t
      /\ plus(XLEN, Base, hi(c)) \in DoubleWord
      /\ code[Address(Base, 1)] = I("auipc", via, 0, hi(c))
      /\ code[Address(Base, 2)] = I("jalr", 1, via, lo(c))
      /\ code[Address(Base, 3)] = I("addi", 3, 0, Num(1))
      /\ code[t] = I("addi", 4, 0, Num(2))
      /\ code[t2] = I("jalr", 0, 1, {})
  BY CallStart
<1>2. /\ start' = start /\ pc \in DOMAIN code
      /\ DOMAIN code = {Address(Base, 1), Address(Base, 2), Address(Base, 3), t, t2}
      /\ Address(Base, 4) \notin {t, t2}
  BY CallStart DEF Next
<1>3. /\ plus(XLEN, Address(Base, 1), ILEN) = Address(Base, 2)
      /\ plus(XLEN, Address(Base, 2), ILEN) = Address(Base, 3)
      /\ plus(XLEN, Address(Base, 3), ILEN) = Address(Base, 4)
  BY NextAddress
<1>4. next_pc \in DoubleWord /\ gprs \in [Reg -> DoubleWord] /\ gprs[0] = {}
  BY NextPcType DEF TypeOK
<1>5. /\ \/ pc = Address(Base, 1)
         \/ pc = Address(Base, 2) /\ gprs[via] = plus(XLEN, Base, hi(c))
         \/ pc = t /\ gprs[1] = Address(Base, 3)
         \/ pc = t2 /\ gprs[1] = Address(Base, 3) /\ gprs[4] = {1}
         \/ pc = Address(Base, 3) /\ gprs[4] = {1}
         \/ pc = Address(Base, 4) /\ gprs[4] = {1} /\ gprs[3] = {0}
  BY DEF CallOn
<1>6. SUFFICES \/ pc' = Address(Base, 2) /\ gprs'[via] = plus(XLEN, Base, hi(c))
               \/ pc' = t /\ gprs'[1] = Address(Base, 3)
               \/ pc' = t2 /\ gprs'[1] = Address(Base, 3) /\ gprs'[4] = {1}
               \/ pc' = Address(Base, 3) /\ gprs'[4] = {1}
               \/ pc' = Address(Base, 4) /\ gprs'[4] = {1} /\ gprs'[3] = {0}
  BY <1>2 DEF CallOn
<1>. HIDE DEF via, c, t, t2, i
<1>7. CASE pc = Address(Base, 1)
  <2>1. i = I("auipc", via, 0, hi(c))
    BY <1>1, <1>7 DEF i
  <2>2. i.id = "auipc" /\ i.rd = via /\ i.imm = hi(c)
    BY <2>1 DEF I, Instr
  <2>3. exec_auipc(i)
    BY <2>2, HandlerOf DEF i
  <2>4. set_reg(via, plus(XLEN, Address(Base, 1), hi(c))) /\ pc' = next_pc
    BY <1>7, <2>2, <2>3 DEF exec_auipc
  <2>5. Address(Base, 1) = Base
    BY Addresses DEF Base
  <2>6. gprs'[via] = plus(XLEN, Base, hi(c))
    BY <1>1, <2>4, <2>5, ToRegister
  <2>. QED
    BY <1>3, <1>7, <2>4, <2>6 DEF next_pc
<1>8. CASE pc = Address(Base, 2) /\ gprs[via] = plus(XLEN, Base, hi(c))
  <2>1. i = I("jalr", 1, via, lo(c))
    BY <1>1, <1>8 DEF i
  <2>2. i.id = "jalr" /\ i.rd = 1 /\ i.rs1 = via /\ i.imm = lo(c)
    BY <2>1 DEF I, Instr
  <2>3. exec_jalr(i)
    BY <2>2, HandlerOf DEF i
  <2>4. set_reg(1, next_pc) /\ pc' = plus(XLEN, gprs'[via], lo(c)) \ {0}
    BY <2>2, <2>3 DEF exec_jalr
  <2>5. gprs'[1] = next_pc /\ gprs'[via] = gprs[via]
    BY <1>1, <1>4, <2>4, ToRegister
  <2>. QED
    BY <1>1, <1>3, <1>8, <2>4, <2>5 DEF next_pc
<1>9. CASE pc = t /\ gprs[1] = Address(Base, 3)
  <2>1. code[pc] = I("addi", 4, 0, Num(2))
    BY <1>1, <1>9
  <2>2. gprs'[4] = {2 - 1} /\ gprs'[1] = gprs[1] /\ pc' = next_pc
    BY <1>1, <2>1, AddImmediate
  <2>. QED
    BY <1>9, <2>2 DEF next_pc, t2
<1>10. CASE pc = t2 /\ gprs[1] = Address(Base, 3) /\ gprs[4] = {1}
  <2>1. i = I("jalr", 0, 1, {})
    BY <1>1, <1>10 DEF i
  <2>2. i.id = "jalr" /\ i.rd = 0 /\ i.rs1 = 1 /\ i.imm = {}
    BY <2>1 DEF I, Instr
  <2>3. exec_jalr(i)
    BY <2>2, HandlerOf DEF i
  <2>4. gprs' = gprs /\ pc' = plus(XLEN, Address(Base, 3), {}) \ {0}
    BY <1>10, <2>2, <2>3 DEF exec_jalr, set_reg
  <2>5. plus(XLEN, Address(Base, 3), {}) \ {0} = Address(Base, 3)
    BY Addresses DEF plus, xor, Carries, XLEN
  <2>. QED
    BY <1>10, <2>4, <2>5
<1>11. CASE pc = Address(Base, 3) /\ gprs[4] = {1}
  <2>1. code[pc] = I("addi", 3, 0, Num(1))
    BY <1>1, <1>11
  <2>2. gprs'[3] = {1 - 1} /\ gprs'[4] = gprs[4] /\ pc' = next_pc
    BY <1>1, <2>1, AddImmediate
  <2>. QED
    BY <1>3, <1>11, <2>2 DEF next_pc
<1>12. pc # Address(Base, 4)
  <2>1. /\ Address(Base, 4) # Address(Base, 1) /\ Address(Base, 4) # Address(Base, 2)
        /\ Address(Base, 4) # Address(Base, 3)
    BY AddressesDiffer
  <2>. QED
    BY <1>2, <2>1
<1>. QED
  BY <1>5, <1>7, <1>8, <1>9, <1>10, <1>11, <1>12

\* The way of a call by its offset.
NearOn ==
  start.program[1] = "near" =>
    LET t == plus(XLEN, Base, start.program[2])
    IN  \/ pc = Address(Base, 1)
        \/ pc = t /\ gprs[1] = Address(Base, 2)
        \/ pc = plus(XLEN, t, ILEN) /\ gprs[1] = Address(Base, 2) /\ gprs[4] = {1}
        \/ pc = Address(Base, 2) /\ gprs[4] = {1}
        \/ pc = Address(Base, 3) /\ gprs[4] = {1} /\ gprs[3] = {0}

LEMMA NearStart ==
  ASSUME CallPrograms, CodeOK, start.program[1] = "near"
  PROVE  LET c == start.program[2]
             t == plus(XLEN, Base, c)
             t2 == plus(XLEN, t, ILEN)
         IN  /\ 1 \in Reg /\ 3 \in Reg /\ 4 \in Reg
             /\ DOMAIN code = {Address(Base, 1), Address(Base, 2), t, t2}
             /\ code[Address(Base, 1)] = I("jal", 1, 0, c)
             /\ code[Address(Base, 2)] = I("addi", 3, 0, Num(1))
             /\ code[t] = I("addi", 4, 0, Num(2))
             /\ code[t2] = I("jalr", 0, 1, {})
             /\ Address(Base, 3) \notin {t, t2}
<1>. DEFINE c == start.program[2]
            t == plus(XLEN, Base, c)
            t2 == plus(XLEN, t, ILEN)
            s == NearCaller(c)
<1>1. /\ c \in DoubleWord
      /\ {Address(Base, j) : j \in 1 .. 3} \cap {Address(t, j) : j \in 1 .. 2} = {}
      /\ start.code = Linked(Code(Base, s), Code(t, Callee))
  BY DEF CallPrograms, CodeOK, Starting
<1>2. DOMAIN s = 1 .. 2 /\ s[1] = I("jal", 1, 0, c) /\ s[2] = I("addi", 3, 0, Num(1))
  BY DEF NearCaller
<1>3. t \in DoubleWord
  <2>1. Base \in Bits(64)
    BY DEF Base, Bits
  <2>. QED
    BY <1>1, <2>1, PlusType DEF DoubleWord, XLEN
<1>. HIDE DEF s, c, t
<1>4. DOMAIN s = 1 .. 2
  BY <1>2
<1>5. /\ DOMAIN code = {Address(Base, j) : j \in 1 .. 2} \cup {t, t2}
      /\ \A j \in 1 .. 2 : code[Address(Base, j)] = s[j]
      /\ code[t] = I("addi", 4, 0, Num(2)) /\ code[t2] = I("jalr", 0, 1, {})
      /\ \A j \in 1 .. 3 : Address(Base, j) \notin {t, t2}
  <2>1. PICK n \in 2 .. 3 : n = 2
    OBVIOUS
  <2>2. DOMAIN s = 1 .. n
        /\ {Address(Base, j) : j \in 1 .. n + 1} \cap {Address(t, j) : j \in 1 .. 2} = {}
    BY <1>1, <1>4, <2>1
  <2>3. DOMAIN Linked(Code(Base, s), Code(t, Callee)) = {Address(Base, j) : j \in 1 .. n} \cup {t, t2}
    BY <1>3, <2>2, LinkedCode
  <2>4. \A j \in 1 .. n : Linked(Code(Base, s), Code(t, Callee))[Address(Base, j)] = s[j]
    BY <1>3, <2>2, LinkedCode
  <2>5. /\ Linked(Code(Base, s), Code(t, Callee))[t] = I("addi", 4, 0, Num(2))
        /\ Linked(Code(Base, s), Code(t, Callee))[t2] = I("jalr", 0, 1, {})
    BY <1>3, <2>2, LinkedCode
  <2>6. \A j \in 1 .. n + 1 : Address(Base, j) \notin {t, t2}
    BY <1>3, <2>2, LinkedCode
  <2>7. code = Linked(Code(Base, s), Code(t, Callee))
    BY <1>1 DEF code
  <2>. QED
    BY <2>1, <2>3, <2>4, <2>5, <2>6, <2>7
<1>6. \A a \in DOMAIN code : Instruction(code[a])
  BY StartsAssumption DEF CodeOK, code
<1>7. \A a \in {Address(Base, 1), Address(Base, 2), t} : a \in DOMAIN code
  BY <1>5
<1>8. Instruction(s[1]) /\ Instruction(s[2]) /\ Instruction(code[t])
  BY <1>5, <1>6, <1>7
<1>9. 1 \in Reg /\ 3 \in Reg /\ 4 \in Reg
  BY <1>2, <1>5, <1>8 DEF Instruction, I, Instr
<1>10. DOMAIN code = {Address(Base, 1), Address(Base, 2), t, t2}
  BY <1>5
<1>11. /\ code[Address(Base, 1)] = s[1] /\ code[Address(Base, 2)] = s[2]
       /\ Address(Base, 3) \notin {t, t2}
  BY <1>5
<1>. QED
  BY <1>2, <1>5, <1>9, <1>10, <1>11 DEF c, t

LEMMA NearStep ==
  ASSUME CallPrograms, TypeOK, CodeOK, NearOn, Next, start.program[1] = "near"
  PROVE  NearOn'
<1>. DEFINE c == start.program[2]
            t == plus(XLEN, Base, c)
            t2 == plus(XLEN, t, ILEN)
            i == code[pc]
<1>1. /\ 1 \in Reg /\ 3 \in Reg /\ 4 \in Reg
      /\ code[Address(Base, 1)] = I("jal", 1, 0, c)
      /\ code[Address(Base, 2)] = I("addi", 3, 0, Num(1))
      /\ code[t] = I("addi", 4, 0, Num(2))
      /\ code[t2] = I("jalr", 0, 1, {})
  BY NearStart
<1>2. start' = start /\ pc \in DOMAIN code
      /\ DOMAIN code = {Address(Base, 1), Address(Base, 2), t, t2} /\ Address(Base, 3) \notin {t, t2}
  BY NearStart DEF Next
<1>3. /\ plus(XLEN, Address(Base, 1), ILEN) = Address(Base, 2)
      /\ plus(XLEN, Address(Base, 2), ILEN) = Address(Base, 3)
  BY NextAddress
<1>4. next_pc \in DoubleWord /\ gprs \in [Reg -> DoubleWord] /\ gprs[0] = {}
  BY NextPcType DEF TypeOK
<1>5. \/ pc = Address(Base, 1)
      \/ pc = t /\ gprs[1] = Address(Base, 2)
      \/ pc = t2 /\ gprs[1] = Address(Base, 2) /\ gprs[4] = {1}
      \/ pc = Address(Base, 2) /\ gprs[4] = {1}
      \/ pc = Address(Base, 3) /\ gprs[4] = {1} /\ gprs[3] = {0}
  BY DEF NearOn
<1>6. SUFFICES \/ pc' = t /\ gprs'[1] = Address(Base, 2)
               \/ pc' = t2 /\ gprs'[1] = Address(Base, 2) /\ gprs'[4] = {1}
               \/ pc' = Address(Base, 2) /\ gprs'[4] = {1}
               \/ pc' = Address(Base, 3) /\ gprs'[4] = {1} /\ gprs'[3] = {0}
  BY <1>2 DEF NearOn
<1>7. Address(Base, 1) = Base
  BY Addresses DEF Base
<1>8. CASE pc = Address(Base, 1)
  <2>1. i = I("jal", 1, 0, c)
    BY <1>1, <1>8
  <2>. HIDE DEF i
  <2>2. i.id = "jal" /\ i.rd = 1 /\ i.imm = c
    BY <2>1 DEF I, Instr
  <2>3. exec_jal(i)
    BY <2>2, HandlerOf DEF i
  <2>4. set_reg(1, next_pc) /\ pc' = t
    BY <1>7, <1>8, <2>2, <2>3 DEF exec_jal
  <2>5. gprs'[1] = next_pc
    BY <1>1, <1>4, <2>4, ToRegister
  <2>. QED
    BY <1>3, <1>8, <2>4, <2>5 DEF next_pc
<1>. HIDE DEF c, t, t2, i
<1>9. CASE pc = t /\ gprs[1] = Address(Base, 2)
  <2>1. code[pc] = I("addi", 4, 0, Num(2))
    BY <1>1, <1>9
  <2>2. gprs'[4] = {2 - 1} /\ gprs'[1] = gprs[1] /\ pc' = next_pc
    BY <1>1, <2>1, AddImmediate
  <2>. QED
    BY <1>9, <2>2 DEF next_pc, t2
<1>10. CASE pc = t2 /\ gprs[1] = Address(Base, 2) /\ gprs[4] = {1}
  <2>1. i = I("jalr", 0, 1, {})
    BY <1>1, <1>10 DEF i
  <2>2. i.id = "jalr" /\ i.rd = 0 /\ i.rs1 = 1 /\ i.imm = {}
    BY <2>1 DEF I, Instr
  <2>3. exec_jalr(i)
    BY <2>2, HandlerOf DEF i
  <2>4. gprs' = gprs /\ pc' = plus(XLEN, Address(Base, 2), {}) \ {0}
    BY <1>10, <2>2, <2>3 DEF exec_jalr, set_reg
  <2>5. plus(XLEN, Address(Base, 2), {}) \ {0} = Address(Base, 2)
    BY Addresses DEF plus, xor, Carries, XLEN
  <2>. QED
    BY <1>10, <2>4, <2>5
<1>11. CASE pc = Address(Base, 2) /\ gprs[4] = {1}
  <2>1. code[pc] = I("addi", 3, 0, Num(1))
    BY <1>1, <1>11
  <2>2. gprs'[3] = {1 - 1} /\ gprs'[4] = gprs[4] /\ pc' = next_pc
    BY <1>1, <2>1, AddImmediate
  <2>. QED
    BY <1>3, <1>11, <2>2 DEF next_pc
<1>12. pc # Address(Base, 3)
  <2>1. Address(Base, 3) # Address(Base, 1) /\ Address(Base, 3) # Address(Base, 2)
    BY AddressesDiffer
  <2>. QED
    BY <1>2, <2>1
<1>. QED
  BY <1>5, <1>8, <1>9, <1>10, <1>11, <1>12

LEMMA CallIn ==
  ASSUME CallPrograms, CodeOK, CallOn, NearOn
  PROVE  CallsReturn
<1>1. Callee[1] = I("addi", 4, 0, Num(2))
  BY DEF Callee
<1>2. /\ plus(XLEN, Address(Base, 2), ILEN) = Address(Base, 3)
      /\ plus(XLEN, Address(Base, 3), ILEN) = Address(Base, 4)
  BY NextAddress
<1>3. CASE start.program[1] = "call"
  <2>. DEFINE via == start.program[2]
              c == start.program[3]
              t == Target(c)
              t2 == plus(XLEN, t, ILEN)
  <2>1. /\ DOMAIN code = {Address(Base, 1), Address(Base, 2), Address(Base, 3), t, t2}
        /\ code[Address(Base, 1)] = I("auipc", via, 0, hi(c))
        /\ code[Address(Base, 2)] = I("jalr", 1, via, lo(c))
        /\ code[Address(Base, 3)] = I("addi", 3, 0, Num(1))
        /\ code[t2] = I("jalr", 0, 1, {})
        /\ Address(Base, 4) \notin {t, t2}
    BY <1>3, CallStart
  <2>2. \/ pc = Address(Base, 1) \/ pc = Address(Base, 2)
        \/ pc = t /\ gprs[1] = Address(Base, 3)
        \/ pc = t2 \/ pc = Address(Base, 3)
        \/ pc = Address(Base, 4) /\ gprs[4] = {1} /\ gprs[3] = {0}
    BY <1>3 DEF CallOn
  <2>3. behind = Address(Base, 3)
    BY <1>3 DEF behind
  <2>. HIDE DEF via, c, t, t2
  <2>4. ASSUME pc \in DOMAIN code, code[pc] = Callee[1] PROVE gprs[1] = behind
    <3>1. code[pc].id = "addi" /\ code[pc].rd = 4
      BY <1>1, <2>4 DEF I, Instr
    <3>2. pc \notin {Address(Base, 1), Address(Base, 2), Address(Base, 3), t2}
      BY <2>1, <3>1 DEF I, Instr
    <3>3. /\ Address(Base, 4) # Address(Base, 1) /\ Address(Base, 4) # Address(Base, 2)
          /\ Address(Base, 4) # Address(Base, 3)
      BY AddressesDiffer
    <3>4. pc # Address(Base, 4)
      BY <2>1, <2>4, <3>3
    <3>. QED
      BY <2>2, <2>3, <3>2, <3>4
  <2>5. ASSUME Done PROVE Returned
    BY <1>2, <2>1, <2>2, <2>3, <2>5 DEF Done, Returned
  <2>. QED
    BY <2>4, <2>5 DEF CallsReturn
<1>4. CASE start.program[1] = "near"
  <2>. DEFINE c == start.program[2]
              t == plus(XLEN, Base, c)
              t2 == plus(XLEN, t, ILEN)
  <2>1. /\ DOMAIN code = {Address(Base, 1), Address(Base, 2), t, t2}
        /\ code[Address(Base, 1)] = I("jal", 1, 0, c)
        /\ code[Address(Base, 2)] = I("addi", 3, 0, Num(1))
        /\ code[t2] = I("jalr", 0, 1, {})
        /\ Address(Base, 3) \notin {t, t2}
    BY <1>4, NearStart
  <2>2. \/ pc = Address(Base, 1)
        \/ pc = t /\ gprs[1] = Address(Base, 2)
        \/ pc = t2 \/ pc = Address(Base, 2)
        \/ pc = Address(Base, 3) /\ gprs[4] = {1} /\ gprs[3] = {0}
    BY <1>4 DEF NearOn
  <2>3. behind = Address(Base, 2)
    BY <1>4 DEF behind
  <2>. HIDE DEF c, t, t2
  <2>4. ASSUME pc \in DOMAIN code, code[pc] = Callee[1] PROVE gprs[1] = behind
    <3>1. code[pc].id = "addi" /\ code[pc].rd = 4
      BY <1>1, <2>4 DEF I, Instr
    <3>2. pc \notin {Address(Base, 1), Address(Base, 2), t2}
      BY <2>1, <3>1 DEF I, Instr
    <3>3. Address(Base, 3) # Address(Base, 1) /\ Address(Base, 3) # Address(Base, 2)
      BY AddressesDiffer
    <3>4. pc # Address(Base, 3)
      BY <2>1, <2>4, <3>3
    <3>. QED
      BY <2>2, <2>3, <3>2, <3>4
  <2>5. ASSUME Done PROVE Returned
    BY <1>2, <2>1, <2>2, <2>3, <2>5 DEF Done, Returned
  <2>. QED
    BY <2>4, <2>5 DEF CallsReturn
<1>. QED
  BY <1>3, <1>4 DEF CallsReturn

\* Wherever the function is, and by whatever register it is called, a call that
\* does not lie in its caller comes back behind the jump.
THEOREM CallsRight == ASSUME CallPrograms PROVE Spec => []CallsReturn
<1>1. Init => CallOn /\ NearOn
  <2>1. Address(Base, 1) = Base
    BY Addresses DEF Base
  <2>2. Init /\ start.program[1] \in {"call", "near"} => pc = Base
    BY DEF Init, CallPrograms, Starting
  <2>. QED
    BY <2>1, <2>2 DEF CallOn, NearOn
<1>2. TypeOK /\ CodeOK /\ CallOn /\ NearOn /\ [Next]_vars => (CallOn /\ NearOn)'
  <2>. SUFFICES ASSUME TypeOK, CodeOK, CallOn, NearOn, [Next]_vars PROVE CallOn' /\ NearOn'
    OBVIOUS
  <2>1. CASE UNCHANGED vars
    BY <2>1 DEF vars, CallOn, NearOn
  <2>2. CASE Next
    <3>1. start' = start
      BY <2>2 DEF Next
    <3>2. CASE start.program[1] = "call"
      <4>1. CallOn'
        BY <2>2, <3>2, CallStep
      <4>2. NearOn'
        BY <3>1, <3>2 DEF NearOn
      <4>. QED
        BY <4>1, <4>2
    <3>3. CASE start.program[1] = "near"
      <4>1. NearOn'
        BY <2>2, <3>3, NearStep
      <4>2. CallOn'
        BY <3>1, <3>3 DEF CallOn
      <4>. QED
        BY <4>1, <4>2
    <3>4. CASE start.program[1] \notin {"call", "near"}
      BY <3>1, <3>4 DEF CallOn, NearOn
    <3>. QED
      BY <3>2, <3>3, <3>4
  <2>. QED
    BY <2>1, <2>2
<1>3. CodeOK /\ CallOn /\ NearOn => CallsReturn
  BY CallIn
<1>4. Spec => [](TypeOK /\ CodeOK)
  BY StraightThroughout, PTL
<1>. QED
  BY <1>1, <1>2, <1>3, <1>4, PTL DEF Spec

-----------------------------------------------------------------------------
(* Stores and loads of the parts of a doubleword. *)

Loads == {"lb", "lh", "lw", "ld", "lbu", "lhu", "lwu"}
Stores == {"sb", "sh", "sw", "sd"}

\* The doubleword w with the low part of b over the bytes from to on.
stored(s, to, w, b) ==
  (w \ (8 * to .. 8 * to + kNBits(s) - 1)) \cup shl(mask_bits(b, kNBits(s) - 1, 0), 8 * to)

\* What a load of the bytes from from on makes of w.
read(l, from, w) ==
  LET v == get_bits(w, 8 * from + kNBits(l) - 1, 8 * from)
  IN  IF l \in {"lb", "lh", "lw", "ld"} THEN sext(kNBits(l), kNBits(l), v) ELSE v

LEMMA AtOf ==
  ASSUME TypeOK, NEW i, i.rs1 = 0, NEW n \in 0 .. 7, i.imm = Num(n)
  PROVE  at(i) = 8 * n
<1>1. plus(64, {}, Num(n)) = Num(n)
  <2>1. ASSUME NEW w \in Bits(64) PROVE plus(64, {}, w) = w
    <3>1. Carries(64, {}, w) = {}
      BY DEF Carries
    <3>2. 64 \notin w
      BY DEF Bits
    <3>. QED
      BY <3>1, <3>2 DEF plus, xor
  <2>2. Num(n) \in Bits(64)
    BY BitsOf DEF Bits
  <2>. QED
    BY <2>1, <2>2
<1>2. at(i) = 8 * places(Num(n) \cap (0 .. 2))
  BY <1>1 DEF at, get_reg, TypeOK, XLEN
<1>3. /\ 0 \in Num(n) <=> (n \div 1) % 2 = 1
      /\ 1 \in Num(n) <=> (n \div 2) % 2 = 1
      /\ 2 \in Num(n) <=> (n \div 4) % 2 = 1
  BY BitsOf
<1>4. places(Num(n) \cap (0 .. 2)) =
        worth(Num(n), 0, 1) + worth(Num(n), 1, 2) + worth(Num(n), 2, 4)
  BY DEF places, worth
<1>5. worth(Num(n), 0, 1) + worth(Num(n), 1, 2) + worth(Num(n), 2, 4) = n
  BY <1>3 DEF worth
<1>. QED
  BY <1>2, <1>4, <1>5

LEMMA SizeOf ==
  ASSUME NEW id \in Loads \cup Stores
  PROVE  kNBits(id) \in {8, 16, 32, 64} /\ Size(id) \in {1, 2, 4, 8} /\ kNBits(id) = 8 * Size(id)
<1>1. kNBits(id) \in {8, 16, 32, 64}
  BY DEF kNBits, Loads, Stores
<1>. QED
  BY <1>1 DEF Size

LEMMA CopyStart ==
  ASSUME CopyPrograms, CodeOK, start.program[1] = "copy"
  PROVE  LET s == start.program[2]
             to == start.program[3]
             l == start.program[4]
             from == start.program[5]
         IN  /\ 1 \in Reg /\ 2 \in Reg /\ 3 \in Reg
             /\ s \in Stores /\ to \in 0 .. 7 /\ Fits(s, to)
             /\ l \in Loads /\ from \in 0 .. 7 /\ Fits(l, from)
             /\ DOMAIN code = {Address(Base, 1), Address(Base, 2), Address(Base, 3)}
             /\ code[Address(Base, 1)] = R("sd", 0, 0, 1)
             /\ code[Address(Base, 2)] = Instr(s, 0, 0, 2, Num(to))
             /\ code[Address(Base, 3)] = I(l, 3, 0, Num(from))
             /\ start.pc = Address(Base, 1)
<1>. DEFINE s == start.program[2]
            to == start.program[3]
            l == start.program[4]
            from == start.program[5]
            m == Moves(s, to, l, from)
<1>1. /\ [s |-> s, to |-> to, l |-> l, from |-> from] \in Copies
      /\ start.code = Code(Base, m) /\ start.pc = Base
  BY DEF CopyPrograms, CodeOK, Starting
<1>2. /\ s \in Stores /\ to \in 0 .. 7 /\ Fits(s, to)
      /\ l \in Loads /\ from \in 0 .. 7 /\ Fits(l, from)
  <2>. HIDE DEF s, to, l, from
  <2>. QED
    BY <1>1 DEF Copies, Stores, Loads
<1>3. DOMAIN m = 1 .. 3 /\ m[1] = R("sd", 0, 0, 1) /\ m[2] = Instr(s, 0, 0, 2, Num(to))
      /\ m[3] = I(l, 3, 0, Num(from))
  BY DEF Moves
<1>. HIDE DEF s, to, l, from, m
<1>4. /\ DOMAIN code = {Address(Base, j) : j \in 1 .. 3}
      /\ \A j \in 1 .. 3 : code[Address(Base, j)] = m[j]
  <2>1. PICK n \in 1 .. 5 : n = 3
    OBVIOUS
  <2>2. DOMAIN m = 1 .. n
    BY <1>3, <2>1
  <2>3. DOMAIN Code(Base, m) = {Address(Base, j) : j \in 1 .. n}
    BY <2>2, CodeAt
  <2>4. \A j \in 1 .. n : Code(Base, m)[Address(Base, j)] = m[j]
    BY <2>2, CodeAt
  <2>. QED
    BY <1>1, <2>1, <2>3, <2>4 DEF code
<1>5. \A a \in DOMAIN code : Instruction(code[a])
  BY StartsAssumption DEF CodeOK, code
<1>6. Instruction(m[1]) /\ Instruction(m[2]) /\ Instruction(m[3])
  BY <1>4, <1>5
<1>7. 1 \in Reg /\ 2 \in Reg /\ 3 \in Reg
  BY <1>3, <1>6 DEF Instruction, R, I, Instr
<1>8. DOMAIN code = {Address(Base, 1), Address(Base, 2), Address(Base, 3)}
  BY <1>4
<1>9. /\ code[Address(Base, 1)] = m[1] /\ code[Address(Base, 2)] = m[2]
      /\ code[Address(Base, 3)] = m[3]
  BY <1>4
<1>10. start.pc = Address(Base, 1)
  BY <1>1, Addresses DEF Base
<1>. QED
  BY <1>2, <1>3, <1>7, <1>8, <1>9, <1>10 DEF s, to, l, from

\* The doubleword before and after the two stores, and the register at the end.
CopyOn ==
  start.program[1] = "copy" =>
    LET s == start.program[2]
        to == start.program[3]
        l == start.program[4]
        from == start.program[5]
    IN  \/ pc = Address(Base, 1) /\ gprs[1] = a_ /\ gprs[2] = b_
        \/ pc = Address(Base, 2) /\ gprs[2] = b_ /\ cell = a_
        \/ pc = Address(Base, 3) /\ cell = stored(s, to, a_, b_)
        \/ pc = Address(Base, 4) /\ gprs[3] = read(l, from, stored(s, to, a_, b_))

LEMMA CopyStep ==
  ASSUME CopyPrograms, TypeOK, CodeOK, CopyOn, Next, start.program[1] = "copy"
  PROVE  CopyOn'
<1>. DEFINE s == start.program[2]
            to == start.program[3]
            l == start.program[4]
            from == start.program[5]
            i == code[pc]
<1>1. /\ 1 \in Reg /\ 2 \in Reg /\ 3 \in Reg
      /\ s \in Stores /\ to \in 0 .. 7 /\ l \in Loads /\ from \in 0 .. 7
      /\ code[Address(Base, 1)] = R("sd", 0, 0, 1)
      /\ code[Address(Base, 2)] = Instr(s, 0, 0, 2, Num(to))
      /\ code[Address(Base, 3)] = I(l, 3, 0, Num(from))
  BY CopyStart
<1>2. start' = start /\ pc \in {Address(Base, 1), Address(Base, 2), Address(Base, 3)}
  BY CopyStart DEF Next
<1>3. /\ plus(XLEN, Address(Base, 1), ILEN) = Address(Base, 2)
      /\ plus(XLEN, Address(Base, 2), ILEN) = Address(Base, 3)
      /\ plus(XLEN, Address(Base, 3), ILEN) = Address(Base, 4)
  BY NextAddress
<1>4. \/ pc = Address(Base, 1) /\ gprs[1] = a_ /\ gprs[2] = b_
      \/ pc = Address(Base, 2) /\ gprs[2] = b_ /\ cell = a_
      \/ pc = Address(Base, 3) /\ cell = stored(s, to, a_, b_)
      \/ pc = Address(Base, 4) /\ gprs[3] = read(l, from, stored(s, to, a_, b_))
  BY DEF CopyOn
<1>5. a_' = a_ /\ b_' = b_
  BY <1>2 DEF a_, b_
<1>6. SUFFICES \/ pc' = Address(Base, 2) /\ gprs'[2] = b_ /\ cell' = a_
               \/ pc' = Address(Base, 3) /\ cell' = stored(s, to, a_, b_)
               \/ pc' = Address(Base, 4) /\ gprs'[3] = read(l, from, stored(s, to, a_, b_))
  BY <1>2, <1>5 DEF CopyOn
<1>. HIDE DEF s, to, l, from, i
<1>7. a_ \in SUBSET (0 .. 63)
  BY <1>1, StartsAssumption DEF a_, CodeOK, DoubleWord, Bits, XLEN
<1>8. CASE pc = Address(Base, 1) /\ gprs[1] = a_ /\ gprs[2] = b_
  <2>1. i = R("sd", 0, 0, 1)
    BY <1>1, <1>8 DEF i
  <2>2. i.id = "sd" /\ i.rs1 = 0 /\ i.rs2 = 1 /\ i.imm = Num(0)
    BY <2>1, Numbers DEF R, Instr
  <2>3. exec_store(i)
    BY <2>2, HandlerOf DEF i
  <2>4. at(i) = 8 * 0 /\ kNBits(i.id) = 64
    BY <2>2, AtOf DEF kNBits
  <2>5. cell' = (cell \ (0 .. 63)) \cup shl(mask_bits(a_, 63, 0), 0)
        /\ pc' = next_pc /\ gprs' = gprs
    BY <1>8, <2>2, <2>3, <2>4 DEF exec_store, get_reg
  <2>6. mask_bits(a_, 63, 0) = a_ /\ cell \ (0 .. 63) = {}
    <3>1. cell \in SUBSET (0 .. 63)
      BY DEF TypeOK, DoubleWord, Bits, XLEN
    <3>2. mask_bits(a_, 63, 0) = a_
      BY <1>7 DEF mask_bits
    <3>. QED
      BY <3>1, <3>2
  <2>7. shl(a_, 0) = a_
    <3>1. \A k \in a_ : k + 0 = k
      BY <1>7
    <3>2. shl(a_, 0) = {k + 0 : k \in a_}
      BY DEF shl
    <3>. QED
      BY <3>1, <3>2
  <2>8. cell' = a_
    BY <2>5, <2>6, <2>7
  <2>. QED
    BY <1>3, <1>8, <2>5, <2>8 DEF next_pc
<1>9. CASE pc = Address(Base, 2) /\ gprs[2] = b_ /\ cell = a_
  <2>1. i = Instr(s, 0, 0, 2, Num(to))
    BY <1>1, <1>9 DEF i
  <2>2. i.id = s /\ i.rs1 = 0 /\ i.rs2 = 2 /\ i.imm = Num(to)
    BY <2>1 DEF Instr
  <2>3. exec_store(i)
    BY <1>1, <2>2, HandlerOf DEF i, Stores
  <2>4. at(i) = 8 * to
    BY <1>1, <2>2, AtOf
  <2>5. cell' = stored(s, to, a_, b_) /\ pc' = next_pc
    BY <1>9, <2>2, <2>3, <2>4 DEF exec_store, get_reg, stored
  <2>. QED
    BY <1>3, <1>9, <2>5 DEF next_pc
<1>10. CASE pc = Address(Base, 3) /\ cell = stored(s, to, a_, b_)
  <2>1. i = I(l, 3, 0, Num(from))
    BY <1>1, <1>10 DEF i
  <2>2. i.id = l /\ i.rd = 3 /\ i.rs1 = 0 /\ i.imm = Num(from)
    BY <2>1 DEF I, Instr
  <2>3. at(i) = 8 * from
    BY <1>1, <2>2, AtOf
  <2>4. loaded(i) = get_bits(cell, 8 * from + kNBits(l) - 1, 8 * from)
    BY <2>2, <2>3 DEF loaded
  <2>5. set_reg(3, read(l, from, cell)) /\ pc' = next_pc
    <3>1. CASE l \in {"lb", "lh", "lw", "ld"}
      <4>1. exec_load(i)
        BY <2>2, <3>1, HandlerOf DEF i
      <4>. QED
        BY <2>2, <2>4, <3>1, <4>1 DEF exec_load, read
    <3>2. CASE l \in {"lbu", "lhu", "lwu"}
      <4>1. exec_uload(i)
        BY <2>2, <3>2, HandlerOf DEF i
      <4>. QED
        BY <2>2, <2>4, <3>2, <4>1 DEF exec_uload, read
    <3>. QED
      BY <1>1, <3>1, <3>2 DEF Loads
  <2>6. gprs'[3] = read(l, from, cell)
    BY <1>1, <2>5 DEF set_reg, TypeOK
  <2>. QED
    BY <1>3, <1>10, <2>5, <2>6 DEF next_pc
<1>11. pc # Address(Base, 4)
  <2>1. /\ Address(Base, 4) # Address(Base, 1) /\ Address(Base, 4) # Address(Base, 2)
        /\ Address(Base, 4) # Address(Base, 3)
    BY AddressesDiffer
  <2>. QED
    BY <1>2, <2>1
<1>. QED
  BY <1>4, <1>8, <1>9, <1>10, <1>11

\* What is to be read back, bit for bit.
copied(s, to, l, from, a, b) ==
  LET top == kNBits(l) - 1
      bit(k) == LET j == 8 * from + k IN
        IF j \div 8 \in to .. to + Size(s) - 1 THEN j - 8 * to \in b ELSE j \in a
  IN  {k \in 0 .. 63 : IF k <= top THEN bit(k) ELSE l \in {"lb", "lh", "lw"} /\ bit(top)}

LEMMA ReadStored ==
  ASSUME NEW s \in Stores, NEW to \in 0 .. 7, Fits(s, to),
         NEW l \in Loads, NEW from \in 0 .. 7, Fits(l, from),
         NEW a \in DoubleWord, NEW b \in DoubleWord
  PROVE  read(l, from, stored(s, to, a, b)) = copied(s, to, l, from, a, b)
<1>. DEFINE w == stored(s, to, a, b)
            m == kNBits(l)
            n == kNBits(s)
            v == get_bits(w, 8 * from + m - 1, 8 * from)
            bit(k) == LET j == 8 * from + k IN
               IF j \div 8 \in to .. to + Size(s) - 1 THEN j - 8 * to \in b ELSE j \in a
            wanted == {k \in 0 .. 63 :
                         IF k <= m - 1 THEN bit(k) ELSE l \in {"lb", "lh", "lw"} /\ bit(m - 1)}
<1>1. n = 8 * Size(s) /\ Size(s) \in {1, 2, 4, 8} /\ to + Size(s) <= 8
  BY SizeOf DEF Fits, Loads, Stores
<1>2. m \in {8, 16, 32, 64} /\ 8 * from + m <= 64
  BY SizeOf DEF Fits, Loads, Stores
<1>3. a \in SUBSET (0 .. 63) /\ b \in SUBSET (0 .. 63)
  BY DEF DoubleWord, Bits, XLEN
<1>4. ASSUME NEW j \in 0 .. 63
      PROVE  j \in w <=> IF j \div 8 \in to .. to + Size(s) - 1 THEN j - 8 * to \in b ELSE j \in a
  <2>1. j \div 8 \in to .. to + Size(s) - 1 <=> j \in 8 * to .. 8 * to + n - 1
    BY <1>1
  <2>2. j \in shl(mask_bits(b, n - 1, 0), 8 * to)
          <=> j \in 8 * to .. 8 * to + n - 1 /\ j - 8 * to \in b
    <3>. HIDE DEF n
    <3>. QED
      BY <1>1, <1>3 DEF shl, mask_bits
  <2>. QED
    BY <2>1, <2>2 DEF stored
<1>5. w \in SUBSET Int
  <2>. HIDE DEF n
  <2>1. \A k \in shl(mask_bits(b, n - 1, 0), 8 * to) : k \in Int
    BY <1>3 DEF shl, mask_bits
  <2>2. w = (a \ (8 * to .. 8 * to + n - 1)) \cup shl(mask_bits(b, n - 1, 0), 8 * to)
    BY DEF stored, n
  <2>. HIDE DEF w
  <2>3. \A k \in w : k \in Int
    BY <1>3, <2>1, <2>2
  <2>. QED
    BY <2>3
<1>. HIDE DEF w, n
<1>6. v \in SUBSET (0 .. m - 1)
  BY <1>2, <1>5 DEF get_bits, mask_bits, shr
<1>7. ASSUME NEW k \in 0 .. m - 1 PROVE k \in v <=> bit(k)
  <2>1. k \in v <=> 8 * from + k \in w
    <3>. HIDE DEF m
    <3>. QED
      BY <1>2, <1>5 DEF get_bits, mask_bits, shr
  <2>2. 8 * from + k \in 0 .. 63
    BY <1>2
  <2>. QED
    BY <1>4, <2>1, <2>2
<1>. HIDE DEF v, bit
<1>8. CASE l \in {"lb", "lh", "lw"}
  <2>1. m \in {8, 16, 32}
    BY <1>8 DEF kNBits
  <2>2. read(l, from, w) = v \cup {k \in m .. 63 : m - 1 \in v}
    BY <1>8, <2>1 DEF read, sext, XLEN, v
  <2>. HIDE DEF m
  <2>3. ASSUME NEW k \in 0 .. 63 PROVE k \in read(l, from, w) <=> k \in wanted
    BY <1>6, <1>7, <1>8, <2>1, <2>2
  <2>4. read(l, from, w) \in Bits(64) /\ wanted \in Bits(64)
    <3>1. \A k \in read(l, from, w) : k \in 0 .. 63
      <4>1. \A k \in v : k \in 0 .. 63
        BY <1>6, <2>1
      <4>2. \A k \in {k \in m .. 63 : m - 1 \in v} : k \in 0 .. 63
        BY <2>1
      <4>. QED
        BY <2>2, <4>1, <4>2
    <3>2. \A k \in wanted : k \in 0 .. 63
      OBVIOUS
    <3>. HIDE DEF wanted
    <3>. QED
      BY <3>1, <3>2 DEF Bits
  <2>5. read(l, from, w) = wanted
    BY <2>3, <2>4, SameBits
  <2>. QED
    BY <2>5 DEF w, wanted, bit, m, copied
<1>9. CASE l \notin {"lb", "lh", "lw"}
  <2>1. read(l, from, w) = v
    <3>1. CASE l = "ld"
      BY <3>1 DEF read, sext, kNBits, XLEN, v
    <3>2. CASE l \in {"lbu", "lhu", "lwu"}
      BY <3>2 DEF read, v
    <3>. QED
      BY <1>9, <3>1, <3>2 DEF Loads
  <2>. HIDE DEF m
  <2>2. ASSUME NEW k \in 0 .. 63 PROVE k \in v <=> k \in wanted
    BY <1>2, <1>6, <1>7, <1>9
  <2>3. v \in Bits(64) /\ wanted \in Bits(64)
    BY <1>2, <1>6 DEF Bits
  <2>4. v = wanted
    BY <2>2, <2>3, SameBits
  <2>. QED
    BY <2>1, <2>4 DEF w, wanted, bit, m, copied
<1>. QED
  BY <1>8, <1>9

\* Whatever the words and whatever the doubleword held before, what is read
\* back is, byte for byte, what was last stored there, extended by its sign or not.
THEOREM CopiesRight == ASSUME CopyPrograms PROVE Spec => []StoredThenLoaded
<1>1. Init => CopyOn
  <2>. SUFFICES ASSUME Init, start.program[1] = "copy" PROVE CopyOn
    BY DEF CopyOn
  <2>1. start.pc = Address(Base, 1)
    BY CopyStart DEF Init, CodeOK
  <2>. QED
    BY <2>1 DEF Init, CopyOn, a_, b_
<1>2. TypeOK /\ CodeOK /\ CopyOn /\ [Next]_vars => CopyOn'
  <2>. SUFFICES ASSUME TypeOK, CodeOK, CopyOn, [Next]_vars PROVE CopyOn'
    OBVIOUS
  <2>1. CASE UNCHANGED vars
    BY <2>1 DEF vars, CopyOn, a_, b_
  <2>2. CASE Next
    <3>1. start' = start
      BY <2>2 DEF Next
    <3>2. CASE start.program[1] = "copy"
      BY <2>2, <3>2, CopyStep
    <3>3. CASE start.program[1] # "copy"
      BY <3>1, <3>3 DEF CopyOn
    <3>. QED
      BY <3>2, <3>3
  <2>. QED
    BY <2>1, <2>2
<1>3. CodeOK /\ CopyOn => StoredThenLoaded
  <2>. SUFFICES ASSUME CodeOK, CopyOn, Done, start.program[1] = "copy" PROVE StoredThenLoaded
    BY DEF StoredThenLoaded, IsProgram
  <2>. DEFINE s == start.program[2]
              to == start.program[3]
              l == start.program[4]
              from == start.program[5]
  <2>1. /\ 1 \in Reg /\ 2 \in Reg /\ s \in Stores /\ to \in 0 .. 7 /\ Fits(s, to)
        /\ l \in Loads /\ from \in 0 .. 7 /\ Fits(l, from)
        /\ DOMAIN code = {Address(Base, 1), Address(Base, 2), Address(Base, 3)}
    BY CopyStart
  <2>2. gprs[3] = read(l, from, stored(s, to, a_, b_))
    BY <2>1 DEF CopyOn, Done
  <2>3. a_ \in DoubleWord /\ b_ \in DoubleWord
    BY <2>1, StartsAssumption DEF a_, b_, CodeOK
  <2>. HIDE DEF s, to, l, from
  <2>4. gprs[3] = copied(s, to, l, from, a_, b_)
    BY <2>1, <2>2, <2>3, ReadStored
  <2>. QED
    BY <2>4 DEF StoredThenLoaded, copied, s, to, l, from
<1>4. Spec => [](TypeOK /\ CodeOK)
  BY StraightThroughout, PTL
<1>. QED
  BY <1>1, <1>2, <1>3, <1>4, PTL DEF Spec

-----------------------------------------------------------------------------
(* The loop that removes the lowest bit. *)

LEMMA Lowest ==
  ASSUME NEW w \in SUBSET (0 .. 63), w # {}
  PROVE  \E m \in w : w \cap (0 .. m - 1) = {}
<1>. SUFFICES ASSUME \A m \in w : w \cap (0 .. m - 1) # {} PROVE FALSE
  OBVIOUS
<1>. DEFINE T == {k \in 0 .. 64 : w \cap (0 .. k - 1) = {}}
<1>1. 0 \in T
  OBVIOUS
<1>2. ASSUME NEW k \in 0 .. 63, k \in T PROVE k + 1 \in T
  <2>1. k \notin w /\ w \cap (0 .. k - 1) = {}
    BY <1>2
  <2>2. \A j \in 0 .. (k + 1) - 1 : j = k \/ j \in 0 .. k - 1
    OBVIOUS
  <2>3. w \cap (0 .. (k + 1) - 1) = {}
    BY <2>1, <2>2
  <2>. QED
    BY <2>3
<1>. HIDE DEF T
<1>3. 0 .. 64 \subseteq T
  BY <1>1, <1>2, Upward
<1>4. 64 \in T
  BY <1>3
<1>5. w \cap (0 .. 64 - 1) = {}
  BY <1>4 DEF T
<1>6. PICK k \in w : TRUE
  OBVIOUS
<1>7. k \in 0 .. 64 - 1
  BY <1>6
<1>. QED
  BY <1>5, <1>6, <1>7

LEMMA Negatives == Neg(1) = 0 .. 63 /\ Neg(16) = 4 .. 63
<1>1. ASSUME NEW n \in 0 .. 4
      PROVE  difference(64, {}, {n}) = n .. 63
  <2>. DEFINE d == difference(64, {}, {n})
              u == n .. 63
  <2>1. ASSUME NEW k \in 0 .. 64 PROVE k \in Borrows(64, {}, {n}) <=> k \in n + 1 .. 64
    BY DEF Borrows
  <2>2. ASSUME NEW k \in 0 .. 63 PROVE k \in d <=> k \in u
    BY <2>1 DEF difference, xor
  <2>3. {} \in Bits(64) /\ {n} \in Bits(64) /\ u \in Bits(64)
    BY DEF Bits
  <2>4. d \in Bits(64)
    BY <2>3, DifferenceType
  <2>. HIDE DEF d, u
  <2>5. d = u
    BY <2>2, <2>3, <2>4, SameBits
  <2>. QED
    BY <2>5 DEF d, u
<1>2. Num(1) = {0} /\ Num(16) = {4}
  BY Numbers
<1>. QED
  BY <1>1, <1>2 DEF Neg, XLEN

LEMMA LoopJumps ==
  /\ plus(XLEN, Address(Base, 1), Num(20)) = Address(Base, 6)
  /\ plus(XLEN, Address(Base, 5), Neg(16)) = Address(Base, 1)
<1>. DEFINE b == {4, 12, 31}
            u == 4 .. 63
<1>1. b \in Bits(64) /\ u \in Bits(64) /\ {12, 31} \in Bits(64) /\ {2, 4} \in Bits(64)
  BY DEF Bits
<1>2. plus(64, {12, 31}, {2, 4}) = {12, 31} \cup {2, 4}
  <2>1. {12, 31} \cap {2, 4} = {}
    OBVIOUS
  <2>. QED
    BY <1>1, <2>1, PlusDisjoint
<1>3. ASSUME NEW k \in 0 .. 64 PROVE k \in Carries(64, b, u) <=> k \in 5 .. 64
  <2>1. CASE k \in 5 .. 64
    <3>1. 4 \in b \cap u /\ 4 < k /\ (4 + 1 .. k - 1) \subseteq b \cup u
      BY <2>1
    <3>. QED
      BY <2>1, <3>1 DEF Carries
  <2>2. CASE k \notin 5 .. 64
    <3>1. \A j \in b \cap u : ~(j < k)
      BY <2>2
    <3>. QED
      BY <2>2, <3>1 DEF Carries
  <2>. QED
    BY <2>1, <2>2
<1>4. ASSUME NEW k \in 0 .. 63 PROVE k \in plus(64, b, u) <=> k \in {12, 31}
  BY <1>3 DEF plus, xor
<1>5. plus(64, b, u) \in Bits(64)
  BY <1>1, PlusType
<1>. HIDE DEF b, u
<1>6. plus(64, b, u) = {12, 31}
  BY <1>1, <1>4, <1>5, SameBits
<1>7. Num(20) = {2, 4} /\ Neg(16) = u /\ Address(Base, 5) = b
  BY Numbers, Negatives, Addresses DEF b, u
<1>8. {12, 31} \cup {2, 4} = {2, 4, 12, 31}
  OBVIOUS
<1>. QED
  BY <1>2, <1>6, <1>7, <1>8, Addresses DEF XLEN

\* Less one, the bits below the lowest are set and it is not: what is left of
\* both are the others.
LEMMA LowestRemoved ==
  ASSUME NEW w \in DoubleWord, NEW m \in w, w \cap (0 .. m - 1) = {}
  PROVE  w \cap plus(64, w, 0 .. 63) = w \ {m}
<1>. DEFINE u == 0 .. 63
<1>1. w \in Bits(64) /\ u \in Bits(64) /\ w \in SUBSET (0 .. 63)
  BY DEF DoubleWord, Bits, XLEN
<1>2. ASSUME NEW k \in 0 .. 64 PROVE k \in Carries(64, w, u) <=> k \in m + 1 .. 64
  <2>1. CASE k \in m + 1 .. 64
    <3>1. m \in w \cap u /\ m < k /\ (m + 1 .. k - 1) \subseteq w \cup u /\ k \in 1 .. 64
      BY <1>1, <2>1
    <3>. QED
      BY <3>1, <2>1 DEF Carries
  <2>2. CASE k \notin m + 1 .. 64
    <3>1. \A j \in w \cap u : ~(j < k)
      BY <1>1, <2>2
    <3>. QED
      BY <2>2, <3>1 DEF Carries
  <2>. QED
    BY <2>1, <2>2
<1>3. ASSUME NEW k \in w PROVE k \in plus(64, w, u) <=> k # m
  <2>1. k \in 0 .. 63 /\ k >= m
    BY <1>1
  <2>2. k \in Carries(64, w, u) <=> k # m
    BY <1>1, <1>2, <2>1
  <2>. QED
    BY <2>1, <2>2 DEF plus, xor
<1>. QED
  BY <1>3

\* One more, bit by bit.
LEMMA Increment ==
  ASSUME NEW n \in 0 .. 63
  PROVE  plus(64, Num(n), {0}) = Num(n + 1)
<1>. DEFINE w == Num(n)
<1>1. /\ w \in SUBSET (0 .. 11) /\ w \in Bits(64) /\ {0} \in Bits(64)
      /\ Num(n + 1) \in SUBSET (0 .. 11) /\ Num(n + 1) \in Bits(64)
  BY BitsOf DEF Bits
<1>2. /\ 0 \in w <=> (n \div 1) % 2 = 1
      /\ 1 \in w <=> (n \div 2) % 2 = 1
      /\ 2 \in w <=> (n \div 4) % 2 = 1
      /\ 3 \in w <=> (n \div 8) % 2 = 1
      /\ 4 \in w <=> (n \div 16) % 2 = 1
      /\ 5 \in w <=> (n \div 32) % 2 = 1
      /\ 6 \in w <=> (n \div 64) % 2 = 1
  BY BitsOf
<1>21. /\ 7 \in w <=> (n \div 128) % 2 = 1
       /\ 8 \in w <=> (n \div 256) % 2 = 1
       /\ 9 \in w <=> (n \div 512) % 2 = 1
       /\ 10 \in w <=> (n \div 1024) % 2 = 1
       /\ 11 \in w <=> (n \div 2048) % 2 = 1
  BY BitsOf
<1>3. /\ 0 \in Num(n + 1) <=> ((n + 1) \div 1) % 2 = 1
      /\ 1 \in Num(n + 1) <=> ((n + 1) \div 2) % 2 = 1
      /\ 2 \in Num(n + 1) <=> ((n + 1) \div 4) % 2 = 1
      /\ 3 \in Num(n + 1) <=> ((n + 1) \div 8) % 2 = 1
      /\ 4 \in Num(n + 1) <=> ((n + 1) \div 16) % 2 = 1
      /\ 5 \in Num(n + 1) <=> ((n + 1) \div 32) % 2 = 1
      /\ 6 \in Num(n + 1) <=> ((n + 1) \div 64) % 2 = 1
      /\ 7 \in Num(n + 1) <=> ((n + 1) \div 128) % 2 = 1
      /\ 8 \in Num(n + 1) <=> ((n + 1) \div 256) % 2 = 1
      /\ 9 \in Num(n + 1) <=> ((n + 1) \div 512) % 2 = 1
      /\ 10 \in Num(n + 1) <=> ((n + 1) \div 1024) % 2 = 1
      /\ 11 \in Num(n + 1) <=> ((n + 1) \div 2048) % 2 = 1
  <2>1. n + 1 \in Nat
    OBVIOUS
  <2>. QED
    BY <2>1, BitsOf
<1>. HIDE DEF w
<1>4. 6 \notin w
  BY <1>2
<1>5. ASSUME NEW k \in 0 .. 63
      PROVE  k \in plus(64, w, {0}) <=> ~(k \in w <=> 0 .. k - 1 \subseteq w)
  <2>1. k \in Carries(64, w, {0}) <=> k # 0 /\ 0 .. k - 1 \subseteq w
    BY DEF Carries
  <2>2. CASE k = 0
    <3>1. k \notin Carries(64, w, {0}) /\ 0 .. k - 1 \subseteq w /\ k \in {0} /\ k # 64
      BY <2>1, <2>2
    <3>. QED
      BY <3>1 DEF plus, xor
  <2>3. CASE k # 0
    <3>1. k \in Carries(64, w, {0}) <=> 0 .. k - 1 \subseteq w
      BY <2>1, <2>3
    <3>2. k \notin {0} /\ k # 64
      BY <2>3
    <3>. QED
      BY <3>1, <3>2 DEF plus, xor
  <2>. QED
    BY <2>2, <2>3
<1>6. ASSUME NEW k \in 7 .. 63 PROVE k \notin plus(64, w, {0}) /\ k \notin Num(n + 1)
  <2>1. ~(0 .. k - 1 \subseteq w)
    BY <1>4
  <2>2. k \notin w
    BY <1>1, <1>21
  <2>3. k \notin Num(n + 1)
    BY <1>1, <1>3
  <2>. QED
    BY <1>5, <2>1, <2>2, <2>3
<1>7. /\ 0 .. 0 - 1 \subseteq w
      /\ 0 .. 1 - 1 \subseteq w <=> 0 \in w
      /\ 0 .. 2 - 1 \subseteq w <=> 0 \in w /\ 1 \in w
      /\ 0 .. 3 - 1 \subseteq w <=> 0 \in w /\ 1 \in w /\ 2 \in w
      /\ 0 .. 4 - 1 \subseteq w <=> 0 \in w /\ 1 \in w /\ 2 \in w /\ 3 \in w
      /\ 0 .. 5 - 1 \subseteq w <=> 0 \in w /\ 1 \in w /\ 2 \in w /\ 3 \in w /\ 4 \in w
      /\ 0 .. 6 - 1 \subseteq w <=> 0 \in w /\ 1 \in w /\ 2 \in w /\ 3 \in w /\ 4 \in w /\ 5 \in w
  OBVIOUS
<1>8. ASSUME NEW k \in 0 .. 6 PROVE k \in plus(64, w, {0}) <=> k \in Num(n + 1)
  <2>1. k \in 0 .. 63 /\ k \in {0, 1, 2, 3, 4, 5, 6}
    OBVIOUS
  <2>2. CASE k = 0
    BY <1>2, <1>3, <1>5, <1>7, <2>1, <2>2
  <2>3. CASE k = 1
    BY <1>2, <1>3, <1>5, <1>7, <2>1, <2>3
  <2>4. CASE k = 2
    BY <1>2, <1>3, <1>5, <1>7, <2>1, <2>4
  <2>5. CASE k = 3
    BY <1>2, <1>3, <1>5, <1>7, <2>1, <2>5
  <2>6. CASE k = 4
    BY <1>2, <1>3, <1>5, <1>7, <2>1, <2>6
  <2>7. CASE k = 5
    BY <1>2, <1>3, <1>5, <1>7, <2>1, <2>7
  <2>8. CASE k = 6
    BY <1>2, <1>3, <1>5, <1>7, <2>1, <2>8
  <2>. QED
    BY <2>1, <2>2, <2>3, <2>4, <2>5, <2>6, <2>7, <2>8
<1>9. plus(64, w, {0}) \in Bits(64)
  BY <1>1, PlusType
<1>10. ASSUME NEW k \in 0 .. 63 PROVE k \in plus(64, w, {0}) <=> k \in Num(n + 1)
  <2>1. k \in 0 .. 6 \/ k \in 7 .. 63
    OBVIOUS
  <2>. QED
    BY <1>6, <1>8, <2>1
<1>11. plus(64, w, {0}) = Num(n + 1)
  BY <1>1, <1>9, <1>10, SameBits
<1>. QED
  BY <1>11 DEF w

LEMMA WordSize ==
  ASSUME NEW w \in DoubleWord
  PROVE  IsFiniteSet(w) /\ Cardinality(w) \in 0 .. 64
<1>1. w \in SUBSET (0 .. 63)
  BY DEF DoubleWord, Bits, XLEN
<1>2. IsFiniteSet(0 .. 63) /\ Cardinality(0 .. 63) = 64
  <2>1. 0 \in Int /\ 63 \in Int
    OBVIOUS
  <2>2. IsFiniteSet(0 .. 63) /\ Cardinality(0 .. 63) = IF 0 > 63 THEN 0 ELSE 63 - 0 + 1
    BY <2>1, FS_Interval, Zenon
  <2>. QED
    BY <2>2
<1>3. IsFiniteSet(w) /\ Cardinality(w) <= Cardinality(0 .. 63)
  BY <1>1, <1>2, FS_Subset, Zenon
<1>4. Cardinality(w) \in Nat
  BY <1>3, FS_CardinalityType, Zenon
<1>. QED
  BY <1>2, <1>3, <1>4

LEMMA LoopStart ==
  ASSUME LoopPrograms, CodeOK, start.program[1] = "count"
  PROVE  /\ 1 \in Reg /\ 3 \in Reg /\ 4 \in Reg
         /\ start.program[2] = a_ /\ a_ \in DoubleWord /\ start.gprs[3] = {}
         /\ DOMAIN code = {Address(Base, 1), Address(Base, 2), Address(Base, 3), Address(Base, 4),
                           Address(Base, 5)}
         /\ code[Address(Base, 1)] = Instr("beq", 0, 1, 0, Num(20))
         /\ code[Address(Base, 2)] = I("addi", 4, 1, Neg(1))
         /\ code[Address(Base, 3)] = R("and", 1, 1, 4)
         /\ code[Address(Base, 4)] = I("addi", 3, 3, Num(1))
         /\ code[Address(Base, 5)] = Instr("jal", 0, 0, 0, Neg(16))
         /\ start.pc = Address(Base, 1)
<1>1. start.gprs[3] = {} /\ Starting(start, <<"count", start.gprs[1]>>, Code(Base, Loop))
  BY DEF LoopPrograms, CodeOK
<1>2. /\ start.program = <<"count", start.gprs[1]>> /\ start.code = Code(Base, Loop)
      /\ start.pc = Base
  BY <1>1 DEF Starting
<1>3. start.program[2] = a_
  BY <1>2 DEF a_
<1>4. /\ DOMAIN Loop = 1 .. 5
      /\ Loop[1] = Instr("beq", 0, 1, 0, Num(20))
      /\ Loop[2] = I("addi", 4, 1, Neg(1))
      /\ Loop[3] = R("and", 1, 1, 4)
      /\ Loop[4] = I("addi", 3, 3, Num(1))
      /\ Loop[5] = Instr("jal", 0, 0, 0, Neg(16))
  BY DEF Loop
<1>5. /\ DOMAIN code = {Address(Base, j) : j \in 1 .. 5}
      /\ \A j \in 1 .. 5 : code[Address(Base, j)] = Loop[j]
  <2>1. PICK n \in 1 .. 5 : n = 5
    OBVIOUS
  <2>2. DOMAIN Loop = 1 .. n
    BY <1>4, <2>1
  <2>3. DOMAIN Code(Base, Loop) = {Address(Base, j) : j \in 1 .. n}
    BY <2>2, CodeAt
  <2>4. \A j \in 1 .. n : Code(Base, Loop)[Address(Base, j)] = Loop[j]
    BY <2>2, CodeAt
  <2>. QED
    BY <1>2, <2>1, <2>3, <2>4 DEF code
<1>6. \A a \in DOMAIN code : Instruction(code[a])
  BY StartsAssumption DEF CodeOK, code
<1>7. Instruction(Loop[2]) /\ Instruction(Loop[4])
  BY <1>5, <1>6
<1>8. 1 \in Reg /\ 3 \in Reg /\ 4 \in Reg
  BY <1>4, <1>7 DEF Instruction, I, Instr
<1>9. DOMAIN code = {Address(Base, 1), Address(Base, 2), Address(Base, 3), Address(Base, 4),
                     Address(Base, 5)}
  BY <1>5
<1>10. /\ code[Address(Base, 1)] = Loop[1] /\ code[Address(Base, 2)] = Loop[2]
       /\ code[Address(Base, 3)] = Loop[3] /\ code[Address(Base, 4)] = Loop[4]
       /\ code[Address(Base, 5)] = Loop[5]
  BY <1>5
<1>11. start.pc = Address(Base, 1)
  BY <1>2, Addresses DEF Base
<1>12. a_ \in DoubleWord
  BY <1>8, StartsAssumption DEF a_, CodeOK
<1>. QED
  BY <1>1, <1>3, <1>4, <1>8, <1>9, <1>10, <1>11, <1>12

\* The bits of a that w has no more.
gone(w) == Cardinality(a_) - Cardinality(w)

\* What is counted at each instruction: behind the third, one less than is gone.
CountOn ==
  start.program[1] = "count" =>
    /\ gprs[1] \subseteq a_
    /\ \/ /\ pc \in {Address(Base, 1), Address(Base, 5), Address(Base, 6)}
          /\ gprs[3] = Num(gone(gprs[1]))
       \/ pc = Address(Base, 2) /\ gprs[1] # {} /\ gprs[3] = Num(gone(gprs[1]))
       \/ /\ pc = Address(Base, 3) /\ gprs[1] # {} /\ gprs[3] = Num(gone(gprs[1]))
          /\ gprs[4] = plus(XLEN, gprs[1], Neg(1))
       \/ /\ pc = Address(Base, 4) /\ gone(gprs[1]) \in 1 .. 64
          /\ gprs[3] = Num(gone(gprs[1]) - 1)

LEMMA OneMore ==
  ASSUME NEW w \in DoubleWord, w # {}, NEW a \in DoubleWord, w \subseteq a
  PROVE  LET v == w \cap plus(XLEN, w, Neg(1))
         IN  /\ v \subseteq a
             /\ Cardinality(a) - Cardinality(w) = (Cardinality(a) - Cardinality(v)) - 1
             /\ Cardinality(a) - Cardinality(v) \in 1 .. 64
<1>. DEFINE v == w \cap plus(XLEN, w, Neg(1))
<1>1. w \in SUBSET (0 .. 63)
  BY DEF DoubleWord, Bits, XLEN
<1>2. PICK m \in w : w \cap (0 .. m - 1) = {}
  BY <1>1, Lowest
<1>3. v = w \ {m}
  BY <1>2, LowestRemoved, Negatives DEF XLEN
<1>. HIDE DEF v
<1>4. IsFiniteSet(w) /\ IsFiniteSet(a) /\ Cardinality(w) \in 0 .. 64 /\ Cardinality(a) \in 0 .. 64
  BY WordSize
<1>5. Cardinality(v) = Cardinality(w) - 1 /\ IsFiniteSet(v)
  BY <1>2, <1>3, <1>4, FS_RemoveElement
<1>6. Cardinality(w) <= Cardinality(a)
  BY <1>4, FS_Subset
<1>7. Cardinality(v) \in Nat
  BY <1>5, FS_CardinalityType
<1>8. v \subseteq a
  BY <1>3
<1>. QED
  BY <1>4, <1>5, <1>6, <1>7, <1>8 DEF v

LEMMA CountStep ==
  ASSUME LoopPrograms, TypeOK, CodeOK, CountOn, Next, start.program[1] = "count"
  PROVE  CountOn'
<1>1. /\ 1 \in Reg /\ 3 \in Reg /\ 4 \in Reg /\ a_ \in DoubleWord
      /\ code[Address(Base, 1)] = Instr("beq", 0, 1, 0, Num(20))
      /\ code[Address(Base, 2)] = I("addi", 4, 1, Neg(1))
      /\ code[Address(Base, 3)] = R("and", 1, 1, 4)
      /\ code[Address(Base, 4)] = I("addi", 3, 3, Num(1))
      /\ code[Address(Base, 5)] = Instr("jal", 0, 0, 0, Neg(16))
  BY LoopStart
<1>2. start' = start /\ pc \in {Address(Base, 1), Address(Base, 2), Address(Base, 3),
                                Address(Base, 4), Address(Base, 5)}
  BY LoopStart DEF Next
<1>3. /\ plus(XLEN, Address(Base, 1), ILEN) = Address(Base, 2)
      /\ plus(XLEN, Address(Base, 2), ILEN) = Address(Base, 3)
      /\ plus(XLEN, Address(Base, 3), ILEN) = Address(Base, 4)
      /\ plus(XLEN, Address(Base, 4), ILEN) = Address(Base, 5)
  BY NextAddress
<1>4. /\ gprs[1] \subseteq a_
      /\ \/ /\ pc \in {Address(Base, 1), Address(Base, 5), Address(Base, 6)}
            /\ gprs[3] = Num(gone(gprs[1]))
         \/ pc = Address(Base, 2) /\ gprs[1] # {} /\ gprs[3] = Num(gone(gprs[1]))
         \/ /\ pc = Address(Base, 3) /\ gprs[1] # {} /\ gprs[3] = Num(gone(gprs[1]))
            /\ gprs[4] = plus(XLEN, gprs[1], Neg(1))
         \/ /\ pc = Address(Base, 4) /\ gone(gprs[1]) \in 1 .. 64
            /\ gprs[3] = Num(gone(gprs[1]) - 1)
  BY DEF CountOn
<1>5. a_' = a_ /\ gone(gprs[1])' = gone(gprs'[1])
  BY <1>2 DEF a_, gone
<1>6. /\ gprs[1] \in DoubleWord /\ gprs[3] \in DoubleWord /\ gprs[0] = {}
      /\ gprs \in [Reg -> DoubleWord]
  BY <1>1 DEF TypeOK
<1>7. SUFFICES
        /\ gprs'[1] \subseteq a_
        /\ \/ /\ pc' \in {Address(Base, 1), Address(Base, 5), Address(Base, 6)}
              /\ gprs'[3] = Num(gone(gprs'[1]))
           \/ pc' = Address(Base, 2) /\ gprs'[1] # {} /\ gprs'[3] = Num(gone(gprs'[1]))
           \/ /\ pc' = Address(Base, 3) /\ gprs'[1] # {} /\ gprs'[3] = Num(gone(gprs'[1]))
              /\ gprs'[4] = plus(XLEN, gprs'[1], Neg(1))
           \/ /\ pc' = Address(Base, 4) /\ gone(gprs'[1]) \in 1 .. 64
              /\ gprs'[3] = Num(gone(gprs'[1]) - 1)
  BY <1>2, <1>5 DEF CountOn
<1>8. CASE pc = Address(Base, 1) /\ gprs[3] = Num(gone(gprs[1]))
  <2>1. code[pc] = Instr("beq", 0, 1, 0, Num(20))
    BY <1>1, <1>8
  <2>2. /\ code[pc].id = "beq" /\ code[pc].rs1 = 1 /\ code[pc].rs2 = 0
        /\ code[pc].imm = Num(20)
    BY <2>1 DEF Instr
  <2>3. /\ gprs' = gprs
        /\ pc' = IF Taken("beq", gprs[1], gprs[0]) THEN plus(XLEN, pc, Num(20)) ELSE next_pc
    BY <2>2, BranchStep DEF Branches
  <2>4. Taken("beq", gprs[1], gprs[0]) <=> gprs[1] = {}
    BY <1>6 DEF Taken
  <2>5. CASE gprs[1] = {}
    BY <1>4, <1>8, <2>3, <2>4, <2>5, LoopJumps
  <2>6. CASE gprs[1] # {}
    BY <1>3, <1>4, <1>8, <2>3, <2>4, <2>6 DEF next_pc
  <2>. QED
    BY <2>5, <2>6
<1>9. CASE pc = Address(Base, 2) /\ gprs[1] # {} /\ gprs[3] = Num(gone(gprs[1]))
  <2>1. code[pc] = I("addi", 4, 1, Neg(1))
    BY <1>1, <1>9
  <2>2. /\ gprs'[4] = plus(XLEN, gprs[1], Neg(1)) /\ \A q \in Reg \ {4} : gprs'[q] = gprs[q]
        /\ pc' = next_pc
    BY <1>1, <2>1, AddsImmediate
  <2>3. gprs'[1] = gprs[1] /\ gprs'[3] = gprs[3]
    BY <1>1, <2>2
  <2>. QED
    BY <1>3, <1>4, <1>9, <2>2, <2>3 DEF next_pc
<1>10. CASE pc = Address(Base, 3) /\ gprs[1] # {} /\ gprs[3] = Num(gone(gprs[1]))
            /\ gprs[4] = plus(XLEN, gprs[1], Neg(1))
  <2>1. code[pc] = R("and", 1, 1, 4)
    BY <1>1, <1>10
  <2>2. code[pc].id = "and" /\ code[pc].rd = 1 /\ code[pc].rs1 = 1 /\ code[pc].rs2 = 4
    BY <2>1 DEF R, Instr
  <2>3. gprs' = after(code[pc], gprs) /\ pc' = next_pc
    BY <2>2, PlainStep DEF Plain, RegReg
  <2>4. value(code[pc], gprs) = gprs[1] \cap gprs[4]
    BY <2>2 DEF value, RegReg, RegImm, RegRegW, RegImmW, Result
  <2>5. gprs'[1] = gprs[1] \cap plus(XLEN, gprs[1], Neg(1)) /\ gprs'[3] = gprs[3]
    BY <1>1, <1>10, <2>2, <2>3, <2>4 DEF after
  <2>6. gprs'[1] \subseteq a_ /\ gone(gprs[1]) = gone(gprs'[1]) - 1 /\ gone(gprs'[1]) \in 1 .. 64
    BY <1>1, <1>4, <1>6, <1>10, <2>5, OneMore DEF gone
  <2>. QED
    BY <1>3, <1>10, <2>3, <2>5, <2>6 DEF next_pc
<1>11. CASE pc = Address(Base, 4) /\ gone(gprs[1]) \in 1 .. 64 /\ gprs[3] = Num(gone(gprs[1]) - 1)
  <2>1. code[pc] = I("addi", 3, 3, Num(1))
    BY <1>1, <1>11
  <2>2. gprs'[3] = plus(XLEN, gprs[3], Num(1)) /\ gprs'[1] = gprs[1] /\ pc' = next_pc
    BY <1>1, <2>1, AddsImmediate
  <2>3. plus(64, Num(gone(gprs[1]) - 1), {0}) = Num((gone(gprs[1]) - 1) + 1)
    BY <1>11, Increment
  <2>4. gprs'[3] = Num(gone(gprs'[1]))
    BY <1>11, <2>2, <2>3, Numbers DEF XLEN
  <2>. QED
    BY <1>3, <1>4, <1>11, <2>2, <2>4 DEF next_pc
<1>12. CASE pc = Address(Base, 5) /\ gprs[3] = Num(gone(gprs[1]))
  <2>1. code[pc] = Instr("jal", 0, 0, 0, Neg(16))
    BY <1>1, <1>12
  <2>2. code[pc].id = "jal" /\ code[pc].rd = 0 /\ code[pc].imm = Neg(16)
    BY <2>1 DEF Instr
  <2>3. exec_jal(code[pc])
    BY <2>2, HandlerOf
  <2>4. gprs' = gprs /\ pc' = Address(Base, 1)
    BY <1>12, <2>2, <2>3, LoopJumps DEF exec_jal, set_reg
  <2>. QED
    BY <1>4, <1>12, <2>4
<1>13. pc # Address(Base, 6)
  <2>1. /\ Address(Base, 6) # Address(Base, 1) /\ Address(Base, 6) # Address(Base, 2)
        /\ Address(Base, 6) # Address(Base, 3) /\ Address(Base, 6) # Address(Base, 4)
        /\ Address(Base, 6) # Address(Base, 5)
    BY AddressesDiffer
  <2>. QED
    BY <1>2, <2>1
<1>. QED
  BY <1>4, <1>8, <1>9, <1>10, <1>11, <1>12, <1>13

\* The loop counts the bits of every word: what is counted and what is left to
\* count are all, whenever the head of the loop is reached and at its end.
THEOREM LoopsRight == ASSUME LoopPrograms PROVE Spec => []BitsCounted
<1>1. Init => CountOn
  <2>. SUFFICES ASSUME Init, start.program[1] = "count" PROVE CountOn
    BY DEF CountOn
  <2>1. CodeOK
    BY DEF Init, CodeOK
  <2>2. start.pc = Address(Base, 1) /\ start.gprs[3] = {} /\ a_ \in DoubleWord
    BY <2>1, LoopStart
  <2>3. gone(a_) = 0
    BY <2>2, WordSize DEF gone
  <2>. QED
    BY <2>2, <2>3, Numbers DEF Init, CountOn, a_
<1>2. TypeOK /\ CodeOK /\ CountOn /\ [Next]_vars => CountOn'
  <2>. SUFFICES ASSUME TypeOK, CodeOK, CountOn, [Next]_vars PROVE CountOn'
    OBVIOUS
  <2>1. CASE UNCHANGED vars
    BY <2>1 DEF vars, CountOn, a_, gone
  <2>2. CASE Next
    <3>1. start' = start
      BY <2>2 DEF Next
    <3>2. CASE start.program[1] = "count"
      BY <2>2, <3>2, CountStep
    <3>3. CASE start.program[1] # "count"
      BY <3>1, <3>3 DEF CountOn
    <3>. QED
      BY <3>2, <3>3
  <2>. QED
    BY <2>1, <2>2
<1>3. CodeOK /\ CountOn => BitsCounted
  <2>. SUFFICES ASSUME CodeOK, CountOn, start.program[1] = "count",
                       pc \in {Base, Address(Base, 2)} \/ Done
                PROVE  gprs[3] = Num(gone(gprs[1]))
    <3>1. CodeOK /\ start.program[1] = "count" => start.program[2] = a_
      BY LoopStart
    <3>. QED
      BY <3>1 DEF BitsCounted, gone
  <2>1. DOMAIN code = {Address(Base, 1), Address(Base, 2), Address(Base, 3), Address(Base, 4),
                       Address(Base, 5)}
    BY LoopStart
  <2>2. Base = Address(Base, 1)
    BY Addresses DEF Base
  <2>3. pc # Address(Base, 4)
    <3>1. Address(Base, 4) # Address(Base, 1) /\ Address(Base, 4) # Address(Base, 2)
      BY AddressesDiffer
    <3>. QED
      BY <2>1, <2>2, <3>1 DEF Done
  <2>. QED
    BY <2>3 DEF CountOn
<1>4. Spec => [](TypeOK /\ CodeOK)
  BY StraightThroughout, PTL
<1>. QED
  BY <1>1, <1>2, <1>3, <1>4, PTL DEF Spec
=============================================================================
