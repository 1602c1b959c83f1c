--------------------------- MODULE Decoder_proofs ---------------------------
(***************************************************************************)
(* Proofs about Decoder, for every table of instructions that satisfies    *)
(* TableAssumption and every word of 32 bits.                              *)
(***************************************************************************)
EXTENDS Decoder, TLAPS

-----------------------------------------------------------------------------
(* The helpers of bits_manipulation.hpp, bit by bit. *)

\* A shift to the right moves bit k + n to k and drops those below n.
LEMMA ShrBit ==
  ASSUME NEW w \in SUBSET Int, NEW n \in Nat, NEW k \in Int
  PROVE  k \in shr(w, n) <=> k >= 0 /\ k + n \in w
BY DEF shr

\* A shift to the left moves bit k - n to k.
LEMMA ShlBit ==
  ASSUME NEW w \in SUBSET Int, NEW n \in Nat, NEW k \in Int
  PROVE  k \in shl(w, n) <=> k - n \in w
BY DEF shl

\* get_bits moves the field to the bottom.
LEMMA GetBit ==
  ASSUME NEW w \in SUBSET Int, NEW to \in Nat, NEW from \in Nat, NEW k \in Int
  PROVE  k \in get_bits(w, to, from) <=> k \in 0 .. to - from /\ k + from \in w
<1>1. mask_bits(w, to, from) \in SUBSET Int
  BY DEF mask_bits
<1>2. k \in get_bits(w, to, from) <=> k >= 0 /\ k + from \in mask_bits(w, to, from)
  BY <1>1, ShrBit DEF get_bits
<1>. QED
  BY <1>2 DEF mask_bits

\* What the decoder gets from get_bits fits the field.
LEMMA GetBitsType ==
  ASSUME NEW w \in SUBSET Int, NEW to \in Nat, NEW from \in Nat
  PROVE  get_bits(w, to, from) \in SUBSET (0 .. to - from)
<1>. SUFFICES ASSUME NEW k \in get_bits(w, to, from)
              PROVE  k \in 0 .. to - from
  OBVIOUS
<1>1. k \in Int
  BY DEF get_bits, mask_bits, shr
<1>. QED
  BY <1>1, GetBit

\* The xor and the subtraction of sext extend a word of n bits with its top bit.
LEMMA SextClean ==
  ASSUME NEW n \in 1 .. XLEN - 1, n \notin {8, 16, 32}, NEW type,
         NEW w \in SUBSET (0 .. n - 1)
  PROVE  sext(n, type, w) = IF n - 1 \in w THEN w \cup (n .. XLEN - 1) ELSE w
<1>. DEFINE f == flip(w, n - 1)
            zeros == {k \in n - 1 .. XLEN - 1 : f \cap (n - 1 .. k) = {}}
            taken == {k \in f : k >= n - 1 /\ f \cap (n - 1 .. k - 1) = {}}
<1>1. sext(n, type, w) = (f \ taken) \cup zeros
  BY DEF sext, minus, XLEN
<1>2. CASE n - 1 \in w
  <2>1. f = w \ {n - 1} /\ \A k \in f : k < n - 1
    BY <1>2 DEF flip
  <2>2. zeros = n - 1 .. XLEN - 1
    BY <2>1 DEF XLEN
  <2>3. taken = {}
    <3>. SUFFICES ASSUME NEW k \in taken PROVE FALSE
      OBVIOUS
    <3>1. k \in f /\ k >= n - 1
      OBVIOUS
    <3>. HIDE DEF f, taken
    <3>2. k < n - 1 /\ k \in Int
      BY <2>1, <3>1
    <3>. QED
      BY <3>1, <3>2
  <2>. HIDE DEF f, zeros, taken
  <2>. QED
    BY <1>1, <1>2, <2>1, <2>2, <2>3 DEF XLEN
<1>3. CASE n - 1 \notin w
  <2>1. f = w \cup {n - 1} /\ \A k \in w : k < n - 1
    BY <1>3 DEF flip
  <2>2. zeros = {}
    BY <2>1 DEF XLEN
  <2>3. n - 1 \in taken
    BY <2>1
  <2>4. ASSUME NEW k \in taken PROVE k = n - 1
    <3>1. k \in f /\ k >= n - 1
      OBVIOUS
    <3>. HIDE DEF f, taken
    <3>2. k \in w => k < n - 1 /\ k \in Int
      BY <2>1
    <3>. QED
      BY <2>1, <3>1, <3>2
  <2>. HIDE DEF f, zeros, taken
  <2>. QED
    BY <1>1, <1>3, <2>1, <2>2, <2>3, <2>4
<1>. QED
  BY <1>2, <1>3

\* The three widths the decoder extends from.
LEMMA Sext12 ==
  ASSUME NEW w \in SUBSET (0 .. 11)
  PROVE  sext(12, 32, w) = IF 11 \in w THEN w \cup (12 .. 63) ELSE w
<1>. DEFINE n == 12
<1>1. n \in 1 .. XLEN - 1 /\ n \notin {8, 16, 32} /\ w \in SUBSET (0 .. n - 1)
  BY DEF XLEN
<1>. HIDE DEF n
<1>2. sext(n, 32, w) = IF n - 1 \in w THEN w \cup (n .. XLEN - 1) ELSE w
  BY <1>1, SextClean
<1>. QED
  BY <1>2 DEF n, XLEN

LEMMA Sext13 ==
  ASSUME NEW w \in SUBSET (0 .. 12)
  PROVE  sext(13, 32, w) = IF 12 \in w THEN w \cup (13 .. 63) ELSE w
<1>. DEFINE n == 13
<1>1. n \in 1 .. XLEN - 1 /\ n \notin {8, 16, 32} /\ w \in SUBSET (0 .. n - 1)
  BY DEF XLEN
<1>. HIDE DEF n
<1>2. sext(n, 32, w) = IF n - 1 \in w THEN w \cup (n .. XLEN - 1) ELSE w
  BY <1>1, SextClean
<1>. QED
  BY <1>2 DEF n, XLEN

LEMMA Sext21 ==
  ASSUME NEW w \in SUBSET (0 .. 20)
  PROVE  sext(21, 32, w) = IF 20 \in w THEN w \cup (21 .. 63) ELSE w
<1>. DEFINE n == 21
<1>1. n \in 1 .. XLEN - 1 /\ n \notin {8, 16, 32} /\ w \in SUBSET (0 .. n - 1)
  BY DEF XLEN
<1>. HIDE DEF n
<1>2. sext(n, 32, w) = IF n - 1 \in w THEN w \cup (n .. XLEN - 1) ELSE w
  BY <1>1, SextClean
<1>. QED
  BY <1>2 DEF n, XLEN

-----------------------------------------------------------------------------
(* The immediates. *)

LEMMA IFormat ==
  ASSUME NEW raw \in RawInstruction
  PROVE  decode_i_imm(raw) = Immediate("i", raw)
<1>. DEFINE w == get_bits(raw, 31, 20)
<1>1. raw \in SUBSET Int
  BY DEF RawInstruction, Bits
<1>2. w \in SUBSET (0 .. 11) /\ \A k \in 0 .. 11 : k \in w <=> k + 20 \in raw
  BY <1>1, GetBit, GetBitsType
<1>. HIDE DEF w
<1>3. sext(12, 32, w) = IF 11 \in w THEN w \cup (12 .. 63) ELSE w
  BY <1>2, Sext12
<1>. QED
  BY <1>2, <1>3 DEF decode_i_imm, Immediate, Place, XLEN, w

LEMMA SFormat ==
  ASSUME NEW raw \in RawInstruction
  PROVE  decode_s_imm(raw) = Immediate("s", raw)
<1>. DEFINE lo == get_bits(raw, 11, 7)
            hi == shr(mask_bits(raw, 31, 25), 20)
            w == lo \cup hi
<1>1. raw \in SUBSET Int /\ mask_bits(raw, 31, 25) \in SUBSET Int
  BY DEF RawInstruction, Bits, mask_bits
<1>2. lo \in SUBSET (0 .. 4) /\ \A k \in 0 .. 4 : k \in lo <=> k + 7 \in raw
  BY <1>1, GetBit, GetBitsType
<1>3. hi \in SUBSET (5 .. 11) /\ \A k \in 5 .. 11 : k \in hi <=> k + 20 \in raw
  BY <1>1, ShrBit DEF mask_bits, shr
<1>. HIDE DEF lo, hi
<1>4. w \in SUBSET (0 .. 11)
  BY <1>2, <1>3
<1>5. sext(12, 32, w) = IF 11 \in w THEN w \cup (12 .. 63) ELSE w
  BY <1>4, Sext12
<1>. QED
  BY <1>2, <1>3, <1>4, <1>5 DEF decode_s_imm, Immediate, Place, XLEN, lo, hi

LEMMA BFormat ==
  ASSUME NEW raw \in RawInstruction
  PROVE  decode_b_imm(raw) = Immediate("b", raw)
<1>. DEFINE a == shr(mask_bits(raw, 11, 8), 7)
            b == shr(mask_bits(raw, 30, 25), 20)
            c == shl(mask_bit(raw, 7), 4)
            d == shr(mask_bit(raw, 31), 19)
            w == a \cup b \cup c \cup d
<1>1. raw \in SUBSET Int
  BY DEF RawInstruction, Bits
<1>2. a \in SUBSET (1 .. 4) /\ \A k \in 1 .. 4 : k \in a <=> k + 7 \in raw
  BY <1>1 DEF mask_bits, shr
<1>3. b \in SUBSET (5 .. 10) /\ \A k \in 5 .. 10 : k \in b <=> k + 20 \in raw
  BY <1>1 DEF mask_bits, shr
<1>4. c \in SUBSET {11} /\ (11 \in c <=> 7 \in raw)
  BY <1>1 DEF mask_bit, shl
<1>5. d \in SUBSET {12} /\ (12 \in d <=> 31 \in raw)
  BY <1>1 DEF mask_bit, shr
<1>6. decode_b_imm(raw) = sext(13, 32, w)
  BY DEF decode_b_imm
<1>. HIDE DEF a, b, c, d
<1>7. w \in SUBSET (0 .. 12)
  BY <1>2, <1>3, <1>4, <1>5
<1>8. sext(13, 32, w) = IF 12 \in w THEN w \cup (13 .. 63) ELSE w
  BY <1>7, Sext13
<1>9. \A k \in 0 .. 63 : k \in w <=> k \in a \/ k \in b \/ k \in c \/ k \in d
  OBVIOUS
<1>. HIDE DEF w
<1>10. \A k \in 0 .. 63 :
         k \in decode_b_imm(raw) <=> k \in w \/ (k \in 13 .. 63 /\ 12 \in w)
  BY <1>6, <1>8
<1>11. ASSUME NEW k \in decode_b_imm(raw) PROVE k \in 0 .. 63
  <2>1. k \in w \/ k \in 13 .. 63
    BY <1>6, <1>8
  <2>2. CASE k \in w
    BY <1>7, <2>2
  <2>3. CASE k \in 13 .. 63
    BY <2>3
  <2>. QED
    BY <2>1, <2>2, <2>3
<1>12. ASSUME NEW k \in 0 .. 63
       PROVE  k \in decode_b_imm(raw) <=> Place("b", k) \in raw
  <2>1. CASE k \in 1 .. 4
    BY <1>2, <1>3, <1>4, <1>5, <1>9, <1>10, <2>1 DEF Place
  <2>2. CASE k \in 5 .. 10
    BY <1>2, <1>3, <1>4, <1>5, <1>9, <1>10, <2>2 DEF Place
  <2>3. CASE k = 11
    BY <1>2, <1>3, <1>4, <1>5, <1>9, <1>10, <2>3 DEF Place
  <2>4. CASE k \in 12 .. 63
    BY <1>2, <1>3, <1>4, <1>5, <1>9, <1>10, <2>4 DEF Place
  <2>5. CASE k = 0
    BY <1>2, <1>3, <1>4, <1>5, <1>9, <1>10, <2>5 DEF Place, RawInstruction, Bits
  <2>. QED
    BY <2>1, <2>2, <2>3, <2>4, <2>5
<1>. QED
  BY <1>11, <1>12 DEF Immediate, XLEN

LEMMA UFormat ==
  ASSUME NEW raw \in RawInstruction
  PROVE  decode_u_imm(raw) = Immediate("u", raw)
<1>1. raw \in SUBSET (0 .. 31)
  BY DEF RawInstruction, Bits
<1>2. decode_u_imm(raw) = mask_bits(raw, 31, 12) \cup {k \in 32 .. 63 : 31 \in raw}
  BY <1>1 DEF decode_u_imm, sext, XLEN, mask_bits
<1>. QED
  BY <1>1, <1>2 DEF Immediate, Place, XLEN, mask_bits

LEMMA JFormat ==
  ASSUME NEW raw \in RawInstruction
  PROVE  decode_j_imm(raw) = Immediate("j", raw)
<1>. DEFINE a == shr(mask_bits(raw, 30, 21), 20)
            b == shr(mask_bit(raw, 20), 9)
            c == mask_bits(raw, 19, 12)
            d == shr(mask_bit(raw, 31), 11)
            w == a \cup b \cup c \cup d
<1>1. raw \in SUBSET Int
  BY DEF RawInstruction, Bits
<1>2. a \in SUBSET (1 .. 10) /\ \A k \in 1 .. 10 : k \in a <=> k + 20 \in raw
  BY <1>1 DEF mask_bits, shr
<1>3. b \in SUBSET {11} /\ (11 \in b <=> 20 \in raw)
  BY <1>1 DEF mask_bit, shr
<1>4. c \in SUBSET (12 .. 19) /\ \A k \in 12 .. 19 : k \in c <=> k \in raw
  BY <1>1 DEF mask_bits
<1>5. d \in SUBSET {20} /\ (20 \in d <=> 31 \in raw)
  BY <1>1 DEF mask_bit, shr
<1>6. decode_j_imm(raw) = sext(21, 32, w)
  BY DEF decode_j_imm
<1>. HIDE DEF a, b, c, d
<1>7. w \in SUBSET (0 .. 20)
  BY <1>2, <1>3, <1>4, <1>5
<1>8. sext(21, 32, w) = IF 20 \in w THEN w \cup (21 .. 63) ELSE w
  BY <1>7, Sext21
<1>9. \A k \in 0 .. 63 : k \in w <=> k \in a \/ k \in b \/ k \in c \/ k \in d
  OBVIOUS
<1>. HIDE DEF w
<1>10. \A k \in 0 .. 63 :
         k \in decode_j_imm(raw) <=> k \in w \/ (k \in 21 .. 63 /\ 20 \in w)
  BY <1>6, <1>8
<1>11. ASSUME NEW k \in decode_j_imm(raw) PROVE k \in 0 .. 63
  <2>1. k \in w \/ k \in 21 .. 63
    BY <1>6, <1>8
  <2>2. CASE k \in w
    BY <1>7, <2>2
  <2>3. CASE k \in 21 .. 63
    BY <2>3
  <2>. QED
    BY <2>1, <2>2, <2>3
<1>12. ASSUME NEW k \in 0 .. 63
       PROVE  k \in decode_j_imm(raw) <=> Place("j", k) \in raw
  <2>1. CASE k \in 1 .. 10
    BY <1>2, <1>3, <1>4, <1>5, <1>9, <1>10, <2>1 DEF Place
  <2>2. CASE k = 11
    BY <1>2, <1>3, <1>4, <1>5, <1>9, <1>10, <2>2 DEF Place
  <2>3. CASE k \in 12 .. 19
    BY <1>2, <1>3, <1>4, <1>5, <1>9, <1>10, <2>3 DEF Place
  <2>4. CASE k \in 20 .. 63
    BY <1>2, <1>3, <1>4, <1>5, <1>9, <1>10, <2>4 DEF Place
  <2>5. CASE k = 0
    BY <1>2, <1>3, <1>4, <1>5, <1>9, <1>10, <2>5 DEF Place, RawInstruction, Bits
  <2>. QED
    BY <2>1, <2>2, <2>3, <2>4, <2>5
<1>. QED
  BY <1>11, <1>12 DEF Immediate, XLEN

\* The five immediates are laid out as the formats say.
LEMMA ImmIsImmediate ==
  ASSUME NEW raw \in RawInstruction, NEW i,
         format(i) \in {"i", "s", "b", "u", "j"}
  PROVE  imm(i, raw) = Immediate(format(i), raw)
BY IFormat, SFormat, BFormat, UFormat, JFormat DEF imm

LEMMA ImmType ==
  ASSUME NEW raw \in RawInstruction, NEW i
  PROVE  imm(i, raw) \in Bits(XLEN)
<1>1. CASE format(i) \in {"i", "s", "b", "u", "j"}
  BY <1>1, ImmIsImmediate DEF Immediate, Bits
<1>2. CASE format(i) = "fence"
  <2>1. raw \in SUBSET Int
    BY DEF RawInstruction, Bits
  <2>2. get_bits(raw, 31, 20) \in SUBSET (0 .. 11)
    BY <2>1, GetBitsType
  <2>. QED
    BY <1>2, <2>2 DEF imm, Bits, XLEN
<1>3. CASE format(i) = "none"
  BY <1>3 DEF imm, Bits
<1>. QED
  BY <1>1, <1>2, <1>3 DEF format

LEMMA FieldType ==
  ASSUME NEW raw \in RawInstruction, NEW i, NEW names,
         NEW from \in Nat, NEW to \in Nat, to - from = 4
  PROVE  Field(i, names, raw, to, from) \in Bits(5)
<1>1. raw \in SUBSET Int
  BY DEF RawInstruction, Bits
<1>2. get_bits(raw, to, from) \in SUBSET (0 .. 4)
  BY <1>1, GetBitsType
<1>. QED
  BY <1>2 DEF Field, Bits

-----------------------------------------------------------------------------
(* Type correctness. *)

\* Every instruction decoded has register numbers of five bits and an
\* immediate of 64, and only masks of the opcode are tried.
THEOREM TypeCorrect == Spec => []TypeOK
<1>1. Init => TypeOK
  BY RawsAssumption DEF Init, TypeOK
<1>2. TypeOK /\ [Next]_vars => TypeOK'
  <2>. SUFFICES ASSUME TypeOK, [Next]_vars PROVE TypeOK'
    OBVIOUS
  <2>. USE DEF TypeOK
  <2>1. ASSUME NEW m \in untried, Hit(m) PROVE TypeOK'
    <3>1. PICK i \in Found(raw_instr \cap m) : instr' = decoder(i, raw_instr)
      BY <2>1 DEF Hit
    <3>2. i \in Instr
      BY DEF Found
    <3>3. decoder(i, raw_instr) \in
            [id : Instr, rs1 : Bits(5), rs2 : Bits(5), rd : Bits(5), imm : Bits(XLEN)]
      <4>1. /\ Field(i, {"rs1", "zimm"}, raw_instr, 19, 15) \in Bits(5)
            /\ Field(i, {"rs2"}, raw_instr, 24, 20) \in Bits(5)
            /\ Field(i, {"rd"}, raw_instr, 11, 7) \in Bits(5)
        BY FieldType
      <4>. QED
        BY <3>2, <4>1, ImmType DEF decoder
    <3>. QED
      BY <2>1, <3>1, <3>3 DEF Hit
  <2>2. ASSUME NEW m \in untried, Miss(m) PROVE TypeOK'
    BY <2>2 DEF Miss, untried
  <2>3. CASE Refuse
    BY <2>3 DEF Refuse
  <2>4. CASE UNCHANGED vars
    BY <2>4 DEF vars
  <2>. QED
    BY <2>1, <2>2, <2>3, <2>4 DEF Next
<1>. QED
  BY <1>1, <1>2, PTL DEF Spec

-----------------------------------------------------------------------------
(* The immediates of what is decoded. *)

Decoded == instr \in {Nothing, Unknown} \/ \E i \in Instr : instr = decoder(i, raw_instr)

\* The immediate the handlers get is the one the format describes, sign and all.
THEOREM ImmediatesRight == Spec => []ImmediatesInPlace
<1>1. Init => Decoded
  BY DEF Init, Decoded
<1>2. Decoded /\ [Next]_vars => Decoded'
  BY DEF Decoded, Next, Hit, Miss, Refuse, Found, vars
<1>3. TypeOK /\ Decoded => ImmediatesInPlace
  <2>. SUFFICES ASSUME TypeOK, Decoded, instr.id \in Instr,
                       format(instr.id) \in {"i", "s", "b", "u", "j"}
                PROVE  instr.imm = Immediate(format(instr.id), raw_instr)
    BY DEF ImmediatesInPlace
  <2>1. instr \notin {Nothing, Unknown}
    BY TableAssumption DEF TableOK, Nothing, Unknown
  <2>2. PICK i \in Instr : instr = decoder(i, raw_instr)
    BY <2>1 DEF Decoded
  <2>3. instr.id = i /\ instr.imm = imm(i, raw_instr)
    BY <2>2 DEF decoder
  <2>. QED
    BY <2>3, ImmIsImmediate DEF TypeOK
<1>. QED
  BY <1>1, <1>2, <1>3, TypeCorrect, PTL DEF Spec

-----------------------------------------------------------------------------
(* The search for the instruction. *)

\* A word has the opcode of the instruction it encodes.
LEMMA SameOpcode ==
  ASSUME NEW raw, NEW i \in Instr, Encodes(raw, i)
  PROVE  opcode_of(raw) = opcode_of(match[i])
<1>1. 0 .. 6 \subseteq mask[i]
  BY TableAssumption DEF TableOK
<1>2. raw \cap mask[i] = match[i]
  BY DEF Encodes
<1>3. mask_bits(raw, 6, 0) = mask_bits(match[i], 6, 0)
  BY <1>1, <1>2 DEF mask_bits
<1>. QED
  BY <1>3 DEF opcode_of, get_bits

\* While the search lasts, the mask of the right answer has not been passed.
StillAhead ==
  \A i \in Instr : Encodes(raw_instr, i) =>
    IF instr = Nothing THEN mask[i] \notin tried ELSE instr.id = i

\* The answer found under any mask met on the way is the right one.
LEMMA HitIsRight ==
  ASSUME NEW m \in untried, NextMask(m), NEW k \in Found(raw_instr \cap m),
         NEW i \in Instr, Encodes(raw_instr, i), mask[i] \notin tried
  PROVE  k = i
<1>1. k \in Instr /\ match[k] = raw_instr \cap m /\ match[i] = raw_instr \cap mask[i]
  BY DEF Found, Encodes
<1>2. opcode_of(raw_instr) = opcode_of(match[i])
  BY SameOpcode
<1>3. CASE m = mask[i]
  BY <1>1, <1>3, TableAssumption DEF LabelsDiffer
<1>4. CASE m # mask[i]
  <2>1. mask[i] \in untried
    BY <1>2 DEF untried, masks
  <2>2. Above(m, mask[i])
    BY <1>4, <2>1 DEF NextMask
  <2>3. m \in masks(opcode_of(match[i]))
    BY <1>2 DEF untried
  <2>4. match[k] \subseteq m /\ match[k] \cap mask[i] = match[i] \cap m
    BY <1>1
  <2>. QED
    BY <1>1, <2>2, <2>3, <2>4, TableAssumption DEF NoDetour
<1>. QED
  BY <1>3, <1>4

\* decode never takes an encoding for another instruction, nor refuses it.
THEOREM DecodesRight == Spec => []EncodingsDecode
<1>1. Init => StillAhead
  BY DEF Init, StillAhead
<1>2. StillAhead /\ [Next]_vars => StillAhead'
  <2>. SUFFICES ASSUME StillAhead, [Next]_vars,
                       NEW i \in Instr, Encodes(raw_instr, i)', UNCHANGED raw_instr
                PROVE  IF instr' = Nothing THEN mask[i] \notin tried' ELSE instr'.id = i
    BY DEF StillAhead, Next, Hit, Miss, Refuse, vars
  <2>0. Encodes(raw_instr, i)
    BY DEF Encodes
  <2>1. ASSUME NEW m \in untried, Hit(m)
        PROVE  instr' # Nothing /\ instr'.id = i
    <3>1. PICK k \in Found(raw_instr \cap m) : instr' = decoder(k, raw_instr)
      BY <2>1 DEF Hit
    <3>2. k = i
      BY <2>0, <2>1, HitIsRight DEF Hit, StillAhead
    <3>3. instr'.id = i
      BY <3>1, <3>2 DEF decoder
    <3>. QED
      BY <3>3, TableAssumption DEF TableOK, Nothing
  <2>2. ASSUME NEW m \in untried, Miss(m)
        PROVE  instr' = Nothing /\ mask[i] \notin tried'
    <3>1. mask[i] # m
      BY <2>0, <2>2 DEF Miss, Found, Encodes
    <3>. QED
      BY <2>0, <2>2, <3>1 DEF Miss, StillAhead
  <2>3. CASE Refuse
    <3>1. mask[i] \in untried
      BY <2>0, <2>3, SameOpcode DEF Refuse, StillAhead, untried, masks
    <3>. QED
      BY <2>3, <3>1 DEF Refuse
  <2>4. CASE UNCHANGED vars
    BY <2>0, <2>4 DEF vars, StillAhead
  <2>. QED
    BY <2>1, <2>2, <2>3, <2>4 DEF Next
<1>3. StillAhead => EncodingsDecode
  BY DEF StillAhead, EncodingsDecode
<1>. QED
  BY <1>1, <1>2, <1>3, PTL DEF Spec

-----------------------------------------------------------------------------
(* Words that encode nothing. *)

\* What is found is the instruction the word encodes, or one of the greedy.
FoundOrGreedy ==
  instr \notin {Nothing, Unknown} =>
    \E i \in Instr : instr.id = i /\ (Encodes(raw_instr, i) \/ i \in Greedy)

LEMMA FoundIsEncoded ==
  ASSUME GreedyAreAll, TypeOK, NEW m \in untried, NEW i \in Found(raw_instr \cap m), i \notin Greedy
  PROVE  Encodes(raw_instr, i)
<1>1. i \in Instr /\ match[i] = raw_instr \cap m
  BY DEF Found
<1>2. 0 .. 6 \subseteq m
  BY TableAssumption DEF TableOK, untried, masks
<1>3. opcode_of(raw_instr) = opcode_of(match[i])
  <2>1. mask_bits(raw_instr, 6, 0) = mask_bits(match[i], 6, 0)
    BY <1>1, <1>2 DEF mask_bits
  <2>. QED
    BY <2>1 DEF opcode_of, get_bits
<1>4. m \in masks(opcode_of(match[i]))
  BY <1>3 DEF untried
<1>5. mask[i] \subseteq m /\ match[i] \subseteq mask[i]
  BY <1>1, <1>4, TableAssumption DEF GreedyAreAll, TableOK
<1>. QED
  BY <1>1, <1>5 DEF Encodes

\* A word that encodes nothing is refused, or taken for an instruction that is
\* known to be found under masks shorter than its own.
THEOREM OthersAreRefused == ASSUME GreedyAreAll PROVE Spec => []OthersRefused
<1>1. Init => FoundOrGreedy
  BY DEF Init, FoundOrGreedy
<1>2. TypeOK /\ FoundOrGreedy /\ [Next]_vars => FoundOrGreedy'
  <2>. SUFFICES ASSUME TypeOK, FoundOrGreedy, [Next]_vars PROVE FoundOrGreedy'
    OBVIOUS
  <2>1. ASSUME NEW m \in untried, Hit(m) PROVE FoundOrGreedy'
    <3>1. PICK i \in Found(raw_instr \cap m) : instr' = decoder(i, raw_instr)
      BY <2>1 DEF Hit
    <3>2. Encodes(raw_instr, i) \/ i \in Greedy
      BY FoundIsEncoded
    <3>3. i \in Instr /\ instr'.id = i /\ raw_instr' = raw_instr
      BY <2>1, <3>1 DEF Hit, Found, decoder
    <3>. QED
      BY <3>2, <3>3 DEF FoundOrGreedy, Encodes
  <2>2. ASSUME NEW m \in untried, Miss(m) PROVE FoundOrGreedy'
    BY <2>2 DEF Miss, FoundOrGreedy
  <2>3. CASE Refuse
    BY <2>3 DEF Refuse, FoundOrGreedy
  <2>4. CASE UNCHANGED vars
    BY <2>4 DEF vars, FoundOrGreedy, Encodes
  <2>. QED
    BY <2>1, <2>2, <2>3, <2>4 DEF Next
<1>3. FoundOrGreedy => OthersRefused
  BY DEF FoundOrGreedy, OthersRefused, Unknown
<1>. QED
  BY <1>1, <1>2, <1>3, TypeCorrect, PTL DEF Spec
=============================================================================
