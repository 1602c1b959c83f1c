------------------------------ MODULE Decoder ------------------------------
(***************************************************************************)
(* Decoder::decode: the immediates (include/yarvs/decoder.hpp) and the     *)
(* decoder code-gen/generator.py generates from the table of instructions  *)
(* riscv-opcodes provides.  The table is a constant; MC_Decoder has that   *)
(* of the extensions code-gen/CMakeLists.txt names.                        *)
(***************************************************************************)
EXTENDS Words

CONSTANTS
  Instr,   \* the names of the instructions
  mask,    \* [Instr -> word]: the bits an encoding fixes
  match,   \* [Instr -> word]: and their values
  fields,  \* [Instr -> set of names]: the operands
  Raws     \* the words to decode

RawInstruction == Bits(32)

opcode_of(w) == get_bits(w, 6, 0)

\* generate_decoding_method: the masks of an opcode.
masks(opcode) == {mask[i] : i \in {j \in Instr : opcode_of(match[j]) = opcode}}

\* raw is an encoding of i.
Encodes(raw, i) == raw \cap mask[i] = match[i]

TableOK ==
  /\ {"unknown", "nothing"} \cap Instr = {}
  /\ mask \in [Instr -> RawInstruction] /\ match \in [Instr -> RawInstruction]
  /\ \A i \in Instr : match[i] \subseteq mask[i] /\ 0 .. 6 \subseteq mask[i]

\* The labels of a switch differ.
LabelsDiffer == \A i, j \in Instr : match[i] = match[j] => i = j

\* No label of another instruction can be met on the way to one's own: a word
\* that encodes i may agree with match[j] on a mask of the opcode that is tried
\* before mask[i] only if j is i.
NoDetour ==
  \A i \in Instr : \A m \in masks(opcode_of(match[i])) :
    Above(m, mask[i]) =>
      \A j \in Instr :
        match[j] \subseteq m /\ match[j] \cap mask[i] = match[i] \cap m => j = i

ASSUME TableAssumption == TableOK /\ LabelsDiffer /\ NoDetour

ASSUME RawsAssumption == Raws \subseteq RawInstruction

-----------------------------------------------------------------------------
(* The immediates. *)

decode_i_imm(raw) == sext(12, 32, get_bits(raw, 31, 20))

decode_s_imm(raw) ==
  sext(12, 32, get_bits(raw, 11, 7) \cup shr(mask_bits(raw, 31, 25), 20))

\* Mutant of decode_b_imm: bit 7 is left with the low bits, as in decode_s_imm.
LowBitsOfS(raw) ==
  sext(13, 32, shr(mask_bits(raw, 11, 7), 7) \cup shr(mask_bits(raw, 30, 25), 20)
               \cup shr(mask_bit(raw, 31), 19))

decode_b_imm(raw) ==
  sext(13, 32, shr(mask_bits(raw, 11, 8), 7) \cup shr(mask_bits(raw, 30, 25), 20)
               \cup shl(mask_bit(raw, 7), 4) \cup shr(mask_bit(raw, 31), 19))

decode_u_imm(raw) == sext(32, 32, mask_bits(raw, 31, 12))

decode_j_imm(raw) ==
  sext(21, 32, shr(mask_bits(raw, 30, 21), 20) \cup shr(mask_bit(raw, 20), 9)
               \cup mask_bits(raw, 19, 12) \cup shr(mask_bit(raw, 31), 11))

\* generate_one_instr_case: which of them an instruction has.
format(i) ==
  IF fields[i] \cap {"csr", "imm12", "shamtd", "shamtw"} # {} THEN "i"
  ELSE IF {"imm12hi", "imm12lo"} \subseteq fields[i] THEN "s"
  ELSE IF {"bimm12hi", "bimm12lo"} \subseteq fields[i] THEN "b"
  ELSE IF "imm20" \in fields[i] THEN "u"
  ELSE IF "jimm20" \in fields[i] THEN "j"
  ELSE IF {"fm", "pred", "succ"} \subseteq fields[i] THEN "fence"
  ELSE "none"

imm(i, raw) ==
  CASE format(i) = "i" -> decode_i_imm(raw)
    [] format(i) = "s" -> decode_s_imm(raw)
    [] format(i) = "b" -> decode_b_imm(raw)
    [] format(i) = "u" -> decode_u_imm(raw)
    [] format(i) = "j" -> decode_j_imm(raw)
    [] format(i) = "fence" -> get_bits(raw, 31, 20)
    [] OTHER -> {}

\* Mutant of Field: get_bits is given the position after the last.
FieldOneWide(i, names, raw, to, from) ==
  IF fields[i] \cap names # {} THEN get_bits(raw, to + 1, from) ELSE {}

\* A field the instruction does not have is zero.
Field(i, names, raw, to, from) ==
  IF fields[i] \cap names # {} THEN get_bits(raw, to, from) ELSE {}

decoder(i, raw) ==
  [id |-> i,
   rs1 |-> Field(i, {"rs1", "zimm"}, raw, 19, 15),
   rs2 |-> Field(i, {"rs2"}, raw, 24, 20),
   rd |-> Field(i, {"rd"}, raw, 11, 7),
   imm |-> imm(i, raw)]

-----------------------------------------------------------------------------
(* Which instruction a word is. *)

\* get_decoder: the switch has the matches of all instructions, and not their
\* masks.
Found(w) == {i \in Instr : match[i] = w}

\* std::invalid_argument: unknown instruction, or unknown opcode.
Unknown == [id |-> "unknown"]

Nothing == [id |-> "nothing"]

VARIABLES
  raw_instr,  \* the word fetched
  tried,      \* the masks tried so far
  instr       \* what the word has been decoded to

vars == <<raw_instr, tried, instr>>

Init == raw_instr \in Raws /\ tried = {} /\ instr = Nothing

untried == masks(opcode_of(raw_instr)) \ tried

\* Mutant of NextMask: the masks are sorted in ascending order.
NextMaskAscending(m) == m \in untried /\ \A n \in untried : n = m \/ Above(n, m)

\* The masks are sorted in descending order.
NextMask(m) == m \in untried /\ \A n \in untried : n = m \/ Above(m, n)

\* Mutant of Hit: the masked word is compared with the masked matches.
HitUnderMask(m) ==
  /\ instr = Nothing /\ NextMask(m)
  /\ \E i \in {j \in Instr : match[j] \cap m = raw_instr \cap m} :
       instr' = decoder(i, raw_instr)
  /\ UNCHANGED <<raw_instr, tried>>

Hit(m) ==
  /\ instr = Nothing /\ NextMask(m)
  /\ \E i \in Found(raw_instr \cap m) : instr' = decoder(i, raw_instr)
  /\ UNCHANGED <<raw_instr, tried>>

Miss(m) ==
  /\ instr = Nothing /\ NextMask(m)
  /\ Found(raw_instr \cap m) = {}
  /\ tried' = tried \cup {m}
  /\ UNCHANGED <<raw_instr, instr>>

\* The loop has ended, or there is no loop for the opcode.
Refuse ==
  /\ instr = Nothing /\ untried = {}
  /\ instr' = Unknown
  /\ UNCHANGED <<raw_instr, tried>>

Next == (\E m \in untried : Hit(m) \/ Miss(m)) \/ Refuse

Spec == Init /\ [][Next]_vars

-----------------------------------------------------------------------------
(* Properties. *)

TypeOK ==
  /\ raw_instr \in RawInstruction
  /\ tried \subseteq masks(opcode_of(raw_instr))
  /\ \/ instr \in {Nothing, Unknown}
     \/ instr \in [id : Instr, rs1 : Bits(5), rs2 : Bits(5), rd : Bits(5), imm : Bits(XLEN)]

\* Every encoding of an instruction is decoded to that instruction, whatever
\* its operands: the operand bits of a word never make it look like another
\* instruction under the masks decode tries first.
EncodingsDecode ==
  instr # Nothing => \A i \in Instr : Encodes(raw_instr, i) => instr.id = i

\* Where the instruction formats put bit k of an immediate; the last place is
\* the sign, and -1 is nowhere.
Place(f, k) ==
  CASE f = "i" -> IF k < 11 THEN 20 + k ELSE 31
    [] f = "s" -> IF k < 5 THEN 7 + k ELSE IF k < 11 THEN 20 + k ELSE 31
    [] f = "b" -> IF k = 0 THEN -1 ELSE IF k < 5 THEN 7 + k
                  ELSE IF k < 11 THEN 20 + k ELSE IF k = 11 THEN 7 ELSE 31
    [] f = "u" -> IF k < 12 THEN -1 ELSE IF k < 31 THEN k ELSE 31
    [] f = "j" -> IF k = 0 THEN -1 ELSE IF k < 11 THEN 20 + k
                  ELSE IF k = 11 THEN 20 ELSE IF k < 20 THEN k ELSE 31

Immediate(f, raw) == {k \in 0 .. XLEN - 1 : Place(f, k) \in raw}

\* The masks, shifts and the sign extension of decode_*_imm put every bit of an
\* immediate where the format says, up to bit 63; the numbers of CSRs, which are
\* immediates of format i, are thereby negative from 2048 on.
ImmediatesInPlace ==
  instr.id \in Instr =>
    LET f == format(instr.id) IN
      f \in {"i", "s", "b", "u", "j"} => instr.imm = Immediate(f, raw_instr)

\* The search does not come back to the mask an instruction was found under: of
\* the words that encode nothing, those that look like one of these under a
\* shorter mask are taken for it, and all the others are refused.
Greedy == {"ecall", "slli", "srli", "slliw", "srliw"}

\* What the table has to have for that: under a mask that lets the match of any
\* other instruction through, all that this instruction fixes is looked at.
GreedyAreAll ==
  \A i \in Instr \ Greedy : \A m \in masks(opcode_of(match[i])) :
    match[i] \subseteq m => mask[i] \subseteq m

OthersRefused ==
  instr # Nothing /\ (\A i \in Instr : ~Encodes(raw_instr, i)) =>
    instr.id \in {"unknown"} \cup Greedy
=============================================================================
