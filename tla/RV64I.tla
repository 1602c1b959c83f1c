------------------------------- MODULE RV64I -------------------------------
(***************************************************************************)
(* The integer instructions as Hart executes them (the exec_* templates of *)
(* include/yarvs/hart.hpp, their uses in src/executor.cpp, and RegFile of  *)
(* include/yarvs/reg_file.hpp), on words of the real width.  The order of  *)
(* the reads and the writes within a handler is kept.  Memory is one       *)
(* doubleword, mapped and writable: faults are the business of Memory, and *)
(* what a fault does that of Traps.                                        *)
(***************************************************************************)
EXTENDS Words

CONSTANTS
  Reg,    \* the numbers of the registers the programs use
  Starts  \* states to start from: [program, code, gprs, pc, cell], code being
          \* a function from addresses to instructions

DoubleWord == Bits(XLEN)

\* sizeof(RawInstruction)
ILEN == {2}

Instruction(i) ==
  /\ i.rd \in Reg /\ i.rs1 \in Reg /\ i.rs2 \in Reg
  /\ i.imm \in DoubleWord

ASSUME StartsAssumption ==
  /\ 0 \in Reg
  /\ \A s \in Starts :
       /\ s.gprs \in [Reg -> DoubleWord] /\ s.gprs[0] = {}
       /\ s.pc \in DoubleWord /\ s.cell \in DoubleWord
       /\ \A a \in DOMAIN s.code : Instruction(s.code[a])

VARIABLES
  start,  \* the state the program started from
  gprs,   \* gprs_
  pc,     \* pc_
  cell    \* the doubleword of memory

vars == <<start, gprs, pc, cell>>

-----------------------------------------------------------------------------
get_reg(r) == gprs[r]

\* Mutant of set_reg: x0 is written like any other register.
SetAnyReg(r, w) == gprs' = [gprs EXCEPT ![r] = w]

set_reg(r, w) == gprs' = IF r = 0 THEN gprs ELSE [gprs EXCEPT ![r] = w]

bool(b) == IF b THEN {0} ELSE {}

worth(w, k, n) == IF k \in w THEN n ELSE 0

\* The number a word of six bits is.
places(w) ==
  worth(w, 0, 1) + worth(w, 1, 2) + worth(w, 2, 4) + worth(w, 3, 8) + worth(w, 4, 16)
  + worth(w, 5, 32)

shift_right_signed(w, n) ==
  shr(w, n) \cup (IF XLEN - 1 \in w THEN XLEN - n .. XLEN - 1 ELSE {})

\* Mutant of shift_amount: five bits for the shifts of doublewords too.
FiveBits(id, w) == places(mask_bits(w, 4, 0))

\* The shifts of words by a register take five bits of it, the others six.
shift_amount(id, w) ==
  places(mask_bits(w, IF id \in {"sllw", "srlw", "sraw"} THEN 4 ELSE 5, 0))

\* Mutant of less: the order of signed numbers.
LessSigned(l, r) == BelowSigned(XLEN, l, r)

\* std::less of unsigned numbers.
less(l, r) == Above(r, l)

\* bin_op: what each handler passes to its template.
Result(id, l, r) ==
  CASE id \in {"add", "addi", "addw", "addiw"} -> plus(XLEN, l, r)
    [] id \in {"sub", "subw"} -> difference(XLEN, l, r)
    [] id \in {"and", "andi"} -> l \cap r
    [] id \in {"or", "ori"} -> l \cup r
    [] id \in {"xor", "xori"} -> xor(l, r)
    [] id \in {"slt", "slti"} -> bool(BelowSigned(XLEN, l, r))
    [] id \in {"sltu", "sltiu"} -> bool(less(l, r))
    [] id \in {"sll", "slli", "sllw", "slliw"} ->
         shl(l, shift_amount(id, r)) \cap (0 .. XLEN - 1)
    [] id \in {"srl", "srli", "srlw", "srliw"} -> shr(l, shift_amount(id, r))
    [] id \in {"sra", "srai", "sraw", "sraiw"} -> shift_right_signed(l, shift_amount(id, r))

\* sext<32, DoubleWord>(static_cast<Word>(res))
sext_word(w) == sext(32, 32, mask_bits(w, 31, 0))

next_pc == plus(XLEN, pc, ILEN)

RegReg == {"add", "sub", "and", "xor", "or", "sltu", "slt", "sll", "srl", "sra"}
RegImm == {"addi", "andi", "ori", "xori", "sltiu", "slti", "slli", "srli", "srai"}
RegRegW == {"addw", "subw", "sllw", "srlw", "sraw"}
RegImmW == {"addiw", "slliw", "srliw", "sraiw"}

exec_rvi_reg_reg(i) ==
  /\ i.id \in RegReg
  /\ set_reg(i.rd, Result(i.id, get_reg(i.rs1), get_reg(i.rs2)))
  /\ pc' = next_pc /\ UNCHANGED cell

exec_rvi_reg_imm(i) ==
  /\ i.id \in RegImm
  /\ set_reg(i.rd, Result(i.id, get_reg(i.rs1), i.imm))
  /\ pc' = next_pc /\ UNCHANGED cell

exec_rv64i_reg_reg(i) ==
  /\ i.id \in RegRegW
  /\ set_reg(i.rd, sext_word(Result(i.id, get_reg(i.rs1), get_reg(i.rs2))))
  /\ pc' = next_pc /\ UNCHANGED cell

\* Mutant of exec_rv64i_reg_imm: the result is not extended.
ImmNotExtended(i) ==
  /\ i.id \in RegImmW
  /\ set_reg(i.rd, mask_bits(Result(i.id, get_reg(i.rs1), i.imm), 31, 0))
  /\ pc' = next_pc /\ UNCHANGED cell

exec_rv64i_reg_imm(i) ==
  /\ i.id \in RegImmW
  /\ set_reg(i.rd, sext_word(Result(i.id, get_reg(i.rs1), i.imm)))
  /\ pc' = next_pc /\ UNCHANGED cell

exec_lui(i) == i.id = "lui" /\ set_reg(i.rd, i.imm) /\ pc' = next_pc /\ UNCHANGED cell

exec_auipc(i) ==
  /\ i.id = "auipc"
  /\ set_reg(i.rd, plus(XLEN, pc, i.imm)) /\ pc' = next_pc
  /\ UNCHANGED cell

\* Mutant of exec_jal: the offset counts from the instruction after.
JumpFromNext(i) ==
  /\ i.id = "jal"
  /\ set_reg(i.rd, next_pc) /\ pc' = plus(XLEN, next_pc, i.imm)
  /\ UNCHANGED cell

exec_jal(i) ==
  /\ i.id = "jal"
  /\ set_reg(i.rd, next_pc) /\ pc' = plus(XLEN, pc, i.imm)
  /\ UNCHANGED cell

\* Mutant of exec_jalr: the link is the address of the jump.
LinkToJump(i) ==
  /\ i.id = "jalr"
  /\ set_reg(i.rd, pc) /\ pc' = plus(XLEN, gprs'[i.rs1], i.imm) \ {0}
  /\ UNCHANGED cell

\* Mutant of exec_jalr: bit 0 of the target is kept.
TargetKept(i) ==
  /\ i.id = "jalr"
  /\ set_reg(i.rd, next_pc) /\ pc' = plus(XLEN, gprs'[i.rs1], i.imm)
  /\ UNCHANGED cell

\* rd is written before rs1 is read.
exec_jalr(i) ==
  /\ i.id = "jalr"
  /\ set_reg(i.rd, next_pc) /\ pc' = plus(XLEN, gprs'[i.rs1], i.imm) \ {0}
  /\ UNCHANGED cell

\* Mutant of Taken: bge is taken only if greater.
TakenIfGreater(id, l, r) ==
  CASE id = "beq" -> l = r
    [] id = "bne" -> l # r
    [] id = "blt" -> BelowSigned(XLEN, l, r)
    [] id = "bltu" -> less(l, r)
    [] id = "bge" -> BelowSigned(XLEN, r, l)
    [] id = "bgeu" -> ~less(l, r)

\* The condition of a branch; OTHER is no branch.
Taken(id, l, r) ==
  CASE id = "beq" -> l = r
    [] id = "bne" -> l # r
    [] id = "blt" -> BelowSigned(XLEN, l, r)
    [] id = "bltu" -> less(l, r)
    [] id = "bge" -> ~BelowSigned(XLEN, l, r)
    [] id = "bgeu" -> ~less(l, r)

Branches == {"beq", "bne", "blt", "bltu", "bge", "bgeu"}

exec_cond_branch(i) ==
  /\ i.id \in Branches
  /\ pc' = IF Taken(i.id, get_reg(i.rs1), get_reg(i.rs2))
           THEN plus(XLEN, pc, i.imm) ELSE next_pc
  /\ UNCHANGED <<gprs, cell>>

\* The number of bits of the type a load or store is instantiated with.
kNBits(id) ==
  CASE id \in {"lb", "lbu", "sb"} -> 8
    [] id \in {"lh", "lhu", "sh"} -> 16
    [] id \in {"lw", "lwu", "sw"} -> 32
    [] id \in {"ld", "sd"} -> 64

\* The first bit of the doubleword the address is at.
at(i) == 8 * places(plus(XLEN, get_reg(i.rs1), i.imm) \cap (0 .. 2))

\* The model's memory ends with the doubleword.
Within(i) == at(i) + kNBits(i.id) <= XLEN

loaded(i) == get_bits(cell, at(i) + kNBits(i.id) - 1, at(i))

\* Mutant of exec_load: the value is not extended.
LoadUnsigned(i) ==
  /\ i.id \in {"lb", "lh", "lw", "ld"} /\ Within(i)
  /\ set_reg(i.rd, loaded(i)) /\ pc' = next_pc /\ UNCHANGED cell

exec_load(i) ==
  /\ i.id \in {"lb", "lh", "lw", "ld"} /\ Within(i)
  /\ set_reg(i.rd, sext(kNBits(i.id), kNBits(i.id), loaded(i)))
  /\ pc' = next_pc /\ UNCHANGED cell

exec_uload(i) ==
  /\ i.id \in {"lbu", "lhu", "lwu"} /\ Within(i)
  /\ set_reg(i.rd, loaded(i)) /\ pc' = next_pc /\ UNCHANGED cell

exec_store(i) ==
  /\ i.id \in {"sb", "sh", "sw", "sd"} /\ Within(i)
  /\ LET width == kNBits(i.id) IN
       cell' = (cell \ (at(i) .. at(i) + width - 1))
               \cup shl(mask_bits(get_reg(i.rs2), width - 1, 0), at(i))
  /\ pc' = next_pc /\ UNCHANGED gprs

-----------------------------------------------------------------------------
Init ==
  /\ start \in Starts
  /\ gprs = start.gprs /\ pc = start.pc /\ cell = start.cell

code == start.code

Next ==
  /\ pc \in DOMAIN code
  /\ LET i == code[pc] IN
       \/ exec_rvi_reg_reg(i) \/ exec_rvi_reg_imm(i)
       \/ exec_rv64i_reg_reg(i) \/ exec_rv64i_reg_imm(i)
       \/ exec_lui(i) \/ exec_auipc(i) \/ exec_jal(i) \/ exec_jalr(i)
       \/ exec_cond_branch(i)
       \/ exec_load(i) \/ exec_uload(i) \/ exec_store(i)
  /\ UNCHANGED start

Spec == Init /\ [][Next]_vars

-----------------------------------------------------------------------------
\* Registers and memory hold words of their width, and register 0 is zero.
TypeOK ==
  /\ gprs \in [Reg -> DoubleWord] /\ gprs[0] = {}
  /\ pc \in DoubleWord
  /\ cell \in DoubleWord
=============================================================================
