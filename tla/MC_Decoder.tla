----------------------------- MODULE MC_Decoder -----------------------------
(***************************************************************************)
(* The table of riscv-opcodes for rv_i, rv64_i, rv_zicsr, rv_s and         *)
(* rv_system, the extensions code-gen/CMakeLists.txt asks for, and words   *)
(* to decode: each instruction with its operand bits all 0 and all 1, and  *)
(* the same words with any one bit changed, an operand bit or not.         *)
(***************************************************************************)
EXTENDS Decoder, FiniteSets, TLC

\* The bits of a number below 4096, from the bit at on.
At(n, at) == {at + k : k \in {j \in 0 .. 11 : (n \div (2 ^ j)) % 2 = 1}}

Row(fix, code, operands) == [mask |-> fix, match |-> code, fields |-> operands]

Opcode == 0 .. 6
F3 == 12 .. 14
F7 == 25 .. 31

R(op, f3, f7) ==
  Row(Opcode \cup F3 \cup F7, At(op, 0) \cup At(f3, 12) \cup At(f7, 25), {"rd", "rs1", "rs2"})
I(op, f3) == Row(Opcode \cup F3, At(op, 0) \cup At(f3, 12), {"rd", "rs1", "imm12"})
Shift(op, f3, f7, amount) ==
  Row(Opcode \cup F3 \cup (IF amount = "shamtd" THEN 26 .. 31 ELSE F7),
      At(op, 0) \cup At(f3, 12) \cup At(f7, 25), {"rd", "rs1", amount})
Store(f3) ==
  Row(Opcode \cup F3, At(35, 0) \cup At(f3, 12), {"imm12hi", "imm12lo", "rs1", "rs2"})
Branch(f3) ==
  Row(Opcode \cup F3, At(99, 0) \cup At(f3, 12), {"bimm12hi", "bimm12lo", "rs1", "rs2"})
Wide(op, operand) == Row(Opcode, At(op, 0), {"rd", operand})
Csr(f3, operand) == Row(Opcode \cup F3, At(115, 0) \cup At(f3, 12), {"rd", "csr", operand})
System(number) == Row(0 .. 31, At(115, 0) \cup At(number, 20), {})

Table ==
  "lui" :> Wide(55, "imm20") @@ "auipc" :> Wide(23, "imm20") @@ "jal" :> Wide(111, "jimm20")
  @@ "jalr" :> I(103, 0)
  @@ "beq" :> Branch(0) @@ "bne" :> Branch(1) @@ "blt" :> Branch(4)
  @@ "bge" :> Branch(5) @@ "bltu" :> Branch(6) @@ "bgeu" :> Branch(7)
  @@ "lb" :> I(3, 0) @@ "lh" :> I(3, 1) @@ "lw" :> I(3, 2) @@ "ld" :> I(3, 3)
  @@ "lbu" :> I(3, 4) @@ "lhu" :> I(3, 5) @@ "lwu" :> I(3, 6)
  @@ "sb" :> Store(0) @@ "sh" :> Store(1) @@ "sw" :> Store(2) @@ "sd" :> Store(3)
  @@ "addi" :> I(19, 0) @@ "slti" :> I(19, 2) @@ "sltiu" :> I(19, 3)
  @@ "xori" :> I(19, 4) @@ "ori" :> I(19, 6) @@ "andi" :> I(19, 7)
  @@ "slli" :> Shift(19, 1, 0, "shamtd") @@ "srli" :> Shift(19, 5, 0, "shamtd")
  @@ "srai" :> Shift(19, 5, 32, "shamtd")
  @@ "add" :> R(51, 0, 0) @@ "sub" :> R(51, 0, 32) @@ "sll" :> R(51, 1, 0)
  @@ "slt" :> R(51, 2, 0) @@ "sltu" :> R(51, 3, 0) @@ "xor" :> R(51, 4, 0)
  @@ "srl" :> R(51, 5, 0) @@ "sra" :> R(51, 5, 32) @@ "or" :> R(51, 6, 0)
  @@ "and" :> R(51, 7, 0)
  @@ "addiw" :> I(27, 0) @@ "slliw" :> Shift(27, 1, 0, "shamtw")
  @@ "srliw" :> Shift(27, 5, 0, "shamtw") @@ "sraiw" :> Shift(27, 5, 32, "shamtw")
  @@ "addw" :> R(59, 0, 0) @@ "subw" :> R(59, 0, 32) @@ "sllw" :> R(59, 1, 0)
  @@ "srlw" :> R(59, 5, 0) @@ "sraw" :> R(59, 5, 32)
  @@ "fence" :> Row(Opcode \cup F3, At(15, 0), {"fm", "pred", "succ", "rs1", "rd"})
  @@ "csrrw" :> Csr(1, "rs1") @@ "csrrs" :> Csr(2, "rs1") @@ "csrrc" :> Csr(3, "rs1")
  @@ "csrrwi" :> Csr(5, "zimm") @@ "csrrsi" :> Csr(6, "zimm") @@ "csrrci" :> Csr(7, "zimm")
  @@ "ecall" :> System(0) @@ "ebreak" :> System(1) @@ "sret" :> System(258)
  @@ "wfi" :> System(261) @@ "mret" :> System(770)
  @@ "sfence_vma" :> Row(0 .. 14 \cup F7, At(115, 0) \cup At(9, 25), {"rs1", "rs2"})

MCInstr == DOMAIN Table
MCMask == [i \in MCInstr |-> Table[i].mask]
MCMatch == [i \in MCInstr |-> Table[i].match]
MCFields == [i \in MCInstr |-> Table[i].fields]

Operands(i) == (0 .. 31) \ Table[i].mask

Plain == UNION {{Table[i].match, Table[i].match \cup Operands(i)} : i \in MCInstr}

MCRaws == Plain \cup {flip(w, k) : w \in Plain, k \in 0 .. 31}

\* The other words of this table are refused.
ASSUME GreedyAssumption == GreedyAreAll
=============================================================================
