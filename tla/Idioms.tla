------------------------------- MODULE Idioms -------------------------------
(***************************************************************************)
(* Short programs of the kind compilers emit, run by RV64I, and what each  *)
(* of them is there to compute, stated without the instructions: on        *)
(* numbers of other widths, by positions of bits, or by bytes.             *)
(***************************************************************************)
EXTENDS RV64I, FiniteSets, Sequences

\* The bits of a number below 4096, and of its negation.
Weight == <<1, 2, 4, 8, 16, 32, 64, 128, 256, 512, 1024, 2048>>
Num(n) == {k \in 0 .. 11 : (n \div Weight[k + 1]) % 2 = 1}
Neg(n) == difference(XLEN, {}, Num(n))

Instr(id, rd, rs1, rs2, imm) == [id |-> id, rd |-> rd, rs1 |-> rs1, rs2 |-> rs2, imm |-> imm]
R(id, rd, rs1, rs2) == Instr(id, rd, rs1, rs2, {})
I(id, rd, rs1, imm) == Instr(id, rd, rs1, 0, imm)

Base == {12, 31}

Address(base, j) == plus(XLEN, base, Num(4 * (j - 1)))

Code(base, s) ==
  [a \in {Address(base, j) : j \in DOMAIN s} |-> s[CHOOSE j \in DOMAIN s : Address(base, j) = a]]

\* A program at Base, on the registers given; what names it for the properties.
From(what, code_, regs) ==
  [program |-> what, code |-> code_, pc |-> Base, cell |-> {},
   gprs |-> [r \in Reg |-> IF r \in DOMAIN regs THEN regs[r] ELSE {}]]

Run(what, s, regs) == From(what, Code(Base, s), regs)

Done == pc \notin DOMAIN code

-----------------------------------------------------------------------------
(* The programs.  Registers are numbered from 1, so a sequence gives the    *)
(* values of the first ones.                                                *)

WordOp(id, a, b) ==
  IF id \in RegRegW THEN Run(<<"word", id>>, <<R(id, 3, 1, 2)>>, <<a, b>>)
  ELSE Run(<<"word", id>>, <<I(id, 3, 1, b)>>, <<a, b>>)

\* The immediates of the instructions have twelve bits, of the shifts five.
WordOps(Values) ==
  {WordOp(id, a, b) : id \in RegRegW, a \in Values, b \in Values}
  \cup {WordOp("addiw", a, b) : a \in Values, b \in {Num(1), Num(2047), Neg(1), Neg(2048)}}
  \cup {WordOp(id, a, Num(n)) : id \in RegImmW \ {"addiw"}, a \in Values, n \in {0, 1, 16, 31}}

Straight ==
  [rotate |-> <<R("sll", 3, 1, 2), R("sub", 4, 0, 2), R("srl", 4, 1, 4), R("or", 3, 3, 4)>>,
   shift |-> <<R("sra", 3, 1, 2)>>,
   abs |-> <<I("srai", 4, 1, Num(63)), R("xor", 3, 1, 4), R("sub", 3, 3, 4)>>,
   min |-> <<R("slt", 4, 1, 2), R("sub", 4, 0, 4), R("xor", 3, 1, 2),
             R("and", 3, 3, 4), R("xor", 3, 3, 2)>>,
   is_zero |-> <<I("sltiu", 3, 1, Num(1))>>,
   sign |-> <<R("sltu", 3, 0, 1), I("slti", 4, 1, {}), R("sub", 4, 0, 4), R("or", 3, 3, 4)>>,
   unsigned |-> <<I("slli", 3, 1, Num(32)), I("srli", 3, 3, Num(32))>>,
   clear |-> <<I("ori", 3, 1, Num(255)), I("xori", 3, 3, Num(255)), I("andi", 0, 1, Num(1))>>]

Binary == {"rotate", "shift", "min"}

Straights(Values) ==
  {Run(<<p>>, Straight[p], <<a, b>>) : p \in Binary, a \in Values, b \in Values}
  \cup {Run(<<p>>, Straight[p], <<a, {}>>) : p \in DOMAIN Straight \ Binary, a \in Values}

\* x1, x2 and x3, x4 are the halves of two numbers of 128 bits.
Wide ==
  [sum |-> <<R("add", 5, 1, 3), R("sltu", 6, 5, 1), R("add", 2, 2, 4), R("add", 6, 2, 6)>>,
   difference |-> <<R("sltu", 6, 1, 3), R("sub", 5, 1, 3), R("sub", 2, 2, 4), R("sub", 6, 2, 6)>>]

Wides(Values) ==
  {Run(<<"wide", p>>, Wide[p], <<a, b, c, d>>) :
     p \in DOMAIN Wide, a \in Values, b \in Values, c \in Values, d \in Values}

\* What the assembler makes of a constant of 32 bits: the low twelve bits are
\* signed, so the high ones make up for their sign.
hi(c) == sext(32, 32, plus(32, c, {11}) \cap (12 .. 31))
lo(c) == sext(12, 32, c \cap (0 .. 11))

Constant(c) == <<I("lui", 3, 0, hi(c)), I("addiw", 3, 3, lo(c))>>

Constants(Values) ==
  {Run(<<"constant", c>>, Constant(c), << >>) : c \in {v \cap (0 .. 31) : v \in Values}}

\* A call of a function that sets x4, by way of register via.
Caller(via, c) == <<I("auipc", via, 0, hi(c)), I("jalr", 1, via, lo(c)), I("addi", 3, 0, Num(1))>>
Callee == <<I("addi", 4, 0, Num(2)), I("jalr", 0, 1, {})>>

Target(c) == plus(XLEN, Base, sext(32, 32, c)) \ {0}

Linked(caller, callee) ==
  [a \in DOMAIN caller \cup DOMAIN callee |->
     IF a \in DOMAIN caller THEN caller[a] ELSE callee[a]]

Call(via, c) ==
  From(<<"call", via, c>>, Linked(Code(Base, Caller(via, c)), Code(Target(c), Callee)), << >>)

NearCaller(c) == <<I("jal", 1, 0, c), I("addi", 3, 0, Num(1))>>

Near(c) ==
  From(<<"near", c>>, Linked(Code(Base, NearCaller(c)), Code(plus(XLEN, Base, c), Callee)), << >>)

Calls(far, near) == {Call(5, c) : c \in far} \cup {Near(c) : c \in near}

\* a goes to memory, b over a part of it, and a part is read back.
Size(id) == kNBits(id) \div 8
Fits(id, n) == n + Size(id) <= 8

Moves(s, to, l, from) ==
  <<R("sd", 0, 0, 1), Instr(s, 0, 0, 2, Num(to)), I(l, 3, 0, Num(from))>>

Copy(s, to, l, from, a, b) ==
  Run(<<"copy", s, to, l, from>>, Moves(s, to, l, from), <<a, b>>)

Copies ==
  {c \in [s : {"sb", "sh", "sw", "sd"}, to : 0 .. 7,
          l : {"lb", "lh", "lw", "ld", "lbu", "lhu", "lwu"}, from : 0 .. 7] :
     Fits(c.s, c.to) /\ Fits(c.l, c.from)}

Memories(Values) ==
  {Copy(c.s, c.to, c.l, c.from, v[1], v[2]) :
     c \in Copies, v \in Values}

Skip(id) == <<Instr(id, 0, 1, 2, Num(8)), I("addi", 3, 0, Num(1))>>

Decision(id, a, b) == Run(<<"branch", id>>, Skip(id), <<a, b>>)

Decisions(Values) == {Decision(id, a, b) : id \in Branches, a \in Values, b \in Values}

\* while (x1) { x1 &= x1 - 1; ++x3; }
Loop ==
  <<Instr("beq", 0, 1, 0, Num(20)), I("addi", 4, 1, Neg(1)), R("and", 1, 1, 4),
    I("addi", 3, 3, Num(1)), Instr("jal", 0, 0, 0, Neg(16))>>

Loops(Values) == {Run(<<"count", a>>, Loop, <<a>>) : a \in Values}

-----------------------------------------------------------------------------
(* The same programs with any operands, as the states to start from are     *)
(* known by: what the theorems about the programs say of Starts.            *)

Starting(s, what, c) == s.program = what /\ s.code = c /\ s.pc = Base

\* An instruction on words has its operands in x1 and x2, or in x1 and itself.
WordPrograms ==
  \A s \in Starts : s.program[1] = "word" =>
    LET i == s.code[Base] IN
      /\ i.rd = 3 /\ i.rs1 = 1
      /\ \/ i.id \in RegRegW /\ i.rs2 = 2
         \/ i.id = "addiw"
         \/ i.id \in RegImmW /\ i.imm \subseteq 0 .. 4
      /\ Starting(s, <<"word", i.id>>, Code(Base, <<i>>))

StraightPrograms ==
  \A s \in Starts : \A p \in DOMAIN Straight :
    s.program[1] = p => Starting(s, <<p>>, Code(Base, Straight[p]))

WidePrograms ==
  \A s \in Starts : s.program[1] = "wide" =>
    \E p \in DOMAIN Wide : Starting(s, <<"wide", p>>, Code(Base, Wide[p]))

ConstantPrograms ==
  \A s \in Starts : s.program[1] = "constant" =>
    LET c == s.program[2] IN
      c \in Bits(32) /\ Starting(s, <<"constant", c>>, Code(Base, Constant(c)))

\* The function is no part of its caller.  By way of a register its offset is
\* one two immediates can make: not the last ones before 2^31.
CallPrograms ==
  \A s \in Starts :
    /\ s.program[1] = "call" =>
         LET via == s.program[2] c == s.program[3] IN
           /\ via \notin {0, 1}
           /\ c \in Bits(32) /\ (11 .. 30 \subseteq c => 31 \in c)
           /\ {Address(Base, j) : j \in 1 .. 4} \cap {Address(Target(c), j) : j \in 1 .. 2} = {}
           /\ Starting(s, <<"call", via, c>>,
                       Linked(Code(Base, Caller(via, c)), Code(Target(c), Callee)))
    /\ s.program[1] = "near" =>
         LET c == s.program[2] IN
           /\ c \in DoubleWord
           /\ {Address(Base, j) : j \in 1 .. 3} \cap
                {Address(plus(XLEN, Base, c), j) : j \in 1 .. 2} = {}
           /\ Starting(s, <<"near", c>>,
                       Linked(Code(Base, NearCaller(c)), Code(plus(XLEN, Base, c), Callee)))

CopyPrograms ==
  \A s \in Starts : s.program[1] = "copy" =>
    LET c == [s |-> s.program[2], to |-> s.program[3], l |-> s.program[4], from |-> s.program[5]] IN
      /\ c \in Copies
      /\ Starting(s, <<"copy", c.s, c.to, c.l, c.from>>, Code(Base, Moves(c.s, c.to, c.l, c.from)))

BranchPrograms ==
  \A s \in Starts : s.program[1] = "branch" =>
    LET id == s.program[2] IN
      id \in Branches /\ s.gprs[3] = {} /\ Starting(s, <<"branch", id>>, Code(Base, Skip(id)))

LoopPrograms ==
  \A s \in Starts : s.program[1] = "count" =>
    /\ s.gprs[3] = {}
    /\ Starting(s, <<"count", s.gprs[1]>>, Code(Base, Loop))

-----------------------------------------------------------------------------
(* Properties. *)

\* x1 and x2 at the start.
a_ == start.gprs[1]
b_ == start.gprs[2]

IsProgram(name) == Done /\ start.program[1] = name

low(w) == w \cap (0 .. 31)
extended(w) == w \cup {k \in 32 .. 63 : 31 \in w}

\* What the instructions on words compute from the low halves of a and b; a
\* shift takes the low five bits of b.
WordResult(id, a, b) ==
  LET amount == places(mask_bits(b, 4, 0)) IN
    CASE id \in {"addw", "addiw"} -> plus(32, low(a), low(b))
      [] id = "subw" -> difference(32, low(a), low(b))
      [] id \in {"sllw", "slliw"} -> {k \in 0 .. 31 : k - amount \in low(a)}
      [] id \in {"srlw", "srliw"} -> {k \in 0 .. 31 : k + amount \in low(a)}
      [] id \in {"sraw", "sraiw"} ->
           {k \in 0 .. 31 : IF k + amount > 31 THEN 31 \in a ELSE k + amount \in a}

\* The bits a right shift of the whole register brings down into the word are
\* those a shift of the word would have brought in.
BitsAboveFit(id, a, b) ==
  LET amount == places(mask_bits(b, 4, 0))
      above == a \cap (32 .. 31 + amount)
  IN  CASE id \in {"srlw", "srliw"} -> above = {}
        [] id \in {"sraw", "sraiw"} -> above = IF 31 \in a THEN 32 .. 31 + amount ELSE {}
        [] OTHER -> TRUE

\* The second operand of an instruction on words.
operand == LET i == code[Base] IN IF i.id \in RegRegW THEN b_ ELSE i.imm

\* The instructions on words, which are executed on doublewords and truncated,
\* are those on words exactly if nothing wrong comes down from above: always
\* but for the right shifts.
WordArithmetic ==
  IsProgram("word") =>
    LET id == start.program[2] IN
      gprs[3] = extended(WordResult(id, a_, operand)) <=> BitsAboveFit(id, a_, operand)

\* Two's complement order, by the borrow of the difference.
Below(a, b) == XLEN \in Borrows(XLEN, a, b)
BelowInOrder(a, b) == Below(flip(a, 63), flip(b, 63))

\* Sequences of shifts, masks and comparisons compute what they are known for:
\* shift amounts wrap, comparisons give 0 or 1, immediates are signed.
Identities ==
  LET n == places(b_ \cap (0 .. 5)) IN
  /\ IsProgram("rotate") => gprs[3] = {(k + n) % 64 : k \in a_}
  /\ IsProgram("shift") => gprs[3] = {k \in 0 .. 63 : (IF k + n > 63 THEN 63 ELSE k + n) \in a_}
  /\ IsProgram("abs") => gprs[3] = IF 63 \in a_ THEN difference(XLEN, {}, a_) ELSE a_
  /\ IsProgram("min") => gprs[3] = IF BelowInOrder(a_, b_) THEN a_ ELSE b_
  /\ IsProgram("is_zero") => gprs[3] = IF a_ = {} THEN {0} ELSE {}
  /\ IsProgram("sign") =>
       gprs[3] = IF 63 \in a_ THEN 0 .. 63 ELSE IF a_ = {} THEN {} ELSE {0}
  /\ IsProgram("unsigned") => gprs[3] = low(a_)
  /\ IsProgram("clear") => gprs[3] = a_ \ (0 .. 7)

\* Sums and differences of 128 bits in four instructions: sltu finds the carry
\* and the borrow between the halves.
WideArithmetic ==
  LET whole(l, h) == l \cup shl(h, 64)
      a == whole(a_, b_)
      b == whole(start.gprs[3], start.gprs[4])
  IN  IsProgram("wide") =>
        whole(gprs[5], gprs[6]) =
          IF start.program[2] = "sum" THEN plus(128, a, b) ELSE difference(128, a, b)

\* lui and addiw make every constant of 32 bits, with its sign.
ConstantsLoaded == IsProgram("constant") => gprs[3] = extended(start.program[2])

\* The instruction after the jump, which is the second or the first.
behind == Address(Base, IF start.program[1] = "call" THEN 3 ELSE 2)

\* The function has run, and then what follows the call, to its end.
Returned == gprs[4] = {1} /\ gprs[3] = {0} /\ pc = plus(XLEN, behind, ILEN)

\* A call arrives at the function with the link behind the jump, and comes back
\* there, wherever the function is and however its address is put together.
CallsReturn ==
  start.program[1] \in {"call", "near"} =>
    /\ pc \in DOMAIN code /\ code[pc] = Callee[1] => gprs[1] = behind
    /\ Done => Returned

\* What is read is, byte for byte, what was last stored there, extended.
StoredThenLoaded ==
  IsProgram("copy") =>
    LET s == start.program[2] to == start.program[3]
        l == start.program[4] from == start.program[5]
        top == kNBits(l) - 1
        bit(k) == LET j == 8 * from + k IN
          IF j \div 8 \in to .. to + Size(s) - 1 THEN j - 8 * to \in b_ ELSE j \in a_
    IN  gprs[3] = {k \in 0 .. 63 :
                     IF k <= top THEN bit(k) ELSE l \in {"lb", "lh", "lw"} /\ bit(top)}

\* A branch is taken if its relation holds of the numbers the words stand for.
BranchesDecide ==
  IsProgram("branch") =>
    LET id == start.program[2] IN
      gprs[3] = {} <=>
        CASE id = "beq" -> a_ = b_
          [] id = "bne" -> a_ # b_
          [] id = "bltu" -> Below(a_, b_)
          [] id = "bgeu" -> ~Below(a_, b_)
          [] id = "blt" -> BelowInOrder(a_, b_)
          [] id = "bge" -> ~BelowInOrder(a_, b_)

\* Removing the lowest bit until none is left counts the bits of every word: at
\* the head of the loop and behind its test, those counted and those left are all.
BitsCounted ==
  start.program[1] = "count" /\ (pc \in {Base, Address(Base, 2)} \/ Done) =>
    gprs[3] = Num(Cardinality(start.program[2]) - Cardinality(gprs[1]))
=============================================================================
