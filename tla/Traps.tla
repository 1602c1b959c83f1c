------------------------------- MODULE Traps -------------------------------
(***************************************************************************)
(* Privilege levels, exceptions and the control and status registers:      *)
(* Hart::raise_exception and the CSR instructions (include/yarvs/hart.hpp),*)
(* mret and sret (src/executor.cpp) over the registers of CSRegFile        *)
(* (include/yarvs/privileged/).                                            *)
(*                                                                         *)
(* The registers are one array, as in CSRegFile.  In particular sstatus is *)
(* not a view of mstatus but a second word, which the setters copy back    *)
(* and forth and which CSR instructions write alone.  A status register is *)
(* the set of its bits that are 1; only bits the code uses are modelled.   *)
(***************************************************************************)
EXTENDS Naturals

CONSTANTS
  Pc,        \* instruction addresses: multiples of 4 starting with 0
  Info,      \* what goes to mtval and stval
  PageFault, \* exception causes: a page fault ...
  Illegal,   \* ... and MCause::kIllegalInstruction
  Written(_) \* Written(n): the values software may write to the register n

Causes == {PageFault, Illegal}

U == 0
S == 1
M == 3

\* The registers modelled, with their numbers (CSRegFile::CSR).  cycle and
\* dcsr stand for the read-only and the debug-mode registers.
Number == [sstatus |-> 256, stvec |-> 261, sepc |-> 321, scause |-> 322,
           stval |-> 323, satp |-> 384, mstatus |-> 768, medeleg |-> 770,
           mtvec |-> 773, mepc |-> 833, mcause |-> 834, mtval |-> 835,
           dcsr |-> 1968, cycle |-> 3072]

Csr == {"sstatus", "stvec", "sepc", "scause", "stval", "satp", "mstatus", "medeleg",
        "mtvec", "mepc", "mcause", "mtval", "dcsr", "cycle"}

lowest_privilege_level(n) == (Number[n] \div 256) % 4
is_read_only(n) == Number[n] \div 1024 = 3
is_for_debug_mode(n) == Number[n] \in 1968 .. 1983

\* The number of a register comes out of the decoder sign-extended from 12 bits:
\* from 2048 on it is no subscript of csrs_, and what get_reg does is undefined.
is_subscript(n) == Number[n] < 2048

\* Bits of mstatus: SIE, MIE, SPIE, MPIE, SPP, MPP, MPRV, SUM, MXR.
SIE == 1
MIE == 3
SPIE == 5
MPIE == 7
SPP == 8
MPP == {11, 12}
MPRV == 17
SUM == 18
MXR == 19

StatusBits == {SIE, MIE, SPIE, MPIE, SPP, MPRV, SUM, MXR} \cup MPP

\* Mutant of kMask: without the bit of SPP.
MaskWithoutSPP == {1} \cup (5 .. 7) \cup (9 .. 18) \cup {31, 32, 58}

\* SStatus::kMask has 59 binary digits: its ones are these.
kMask == {1} \cup (5 .. 18) \cup {31, 32, 58}

Levels == 0 .. 3

\* XTVec::get_base drops the mode in the two low bits.
get_base(tvec) == tvec - (tvec % 4)

\* What the registers hold: status registers and medeleg are sets of bits, the
\* exception pcs and the handlers are addresses of instructions.
CsrType == [n \in Csr |->
  CASE n \in {"mstatus", "sstatus"} -> SUBSET StatusBits
    [] n = "medeleg" -> SUBSET Causes
    [] n \in {"mepc", "sepc"} -> Pc
    [] n \in {"mtvec", "stvec"} -> {v \in Nat : get_base(v) \in Pc}
    [] OTHER -> Nat]

IsCsrFile(c) == c = [n \in Csr |-> c[n]] /\ \A n \in Csr : c[n] \in CsrType[n]

ASSUME TrapsAssumption ==
  /\ Pc \subseteq Nat /\ 0 \in Pc
  /\ Info \subseteq Nat
  /\ Causes \subseteq Nat
  /\ \A n \in Csr : \A v \in Written(n) : v \in CsrType[n]

VARIABLES
  priv,   \* priv_level_
  pc,     \* pc_
  csrs,   \* csrs_
  mtrap,  \* history: the machine trap to return from, if nothing that could
          \* redirect the return has been written since; else no_trap
  strap   \* the same for the last trap to supervisor mode

vars == <<priv, pc, csrs, mtrap, strap>>

no_trap == [at |-> 0, from |-> M, valid |-> FALSE]

-----------------------------------------------------------------------------
(* Bits of a register. *)

\* set_bit<n>(num, bit) ors the bit in.
set_bit(r, n, bit) == IF bit THEN r \cup {n} ELSE r

\* Mutant of set_mpp: the level is ored into the field.
MppOred(r, p) == r \cup {b \in MPP : (b = 11 /\ p % 2 = 1) \/ (b = 12 /\ p >= 2)}

\* set_mpp: set_bits<12, 11>(num, value) replaces the field.
set_mpp(r, p) ==
  (r \ MPP) \cup {b \in MPP : (b = 11 /\ p % 2 = 1) \/ (b = 12 /\ p >= 2)}

get_mpp(r) == (IF 11 \in r THEN 1 ELSE 0) + (IF 12 \in r THEN 2 ELSE 0)

\* Mutant of set_mstatus: sstatus is not brought up to date.
MstatusAlone(c, v) == [c EXCEPT !.mstatus = v]

set_mstatus(c, v) == [c EXCEPT !.mstatus = v, !.sstatus = v \cap kMask]

set_sstatus(c, v) ==
  [c EXCEPT !.sstatus = v, !.mstatus = (c.mstatus \ kMask) \cup (v \cap kMask)]

\* is_satp_active: addresses are translated, so an access can fault.
is_satp_active ==
  (IF MPRV \in csrs.mstatus THEN get_mpp(csrs.mstatus) ELSE priv) # M

-----------------------------------------------------------------------------
(* raise_exception *)

\* Mutant of eh_mode: what is delegated goes to S, wherever it comes from.
DelegatedAlways(cause) == IF cause \in csrs.medeleg THEN S ELSE M

eh_mode(cause) == IF priv # M /\ cause \in csrs.medeleg THEN S ELSE M

TrapToM(cause, info) ==
  /\ eh_mode(cause) = M
  /\ LET c == [csrs EXCEPT !.mepc = pc, !.mtval = info, !.mcause = cause] IN
       csrs' = set_mstatus(c, set_mpp(c.mstatus, priv))
  /\ priv' = M
  /\ pc' = get_base(csrs.mtvec)
  /\ mtrap' = [at |-> pc, from |-> priv, valid |-> TRUE]
  /\ UNCHANGED strap

\* Mutant of TrapToS: the mode bits of stvec are taken for a part of the address.
TrapToRawStvec(cause, info) ==
  /\ eh_mode(cause) = S
  /\ LET c == [csrs EXCEPT !.sepc = pc, !.stval = info, !.scause = cause] IN
       csrs' = set_sstatus(c, set_bit(c.sstatus, SPP, priv # U))
  /\ priv' = S
  /\ pc' = csrs.stvec
  /\ strap' = [at |-> pc, from |-> priv, valid |-> TRUE]
  /\ UNCHANGED mtrap

TrapToS(cause, info) ==
  /\ eh_mode(cause) = S
  /\ LET c == [csrs EXCEPT !.sepc = pc, !.stval = info, !.scause = cause] IN
       csrs' = set_sstatus(c, set_bit(c.sstatus, SPP, priv # U))
  /\ priv' = S
  /\ pc' = get_base(csrs.stvec)
  /\ strap' = [at |-> pc, from |-> priv, valid |-> TRUE]
  /\ UNCHANGED mtrap

raise_exception(cause, info) == TrapToM(cause, info) \/ TrapToS(cause, info)

\* A load, a store or a fetch whose translation fails; kBare has nothing to fail.
AccessFaults ==
  is_satp_active /\ csrs.satp # 0 /\ \E i \in Info : raise_exception(PageFault, i)

-----------------------------------------------------------------------------
(* The instructions. *)

\* pc_ += sizeof(RawInstruction), wrapping at the end of the addresses.
next_pc == IF pc + 4 \in Pc THEN pc + 4 ELSE 0

\* An instruction that completes without touching the privileged state.
Other == pc' \in Pc /\ UNCHANGED <<priv, csrs, mtrap, strap>>

Denied(n, writes) ==
  \/ priv < lowest_privilege_level(n)
  \/ is_for_debug_mode(n)
  \/ writes /\ is_read_only(n)

CsrDenied(n, writes) ==
  Denied(n, writes) /\ \E i \in Info : raise_exception(Illegal, i)

\* csrrs and csrrc with x0: the register is only read.
CsrRead(n) ==
  /\ ~Denied(n, FALSE) /\ is_subscript(n)
  /\ pc' = next_pc
  /\ UNCHANGED <<priv, csrs, mtrap, strap>>

\* csrrw, csrrs, csrrc and their immediate forms replace the register, or set
\* or clear bits of it; the raw word is stored with no further effect.
Results(n, v) ==
  IF n \in {"mstatus", "sstatus", "medeleg"} THEN {v, csrs[n] \cup v, csrs[n] \ v}
                                             ELSE {v}

CsrWrite(n) ==
  /\ ~Denied(n, TRUE)
  /\ \E v \in Written(n) : \E r \in Results(n, v) : csrs' = [csrs EXCEPT ![n] = r]
  /\ pc' = next_pc
  /\ mtrap' = IF n \in {"mstatus", "sstatus", "mepc"} THEN no_trap ELSE mtrap
  /\ strap' = IF n \in {"mstatus", "sstatus", "sepc"} THEN no_trap ELSE strap
  /\ UNCHANGED priv

mret ==
  /\ priv' = get_mpp(csrs.mstatus)
  /\ LET v == set_bit(csrs.mstatus, MIE, MPIE \in csrs.mstatus)
         w == set_bit(v, MPIE, TRUE)
     IN  csrs' = set_mstatus(csrs, set_mpp(w, U))
  /\ pc' = csrs.mepc
  /\ mtrap' = no_trap
  /\ UNCHANGED strap

sret ==
  /\ priv' = IF SPP \in csrs.sstatus THEN S ELSE U
  /\ LET v == set_bit(csrs.sstatus, SIE, SPIE \in csrs.sstatus)
         w == set_bit(set_bit(v, SPIE, TRUE), SPP, FALSE)
         c == set_sstatus(csrs, w)
     IN  csrs' = set_mstatus(c, set_bit(c.mstatus, MPRV, FALSE))
  /\ pc' = csrs.sepc
  /\ strap' = no_trap
  /\ UNCHANGED mtrap

-----------------------------------------------------------------------------
\* run enters user mode; what to delegate and where the handlers are has been
\* set through CSRegFile before.  satp holds the mode of the program loaded.
Init ==
  /\ priv = U
  /\ pc = 0
  /\ \E d \in SUBSET Causes, mt \in Written("mtvec"), st \in Written("stvec") :
       csrs = [sstatus |-> {}, stvec |-> st, sepc |-> 0, scause |-> 0,
               stval |-> 0, satp |-> 9, mstatus |-> {}, medeleg |-> d,
               mtvec |-> mt, mepc |-> 0, mcause |-> 0, mtval |-> 0,
               dcsr |-> 0, cycle |-> 0]
  /\ mtrap = no_trap
  /\ strap = no_trap

Next ==
  \/ AccessFaults
  \/ Other
  \/ \E n \in Csr, writes \in BOOLEAN : CsrDenied(n, writes)
  \/ \E n \in Csr : CsrRead(n) \/ CsrWrite(n)
  \/ mret
  \/ sret

Spec == Init /\ [][Next]_vars

-----------------------------------------------------------------------------
(* Properties. *)

Trap == [at : Pc, from : Levels, valid : BOOLEAN]

TypeOK ==
  /\ priv \in Levels
  /\ pc \in Pc
  /\ IsCsrFile(csrs)
  /\ mtrap \in Trap /\ strap \in Trap

\* A machine trap can be returned from: until mret, and unless the program
\* writes mepc or a status register itself, mepc and MPP name the instruction
\* and the mode that trapped, whatever supervisor traps and returns happen in
\* between.  sret writes the MPP kept in the sstatus copy back into mstatus,
\* so this depends on the two copies being the same.
MachineReturn ==
  mtrap.valid => csrs.mepc = mtrap.at /\ get_mpp(csrs.mstatus) = mtrap.from

\* A machine trap between a supervisor trap and its return overwrites sstatus
\* with a part of mstatus, and loses neither sepc nor, of a trap that came from
\* supervisor mode, SPP.  Of a trap from user mode this says nothing about SPP:
\* SupervisorReturn does.
SupervisorTrapKept ==
  strap.valid => csrs.sepc = strap.at /\ (strap.from # U => SPP \in csrs.sstatus)

\* A supervisor trap can be returned from in the same sense as a machine trap:
\* SPP indicates the privilege level at which the hart was executing before
\* entering supervisor mode, user mode as well as supervisor mode.
SupervisorReturn ==
  strap.valid /\ strap.from \in {U, S} =>
    csrs.sepc = strap.at /\ (SPP \in csrs.sstatus <=> strap.from = S)

\* As long as only traps and returns write the status registers, the fields
\* the two copies share agree.
CopiesAgree ==
  mtrap.valid \/ strap.valid => csrs.sstatus \cap kMask = csrs.mstatus \cap kMask

Trapped ==
  \/ mtrap'.valid /\ mtrap' # mtrap
  \/ strap'.valid /\ strap' # strap

\* An exception never takes the hart to a lower privilege level, however the
\* causes are delegated.  The level 2 is not one: software that writes it to
\* MPP gets there by mret, and down to S by the next delegated exception.
TrapNeverLowers == [][Trapped /\ priv \in {U, S, M} => priv' >= priv]_vars
=============================================================================
