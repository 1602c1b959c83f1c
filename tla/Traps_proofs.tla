---------------------------- MODULE Traps_proofs ----------------------------
(***************************************************************************)
(* Traps can be returned from, whatever is delegated, nested or written to *)
(* the other registers: the invariants of Traps, for all addresses, causes *)
(* and values software writes.                                             *)
(***************************************************************************)
EXTENDS Traps, TLAPS

\* The types of the single registers.
LEMMA CsrTypes ==
  /\ CsrType["mstatus"] = SUBSET StatusBits /\ CsrType["sstatus"] = SUBSET StatusBits
  /\ CsrType["medeleg"] = SUBSET Causes
  /\ CsrType["mepc"] = Pc /\ CsrType["sepc"] = Pc
  /\ CsrType["mtvec"] = {v \in Nat : get_base(v) \in Pc}
  /\ CsrType["stvec"] = {v \in Nat : get_base(v) \in Pc}
  /\ \A n \in Csr \ {"mstatus", "sstatus", "medeleg", "mepc", "sepc", "mtvec", "stvec"} :
       CsrType[n] = Nat
BY DEF CsrType, Csr

LEMMA MstatusSetter ==
  ASSUME NEW c, IsCsrFile(c), NEW v \in SUBSET StatusBits
  PROVE  LET d == set_mstatus(c, v) IN
         /\ IsCsrFile(d)
         /\ d.mstatus = v /\ d.sstatus = v \cap kMask
         /\ \A n \in Csr \ {"mstatus", "sstatus"} : d[n] = c[n]
PROOF
<1> DEFINE d == set_mstatus(c, v)
<1>1. DOMAIN c = Csr /\ "mstatus" \in Csr /\ "sstatus" \in Csr
  BY DEF IsCsrFile, Csr
<1>2. /\ d = [n \in Csr |-> IF n = "mstatus" THEN v
                            ELSE IF n = "sstatus" THEN v \cap kMask ELSE c[n]]
  BY <1>1 DEF set_mstatus, IsCsrFile
<1>3. \A n \in Csr : d[n] \in CsrType[n]
  <2>. HIDE DEF d
  <2>. QED BY <1>1, <1>2, CsrTypes DEF IsCsrFile
<1>4. d = [n \in Csr |-> d[n]]
  BY <1>2
<1>. QED BY <1>1, <1>2, <1>3, <1>4 DEF IsCsrFile

LEMMA SstatusSetter ==
  ASSUME NEW c, IsCsrFile(c), NEW v \in SUBSET StatusBits
  PROVE  LET d == set_sstatus(c, v) IN
         /\ IsCsrFile(d)
         /\ d.sstatus = v /\ d.mstatus = (c.mstatus \ kMask) \cup (v \cap kMask)
         /\ \A n \in Csr \ {"mstatus", "sstatus"} : d[n] = c[n]
PROOF
<1> DEFINE d == set_sstatus(c, v)
<1>1. DOMAIN c = Csr /\ "mstatus" \in Csr /\ "sstatus" \in Csr
  BY DEF IsCsrFile, Csr
<1>2. /\ d = [n \in Csr |-> IF n = "sstatus" THEN v
                            ELSE IF n = "mstatus" THEN (c.mstatus \ kMask) \cup (v \cap kMask)
                            ELSE c[n]]
  BY <1>1 DEF set_sstatus, IsCsrFile
<1>3. \A n \in Csr : d[n] \in CsrType[n]
  <2>1. c.mstatus \subseteq StatusBits
    BY <1>1, CsrTypes DEF IsCsrFile
  <2>. HIDE DEF d
  <2>. QED BY <1>1, <1>2, <2>1, CsrTypes DEF IsCsrFile
<1>4. d = [n \in Csr |-> d[n]]
  BY <1>2
<1>. QED BY <1>1, <1>2, <1>3, <1>4 DEF IsCsrFile

\* What the field MPP holds after it has been set, and that it is all of the
\* register get_mpp looks at.
LEMMA MppField ==
  /\ \A r \in SUBSET StatusBits, p \in Levels :
       /\ set_mpp(r, p) \in SUBSET StatusBits
       /\ get_mpp(set_mpp(r, p)) = p
       /\ set_mpp(r, p) \ MPP = r \ MPP
  /\ \A r \in SUBSET StatusBits : get_mpp(r) \in Levels
  /\ \A q, r \in SUBSET StatusBits : q \cap MPP = r \cap MPP => get_mpp(q) = get_mpp(r)
PROOF
<1>1. ASSUME NEW r \in SUBSET StatusBits, NEW p \in Levels
      PROVE  /\ set_mpp(r, p) \in SUBSET StatusBits
             /\ get_mpp(set_mpp(r, p)) = p
             /\ set_mpp(r, p) \ MPP = r \ MPP
  <2>1. set_mpp(r, p) \in SUBSET StatusBits /\ set_mpp(r, p) \ MPP = r \ MPP
    BY DEF set_mpp, StatusBits, MPP
  <2>2. p = 0 \/ p = 1 \/ p = 2 \/ p = 3
    BY DEF Levels
  <2>3. /\ 11 \in set_mpp(r, p) <=> p % 2 = 1
        /\ 12 \in set_mpp(r, p) <=> p >= 2
    BY DEF set_mpp, MPP
  <2>4. get_mpp(set_mpp(r, p)) = p
    BY <2>2, <2>3 DEF get_mpp
  <2>. QED BY <2>1, <2>4
<1>2. \A r \in SUBSET StatusBits : get_mpp(r) \in Levels
  BY DEF get_mpp, Levels
<1>3. ASSUME NEW q \in SUBSET StatusBits, NEW r \in SUBSET StatusBits, q \cap MPP = r \cap MPP
      PROVE  get_mpp(q) = get_mpp(r)
  <2>1. (11 \in q <=> 11 \in r) /\ (12 \in q <=> 12 \in r)
    BY <1>3 DEF MPP
  <2>. QED BY <2>1 DEF get_mpp
<1>. QED BY <1>1, <1>2, <1>3

\* The registers raise_exception saves the trap in: everything else stays.
LEMMA SaveMachineTrap ==
  ASSUME IsCsrFile(csrs), pc \in Pc, NEW i \in Nat, NEW k \in Nat,
         NEW c, c = [csrs EXCEPT !.mepc = pc, !.mtval = i, !.mcause = k]
  PROVE  /\ IsCsrFile(c) /\ c.mepc = pc /\ c.sepc = csrs.sepc
         /\ c.mstatus = csrs.mstatus /\ c.sstatus = csrs.sstatus
PROOF
<1>1. {"mepc", "mtval", "mcause", "sepc", "mstatus", "sstatus"} \subseteq Csr
  BY DEF Csr
<1>2. CsrType["mtval"] = Nat /\ CsrType["mcause"] = Nat
  BY <1>1, CsrTypes
<1>3. c = [n \in Csr |-> IF n = "mcause" THEN k ELSE IF n = "mtval" THEN i
                         ELSE IF n = "mepc" THEN pc ELSE csrs[n]]
  BY <1>1 DEF IsCsrFile
<1>4. IsCsrFile(c)
  BY <1>1, <1>2, <1>3, CsrTypes DEF IsCsrFile
<1>. QED BY <1>1, <1>3, <1>4

LEMMA SaveSupervisorTrap ==
  ASSUME IsCsrFile(csrs), pc \in Pc, NEW i \in Nat, NEW k \in Nat,
         NEW c, c = [csrs EXCEPT !.sepc = pc, !.stval = i, !.scause = k]
  PROVE  /\ IsCsrFile(c) /\ c.sepc = pc /\ c.mepc = csrs.mepc
         /\ c.mstatus = csrs.mstatus /\ c.sstatus = csrs.sstatus
PROOF
<1>1. {"sepc", "stval", "scause", "mepc", "mstatus", "sstatus"} \subseteq Csr
  BY DEF Csr
<1>2. CsrType["stval"] = Nat /\ CsrType["scause"] = Nat
  BY <1>1, CsrTypes
<1>3. c = [n \in Csr |-> IF n = "scause" THEN k ELSE IF n = "stval" THEN i
                         ELSE IF n = "sepc" THEN pc ELSE csrs[n]]
  BY <1>1 DEF IsCsrFile
<1>4. IsCsrFile(c)
  BY <1>1, <1>2, <1>3, CsrTypes DEF IsCsrFile
<1>. QED BY <1>1, <1>3, <1>4

-----------------------------------------------------------------------------
\* The invariant is the conjunction of what the model checker was asked: none
\* of the parts is inductive alone.  A return to an older trap needs the copies
\* to agree, since sret and raise_exception write one of them over the other.
IInv == TypeOK /\ MachineReturn /\ SupervisorTrapKept /\ CopiesAgree

\* The registers and fields the invariant is about.
LEMMA Registers ==
  ASSUME IsCsrFile(csrs)
  PROVE  /\ csrs.mstatus \in SUBSET StatusBits /\ csrs.sstatus \in SUBSET StatusBits
         /\ csrs.mepc \in Pc /\ csrs.sepc \in Pc
         /\ get_base(csrs.mtvec) \in Pc /\ get_base(csrs.stvec) \in Pc
PROOF
<1>1. {"mepc", "sepc", "mtvec", "stvec", "mstatus", "sstatus"} \subseteq Csr
  BY DEF Csr
<1>. QED BY <1>1, CsrTypes DEF IsCsrFile

LEMMA Masks == MPP \subseteq kMask /\ SPP \in kMask /\ SPP \notin MPP
BY DEF MPP, SPP, kMask

LEMMA InitInv == Init => IInv
PROOF
<1>. SUFFICES ASSUME Init PROVE IInv
  OBVIOUS
<1>1. PICK d \in SUBSET Causes, mt \in Written("mtvec"), st \in Written("stvec") :
       csrs = [sstatus |-> {}, stvec |-> st, sepc |-> 0, scause |-> 0,
               stval |-> 0, satp |-> 9, mstatus |-> {}, medeleg |-> d,
               mtvec |-> mt, mepc |-> 0, mcause |-> 0, mtval |-> 0,
               dcsr |-> 0, cycle |-> 0]
  BY DEF Init
<1>2. mt \in CsrType["mtvec"] /\ st \in CsrType["stvec"]
  BY TrapsAssumption DEF Csr
<1>3. \A n \in Csr : csrs[n] \in CsrType[n]
  <2>1. SUFFICES ASSUME NEW n \in Csr PROVE csrs[n] \in CsrType[n]
    OBVIOUS
  <2>2. CASE n \in {"mtvec", "stvec"}
    BY <1>1, <1>2, <2>2
  <2>3. CASE n \in {"mstatus", "sstatus", "medeleg", "mepc", "sepc"}
    <3>1. csrs.mstatus = {} /\ csrs.sstatus = {} /\ csrs.medeleg = d
          /\ csrs.mepc = 0 /\ csrs.sepc = 0
      BY <1>1
    <3>. QED BY <2>3, <3>1, CsrTypes, TrapsAssumption
  <2>4. CASE n \notin {"mstatus", "sstatus", "medeleg", "mepc", "sepc", "mtvec", "stvec"}
    <3>1. csrs[n] \in Nat
      BY <1>1, <2>4 DEF Csr
    <3>. QED BY <2>4, <3>1, CsrTypes
  <2>. QED BY <2>2, <2>3, <2>4
<1>4. csrs = [n \in Csr |-> csrs[n]]
  BY <1>1 DEF Csr
<1>5. TypeOK
  <2>1. no_trap \in Trap /\ pc \in Pc /\ priv \in Levels
    BY TrapsAssumption DEF Init, no_trap, Trap, Levels, M, U
  <2>2. mtrap \in Trap /\ strap \in Trap
    BY <2>1 DEF Init
  <2>. QED BY <1>3, <1>4, <2>1, <2>2 DEF TypeOK, IsCsrFile
<1>6. ~mtrap.valid /\ ~strap.valid
  BY DEF Init, no_trap
<1>. QED BY <1>5, <1>6 DEF IInv, MachineReturn, SupervisorTrapKept, CopiesAgree

LEMMA TrapToMInv ==
  ASSUME IInv, NEW cause \in Causes, NEW info \in Info, TrapToM(cause, info)
  PROVE  IInv'
PROOF
<1> DEFINE c == [csrs EXCEPT !.mepc = pc, !.mtval = info, !.mcause = cause]
           v == set_mpp(c.mstatus, priv)
<1>1. IsCsrFile(csrs) /\ priv \in Levels /\ pc \in Pc
  BY DEF IInv, TypeOK
<1>2. /\ IsCsrFile(c) /\ c.mepc = pc /\ c.sepc = csrs.sepc
      /\ c.mstatus = csrs.mstatus /\ c.sstatus = csrs.sstatus
  <2>1. info \in Nat /\ cause \in Nat
    BY TrapsAssumption
  <2>2. c = [csrs EXCEPT !.mepc = pc, !.mtval = info, !.mcause = cause]
    OBVIOUS
  <2>. HIDE DEF c
  <2>. QED BY <1>1, <2>1, <2>2, SaveMachineTrap
<1>3. csrs' = set_mstatus(c, v)
  BY DEF TrapToM
<1>4. /\ v \in SUBSET StatusBits /\ get_mpp(v) = priv /\ v \ MPP = csrs.mstatus \ MPP
  BY <1>1, <1>2, Registers, MppField
<1>. HIDE DEF c, v
<1>5. /\ IsCsrFile(csrs') /\ csrs'.mstatus = v /\ csrs'.sstatus = v \cap kMask
      /\ csrs'.mepc = pc /\ csrs'.sepc = csrs.sepc
  <2>1. "mepc" \in Csr \ {"mstatus", "sstatus"} /\ "sepc" \in Csr \ {"mstatus", "sstatus"}
    BY DEF Csr
  <2>. QED BY <1>2, <1>3, <1>4, <2>1, MstatusSetter
<1>6. /\ priv' = M /\ pc' \in Pc
      /\ mtrap' = [at |-> pc, from |-> priv, valid |-> TRUE] /\ strap' = strap
  BY <1>1, Registers DEF TrapToM
<1>7. TypeOK'
  BY <1>1, <1>5, <1>6 DEF IInv, TypeOK, Trap, Levels, M
<1>8. MachineReturn'
  BY <1>4, <1>5, <1>6 DEF MachineReturn
<1>9. SupervisorTrapKept'
  BY <1>4, <1>5, <1>6, Masks DEF IInv, SupervisorTrapKept, CopiesAgree
<1>10. CopiesAgree'
  BY <1>5 DEF CopiesAgree
<1>. QED BY <1>7, <1>8, <1>9, <1>10 DEF IInv

LEMMA TrapToSInv ==
  ASSUME IInv, NEW cause \in Causes, NEW info \in Info, TrapToS(cause, info)
  PROVE  IInv'
PROOF
<1> DEFINE c == [csrs EXCEPT !.sepc = pc, !.stval = info, !.scause = cause]
           v == set_bit(c.sstatus, SPP, priv # U)
<1>1. IsCsrFile(csrs) /\ priv \in Levels /\ pc \in Pc
  BY DEF IInv, TypeOK
<1>2. /\ IsCsrFile(c) /\ c.sepc = pc /\ c.mepc = csrs.mepc
      /\ c.mstatus = csrs.mstatus /\ c.sstatus = csrs.sstatus
  <2>1. info \in Nat /\ cause \in Nat
    BY TrapsAssumption
  <2>2. c = [csrs EXCEPT !.sepc = pc, !.stval = info, !.scause = cause]
    OBVIOUS
  <2>. HIDE DEF c
  <2>. QED BY <1>1, <2>1, <2>2, SaveSupervisorTrap
<1>3. csrs' = set_sstatus(c, v)
  BY DEF TrapToS
<1>4. /\ v \in SUBSET StatusBits /\ (priv # U => SPP \in v)
      /\ v \cap MPP = csrs.sstatus \cap MPP
  BY <1>1, <1>2, Registers, Masks DEF set_bit, StatusBits
<1>. HIDE DEF c, v
<1>5. /\ IsCsrFile(csrs') /\ csrs'.sstatus = v
      /\ csrs'.mstatus = (csrs.mstatus \ kMask) \cup (v \cap kMask)
      /\ csrs'.sepc = pc /\ csrs'.mepc = csrs.mepc
  <2>1. "mepc" \in Csr \ {"mstatus", "sstatus"} /\ "sepc" \in Csr \ {"mstatus", "sstatus"}
    BY DEF Csr
  <2>. QED BY <1>2, <1>3, <1>4, <2>1, SstatusSetter
<1>6. /\ priv' = S /\ pc' \in Pc
      /\ strap' = [at |-> pc, from |-> priv, valid |-> TRUE] /\ mtrap' = mtrap
  BY <1>1, Registers DEF TrapToS
<1>7. TypeOK'
  BY <1>1, <1>5, <1>6 DEF IInv, TypeOK, Trap, Levels, S
<1>8. MachineReturn'
  <2>1. SUFFICES ASSUME mtrap.valid
                 PROVE  csrs'.mepc = mtrap.at /\ get_mpp(csrs'.mstatus) = mtrap.from
    BY <1>6 DEF MachineReturn
  <2>2. csrs'.mstatus \cap MPP = csrs.mstatus \cap MPP
    BY <2>1, <1>4, <1>5, Masks DEF IInv, CopiesAgree
  <2>3. get_mpp(csrs'.mstatus) = get_mpp(csrs.mstatus)
    <3>1. csrs'.mstatus \in SUBSET StatusBits /\ csrs.mstatus \in SUBSET StatusBits
      BY <1>1, <1>4, <1>5, Registers
    <3>. QED BY <2>2, <3>1, MppField
  <2>. QED BY <2>1, <2>3, <1>5 DEF IInv, MachineReturn
<1>9. SupervisorTrapKept'
  BY <1>4, <1>5, <1>6 DEF SupervisorTrapKept
<1>10. CopiesAgree'
  BY <1>5 DEF CopiesAgree
<1>. QED BY <1>7, <1>8, <1>9, <1>10 DEF IInv

LEMMA MretInv == ASSUME IInv, mret PROVE IInv'
PROOF
<1> DEFINE u == set_bit(csrs.mstatus, MIE, MPIE \in csrs.mstatus)
           w == set_bit(u, MPIE, TRUE)
           v == set_mpp(w, U)
<1>1. IsCsrFile(csrs)
  BY DEF IInv, TypeOK
<1>2. w \in SUBSET StatusBits /\ (SPP \in csrs.mstatus => SPP \in w)
  BY <1>1, Registers DEF set_bit, StatusBits
<1>3. csrs' = set_mstatus(csrs, v)
  BY DEF mret
<1>. HIDE DEF u, w
<1>4. v \in SUBSET StatusBits /\ (SPP \in w => SPP \in v)
  <2>1. U \in Levels
    BY DEF U, Levels
  <2>. QED BY <1>2, <2>1, MppField, Masks
<1>. HIDE DEF v
<1>5. /\ IsCsrFile(csrs') /\ csrs'.mstatus = v /\ csrs'.sstatus = v \cap kMask
      /\ csrs'.sepc = csrs.sepc
  <2>1. "sepc" \in Csr \ {"mstatus", "sstatus"}
    BY DEF Csr
  <2>. QED BY <1>1, <1>3, <1>4, <2>1, MstatusSetter
<1>6. priv' \in Levels /\ pc' \in Pc /\ mtrap' = no_trap /\ strap' = strap
  BY <1>1, Registers, MppField DEF mret
<1>7. TypeOK'
  BY <1>5, <1>6, TrapsAssumption DEF IInv, TypeOK, Trap, no_trap, Levels, M
<1>8. MachineReturn'
  BY <1>6 DEF MachineReturn, no_trap
<1>9. SupervisorTrapKept'
  BY <1>2, <1>4, <1>5, <1>6, Masks DEF IInv, SupervisorTrapKept, CopiesAgree
<1>10. CopiesAgree'
  BY <1>5 DEF CopiesAgree
<1>. QED BY <1>7, <1>8, <1>9, <1>10 DEF IInv

LEMMA SretInv == ASSUME IInv, sret PROVE IInv'
PROOF
<1> DEFINE u == set_bit(csrs.sstatus, SIE, SPIE \in csrs.sstatus)
           w == set_bit(set_bit(u, SPIE, TRUE), SPP, FALSE)
           c == set_sstatus(csrs, w)
           v == set_bit(c.mstatus, MPRV, FALSE)
<1>1. IsCsrFile(csrs)
  BY DEF IInv, TypeOK
<1>2. w \in SUBSET StatusBits /\ w \cap MPP = csrs.sstatus \cap MPP
  BY <1>1, Registers DEF set_bit, StatusBits, MPP, SIE, SPIE, SPP
<1>3. csrs' = set_mstatus(c, v)
  BY DEF sret
<1>. HIDE DEF u, w
<1>4. /\ IsCsrFile(c) /\ c.mstatus = (csrs.mstatus \ kMask) \cup (w \cap kMask)
      /\ c.mepc = csrs.mepc
  <2>1. "mepc" \in Csr \ {"mstatus", "sstatus"}
    BY DEF Csr
  <2>. QED BY <1>1, <1>2, <2>1, SstatusSetter
<1>. HIDE DEF c
<1>5. v \in SUBSET StatusBits /\ v = c.mstatus
  BY <1>1, <1>2, <1>4, Registers DEF set_bit
<1>. HIDE DEF v
<1>6. /\ IsCsrFile(csrs') /\ csrs'.mstatus = v /\ csrs'.sstatus = v \cap kMask
      /\ csrs'.mepc = csrs.mepc
  <2>1. "mepc" \in Csr \ {"mstatus", "sstatus"}
    BY DEF Csr
  <2>. QED BY <1>3, <1>4, <1>5, <2>1, MstatusSetter
<1>7. priv' \in Levels /\ pc' \in Pc /\ strap' = no_trap /\ mtrap' = mtrap
  BY <1>1, Registers DEF sret, Levels, S, U
<1>8. TypeOK'
  BY <1>6, <1>7, TrapsAssumption DEF IInv, TypeOK, Trap, no_trap, Levels, M
<1>9. MachineReturn'
  <2>1. SUFFICES ASSUME mtrap.valid
                 PROVE  csrs'.mepc = mtrap.at /\ get_mpp(csrs'.mstatus) = mtrap.from
    BY <1>7 DEF MachineReturn
  <2>2. v \cap MPP = csrs.mstatus \cap MPP
    BY <2>1, <1>2, <1>4, <1>5, Masks DEF IInv, CopiesAgree
  <2>3. get_mpp(v) = get_mpp(csrs.mstatus)
    BY <1>1, <1>5, <2>2, Registers, MppField
  <2>. QED BY <2>1, <2>3, <1>6 DEF IInv, MachineReturn
<1>10. SupervisorTrapKept'
  BY <1>7 DEF SupervisorTrapKept, no_trap
<1>11. CopiesAgree'
  BY <1>6 DEF CopiesAgree
<1>. QED BY <1>8, <1>9, <1>10, <1>11 DEF IInv

LEMMA CsrWriteInv == ASSUME IInv, NEW n \in Csr, CsrWrite(n) PROVE IInv'
PROOF
<1>1. IsCsrFile(csrs)
  BY DEF IInv, TypeOK
<1>2. PICK v \in Written(n) : \E x \in Results(n, v) : csrs' = [csrs EXCEPT ![n] = x]
  BY DEF CsrWrite
<1>2a. PICK r \in Results(n, v) : csrs' = [csrs EXCEPT ![n] = r]
  BY <1>2
<1>3. r \in CsrType[n]
  <2>1. v \in CsrType[n] /\ csrs[n] \in CsrType[n]
    BY <1>1, TrapsAssumption DEF IsCsrFile
  <2>2. CASE n \in {"mstatus", "sstatus", "medeleg"}
    <3>1. r = v \/ r = csrs[n] \cup v \/ r = csrs[n] \ v
      BY <2>2 DEF Results
    <3>. QED BY <2>1, <2>2, <3>1, CsrTypes
  <2>3. CASE n \notin {"mstatus", "sstatus", "medeleg"}
    BY <2>1, <2>3 DEF Results
  <2>. QED BY <2>2, <2>3
<1>4. /\ csrs' = [m \in Csr |-> IF m = n THEN r ELSE csrs[m]]
      /\ \A m \in Csr \ {n} : csrs'[m] = csrs[m]
  BY <1>1, <1>2a DEF IsCsrFile
<1>5. IsCsrFile(csrs')
  BY <1>1, <1>3, <1>4 DEF IsCsrFile
<1>6. /\ priv' = priv /\ pc' \in Pc
      /\ mtrap' = IF n \in {"mstatus", "sstatus", "mepc"} THEN no_trap ELSE mtrap
      /\ strap' = IF n \in {"mstatus", "sstatus", "sepc"} THEN no_trap ELSE strap
  BY TrapsAssumption DEF CsrWrite, next_pc
<1>7. ~no_trap.valid /\ no_trap \in Trap
  BY TrapsAssumption DEF no_trap, Trap, Levels, M
<1>8. TypeOK'
  BY <1>5, <1>6, <1>7 DEF IInv, TypeOK
<1>9. {"mstatus", "sstatus", "mepc", "sepc"} \subseteq Csr
  BY DEF Csr
<1>10. CASE n \in {"mstatus", "sstatus"}
  BY <1>6, <1>7, <1>8, <1>10 DEF IInv, MachineReturn, SupervisorTrapKept, CopiesAgree
<1>11. CASE n \notin {"mstatus", "sstatus"}
  <2>1. csrs'.mstatus = csrs.mstatus /\ csrs'.sstatus = csrs.sstatus
    BY <1>4, <1>9, <1>11
  <2>2. MachineReturn'
    BY <1>4, <1>6, <1>7, <1>9, <1>11, <2>1 DEF IInv, MachineReturn
  <2>3. SupervisorTrapKept'
    BY <1>4, <1>6, <1>7, <1>9, <1>11, <2>1 DEF IInv, SupervisorTrapKept
  <2>4. CopiesAgree'
    BY <1>6, <1>7, <1>11, <2>1 DEF IInv, CopiesAgree
  <2>. QED BY <1>8, <2>2, <2>3, <2>4 DEF IInv
<1>. QED BY <1>10, <1>11

LEMMA StepInv == IInv /\ [Next]_vars => IInv'
PROOF
<1>. SUFFICES ASSUME IInv, [Next]_vars PROVE IInv'
  OBVIOUS
<1>1. ASSUME NEW cause \in Causes, NEW info \in Info, raise_exception(cause, info)
      PROVE  IInv'
  BY <1>1, TrapToMInv, TrapToSInv DEF raise_exception
<1>2. CASE AccessFaults
  BY <1>1, <1>2 DEF AccessFaults, Causes
<1>3. ASSUME NEW n \in Csr, NEW writes \in BOOLEAN, CsrDenied(n, writes) PROVE IInv'
  BY <1>1, <1>3 DEF CsrDenied, Causes
<1>4. ASSUME pc' \in Pc, UNCHANGED <<priv, csrs, mtrap, strap>> PROVE IInv'
  BY <1>4 DEF IInv, TypeOK, MachineReturn, SupervisorTrapKept, CopiesAgree
<1>5. CASE Other
  BY <1>4, <1>5 DEF Other
<1>6. ASSUME NEW n \in Csr, CsrRead(n) PROVE IInv'
  BY <1>4, <1>6, TrapsAssumption DEF CsrRead, next_pc
<1>7. ASSUME NEW n \in Csr, CsrWrite(n) PROVE IInv'
  BY <1>7, CsrWriteInv
<1>8. CASE mret
  BY <1>8, MretInv
<1>9. CASE sret
  BY <1>9, SretInv
<1>10. CASE UNCHANGED vars
  BY <1>10 DEF vars, IInv, TypeOK, MachineReturn, SupervisorTrapKept, CopiesAgree
<1>. QED BY <1>2, <1>3, <1>5, <1>6, <1>7, <1>8, <1>9, <1>10 DEF Next

\* Every register keeps to what it holds.
THEOREM TypeCorrect == Spec => []TypeOK
PROOF
<1>1. IInv => TypeOK
  BY DEF IInv
<1>. QED BY <1>1, InitInv, StepInv, PTL DEF Spec

\* mret returns to the instruction and the mode that trapped, for all programs
\* that leave mepc and the status registers alone in between, whatever
\* supervisor traps and returns they take.
THEOREM MachineReturnsWork == Spec => []MachineReturn
PROOF
<1>1. IInv => MachineReturn
  BY DEF IInv
<1>. QED BY <1>1, InitInv, StepInv, PTL DEF Spec

\* A machine trap taken before the return from a supervisor trap loses neither
\* sepc nor, of a trap that came from supervisor mode, SPP.
THEOREM SupervisorTrapsKept == Spec => []SupervisorTrapKept
PROOF
<1>1. IInv => SupervisorTrapKept
  BY DEF IInv
<1>. QED BY <1>1, InitInv, StepInv, PTL DEF Spec

\* The two copies of the shared status fields agree while software leaves
\* them alone.
THEOREM CopiesStayEqual == Spec => []CopiesAgree
PROOF
<1>1. IInv => CopiesAgree
  BY DEF IInv
<1>. QED BY <1>1, InitInv, StepInv, PTL DEF Spec

\* Only an exception starts a new trap to return from, and it goes up or stays:
\* to machine mode, or to supervisor mode from a level that is not above it.
LEMMA TrapUp == Next /\ Trapped /\ priv \in {U, S, M} => priv' >= priv
PROOF
<1>. SUFFICES ASSUME Next, Trapped, priv \in {U, S, M} PROVE priv' >= priv
  OBVIOUS
<1>1. ASSUME NEW cause \in Causes, NEW info \in Info, raise_exception(cause, info)
      PROVE  priv' >= priv
  <2>1. CASE TrapToM(cause, info)
    BY <2>1 DEF TrapToM, U, S, M
  <2>2. CASE TrapToS(cause, info)
    BY <2>2 DEF TrapToS, eh_mode, U, S, M
  <2>. QED BY <1>1, <2>1, <2>2 DEF raise_exception
<1>2. CASE AccessFaults
  BY <1>1, <1>2 DEF AccessFaults, Causes
<1>3. ASSUME NEW n \in Csr, NEW writes \in BOOLEAN, CsrDenied(n, writes) PROVE priv' >= priv
  BY <1>1, <1>3 DEF CsrDenied, Causes
<1>4. CASE Other
  BY <1>4 DEF Other, U, S, M
<1>5. ASSUME NEW n \in Csr, CsrRead(n) \/ CsrWrite(n) PROVE priv' >= priv
  <2>1. CASE CsrRead(n)
    BY <2>1 DEF CsrRead, U, S, M
  <2>2. CASE CsrWrite(n)
    <3>1. priv' = priv
      BY <2>2, Zenon DEF CsrWrite
    <3>. QED BY <3>1 DEF U, S, M
  <2>. QED BY <1>5, <2>1, <2>2
<1>6. CASE mret
  BY <1>6 DEF mret, no_trap, Trapped
<1>7. CASE sret
  BY <1>7 DEF sret, no_trap, Trapped
<1>. QED BY <1>2, <1>3, <1>4, <1>5, <1>6, <1>7 DEF Next

\* An exception never lowers the privilege level, whatever is delegated and
\* whatever software has written to the registers.
THEOREM NeverLowers == Spec => TrapNeverLowers
PROOF
<1>1. [Next]_vars => [Trapped /\ priv \in {U, S, M} => priv' >= priv]_vars
  BY TrapUp DEF vars
<1>. QED BY <1>1, PTL DEF Spec, TrapNeverLowers
=============================================================================
