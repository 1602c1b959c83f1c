------------------------------ MODULE HartExec ------------------------------
(***************************************************************************)
(* The architectural state of a hart that Hart::run and Hart::run_single   *)
(* share, and what fetching and executing one instruction does to it       *)
(* (src/hart.cpp, include/yarvs/hart.hpp, src/executor.cpp).               *)
(*                                                                         *)
(* Registers and data memory are abstracted away: a branch may go either   *)
(* way, an access below machine mode may fault, a system call whose number *)
(* is not known may be any.  What is kept is where control goes, in which  *)
(* mode, and whether the instruction completes, traps or throws.           *)
(* Addresses count instructions and wrap at AddrSpace.  medeleg is 0, as   *)
(* in the shipped simulator, so every exception is taken in machine mode,  *)
(* and sepc and SPP are what they were when the run started.               *)
(***************************************************************************)
EXTENDS Naturals

CONSTANTS
  AddrSpace,  \* number of instruction addresses
  Handler,    \* mtvec: the address of the exception handler
  Images,     \* the memory images to run: [virt, phys : Addr -> instruction]
  CountMod,   \* width of the counter of executed instructions
  sepc        \* CSR sepc, which a client sets through csrs()

Addr == 0 .. AddrSpace - 1

ASSUME HartAssumption ==
  /\ AddrSpace \in Nat \ {0}
  /\ CountMod \in Nat \ {0}
  /\ Handler \in Addr
  /\ sepc \in Addr

U == 0  \* PrivilegeLevel::kUser
M == 3  \* PrivilegeLevel::kMachine

VARIABLES
  code,         \* the image in memory
  priv,         \* priv_level_
  pc,           \* pc_
  run_,         \* run_
  mepc,         \* CSR mepc
  mpp,          \* CSR mstatus.MPP
  instr_count   \* run's counter of executed instructions

arch == <<code, priv, pc, run_, mepc, mpp, instr_count>>

\* "csr" and "skip" access a register of machine or supervisor level, "csr_user"
\* one of user level, "csr_readonly" writes where nothing may be written.  "bad"
\* is a word that is no instruction, "none" that nothing is mapped.
Plain ==
  [op : {"alu", "mem", "csr", "skip", "csr_user", "csr_readonly", "fence", "ecall",
         "exit", "ebreak", "mret", "sret", "wfi", "sfence_vma", "bad", "none"}]
  \cup [op : {"branch", "jump"}, to : Addr]

\* "mem" is a load or a store to data, "store" a store of an instruction.
Instructions == Plain \cup [op : {"store"}, to : Addr, new : {i \in Plain : i.op # "none"}]

\* What may be in memory when the run starts.
ASSUME ImagesAssumption ==
  Images \subseteq [virt : [Addr -> Instructions], phys : [Addr -> Instructions]]

next(a) == (a + 1) % AddrSpace

-----------------------------------------------------------------------------
\* is_satp_active: below machine mode an address is virtual.
Translated == priv # M

Fetched(a) == IF Translated THEN code.virt[a] ELSE code.phys[a]

\* A page that is not mapped faults; in machine mode nothing faults, the bytes
\* found there are simply not an instruction.
FetchFaults == Translated /\ code.virt[pc].op = "none"

\* Mutant of RaiseException: mepc is the address after the instruction.
RaiseSavesNext ==
  /\ mepc' = pc + 1
  /\ mpp' = priv
  /\ priv' = M
  /\ pc' = Handler
  /\ UNCHANGED <<code, run_, instr_count>>

\* raise_exception with the machine as handler.
RaiseException ==
  /\ mepc' = pc
  /\ mpp' = priv
  /\ priv' = M
  /\ pc' = Handler
  /\ UNCHANGED <<code, run_, instr_count>>

-----------------------------------------------------------------------------
(* The three ways execute(instr) ends. *)

Continue(a) == pc' = a /\ UNCHANGED <<priv, run_, mepc, mpp>>

Stop == run_' = FALSE /\ UNCHANGED <<pc, priv, mepc, mpp>>

\* Register instructions, and loads and stores whose translation succeeds.
exec_alu(i) == i.op = "alu" /\ Continue(next(pc))

exec_load_store(i) == i.op = "mem" /\ Continue(next(pc))

\* A store into the program.  Nothing is told to the cache of blocks.  Machine
\* mode stores to physical addresses: to a page of the program, or around the
\* handler.
exec_store(i) ==
  /\ i.op = "store"
  /\ \/ code.virt[i.to].op # "none" /\ code' = [code EXCEPT !.virt[i.to] = i.new]
     \/ ~Translated /\ code' = [code EXCEPT !.phys[i.to] = i.new]
  /\ Continue(next(pc))

\* "skip" stands for the CSR instructions that make mepc the following one.
exec_csr(i) ==
  \/ i.op = "csr_user" /\ Continue(next(pc))
  \/ priv = M /\ i.op = "csr" /\ Continue(next(pc))
  \/ /\ priv = M /\ i.op = "skip"
     /\ mepc' = next(mepc) /\ pc' = next(pc)
     /\ UNCHANGED <<priv, run_, mpp>>

exec_cond_branch(i) == i.op = "branch" /\ \E a \in {i.to, next(pc)} : Continue(a)

exec_jal(i) == i.op = "jump" /\ Continue(i.to)

\* Not even the pc is advanced.
exec_fence(i) == i.op = "fence" /\ Continue(pc)

\* The write system call goes on, exit stops the run where it is.
exec_ecall(i) ==
  \/ i.op = "ecall" /\ Continue(next(pc))
  \/ i.op \in {"ecall", "exit"} /\ Stop

exec_ebreak(i) == i.op = "ebreak" /\ Stop

exec_mret(i) ==
  /\ i.op = "mret"
  /\ priv' = mpp /\ mpp' = U /\ pc' = mepc
  /\ UNCHANGED <<run_, mepc>>

\* sret asks for no privilege; SPP says the user mode.
exec_sret(i) ==
  /\ i.op = "sret"
  /\ priv' = U /\ pc' = sepc
  /\ UNCHANGED <<run_, mepc, mpp>>

\* Neither is implemented: they throw.
exec_wfi(i) == i.op = "wfi"

exec_sfence_vma(i) == i.op = "sfence_vma"

\* It returns true.
Completes(i) ==
  \/ /\ \/ exec_alu(i) \/ exec_load_store(i) \/ exec_csr(i)
        \/ exec_cond_branch(i) \/ exec_jal(i)
        \/ exec_fence(i)
        \/ exec_ecall(i) \/ exec_ebreak(i) \/ exec_mret(i) \/ exec_sret(i)
     /\ UNCHANGED code
  \/ exec_store(i)

\* It returns false, having raised an exception: a data page fault (of a load,
\* a store or the buffer of the write system call) or an illegal CSR access.
Traps(i) ==
  /\ \/ i.op \in {"mem", "store", "ecall", "csr", "skip"} /\ priv # M
     \/ i.op = "csr_readonly"
  /\ RaiseException

\* It throws, as an unknown system call does.  Decoding a word that is no
\* instruction throws before anything is executed.
Throws(i) == exec_wfi(i) \/ exec_sfence_vma(i) \/ i.op \in {"ecall", "bad", "none"}

Executed == instr_count' = (instr_count + 1) % CountMod

ArchInit ==
  /\ code \in Images
  /\ priv = M
  /\ pc \in Addr
  /\ run_ = FALSE
  /\ mepc = 0
  /\ mpp = U
  /\ instr_count = 0

ArchTypeOK ==
  /\ code \in [virt : [Addr -> Instructions], phys : [Addr -> Instructions]]
  /\ priv \in {U, M}
  /\ pc \in Addr
  /\ run_ \in BOOLEAN
  /\ mepc \in Addr
  /\ mpp \in {U, M}
  /\ instr_count \in 0 .. CountMod - 1

\* run's first two assignments: the program starts in user mode.
StartRun ==
  /\ priv' = U
  /\ run_' = TRUE
  /\ instr_count' = 0
  /\ UNCHANGED <<code, pc, mepc, mpp>>
=============================================================================
