------------------------------ MODULE MC_Hart ------------------------------
(***************************************************************************)
(* Instances of Hart.  ShippedImages is what src/main.cpp sets up: a user  *)
(* program in translated memory and, at physical address 0, the default    *)
(* handler, which ends the run.  Every program of three instructions is an *)
(* initial state.  The other images vary one thing each: programs that     *)
(* store to themselves, handlers that return, a fence.                     *)
(***************************************************************************)
EXTENDS Hart, TLC

Op(o) == [op |-> o]
BranchTo(a) == [op |-> "branch", to |-> a]
JumpTo(a) == [op |-> "jump", to |-> a]

\* kDefaultExceptionHandler: csrrw, addi, addi, ecall.
DefaultHandler == [a \in Addr |->
  CASE a = 0 -> Op("csr") [] a \in {1, 2} -> Op("alu") [] a = 3 -> Op("exit")
    [] OTHER -> Op("none")]

UserInstructions ==
  {Op(o) : o \in {"alu", "mem", "csr", "csr_user", "csr_readonly", "ecall", "exit", "ebreak",
                  "mret", "sret", "wfi", "sfence_vma", "bad", "fence"}}
  \cup {BranchTo(a) : a \in {1, 3}} \cup {JumpTo(a) : a \in {0, 1}}

\* The page of address 0 is not mapped, nor is what follows the program.
ShippedImages ==
  {[virt |-> [a \in Addr |-> IF a \in 1 .. 3 THEN p[a] ELSE Op("none")],
    phys |-> DefaultHandler] : p \in [1 .. 3 -> UserInstructions]}

Program(p) == [a \in Addr |-> IF a \in DOMAIN p THEN p[a] ELSE Op("none")]

\* Handlers a client of the class may install through csrs(): return and try
\* again, or return past the instruction that trapped.
Handlers ==
  {Program(0 :> Op("mret")),
   Program(0 :> Op("skip") @@ 1 :> Op("mret")),
   Program(0 :> Op("alu") @@ 1 :> Op("skip") @@ 2 :> Op("mret"))}

ReturningImages ==
  {[virt |-> Program(p), phys |-> h] :
     h \in Handlers,
     p \in [1 .. 2 -> {Op(o) : o \in {"alu", "mem", "csr", "exit"}} \cup {JumpTo(1), BranchTo(2)}]}

\* Programs that store instructions over their own: over one to come, the one
\* before, a terminator, the store itself; and a handler that writes over itself,
\* or over the program, and writes mepc before it exits.
StoreAt(a, i) == [op |-> "store", to |-> a, new |-> i]

Stores == {StoreAt(a, i) : a \in 1 .. 3, i \in {Op("alu"), Op("exit"), JumpTo(1)}}

StoringHandler ==
  Program(0 :> StoreAt(1, Op("skip")) @@ 1 :> Op("alu") @@ 2 :> Op("exit"))

StoringImages ==
  {[virt |-> Program(p), phys |-> h] :
     p \in {q \in [1 .. 3 -> Stores \cup {Op("alu"), Op("exit"), JumpTo(1), BranchTo(1)}] :
              \E a \in 1 .. 3 : q[a] \in Stores},
     h \in {Program(0 :> Op("skip") @@ 1 :> Op("exit")), StoringHandler}}

RunImages == ShippedImages \cup StoringImages

ASSUME RunImagesAssumption == \A c \in RunImages : HandlerExits(c)

\* A program that executes a fence and exits.
FenceImages ==
  {[virt |-> Program(1 :> Op("fence") @@ 2 :> Op("exit")), phys |-> DefaultHandler]}
=============================================================================
