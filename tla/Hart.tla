-------------------------------- MODULE Hart --------------------------------
(***************************************************************************)
(* Hart::run (src/hart.cpp): the interpreter loop that decodes a basic     *)
(* block once, executing each instruction as it is decoded, caches the     *)
(* block under the address it starts at, and replays it from the cache     *)
(* whenever control reaches that address again.  The cache is the one of   *)
(* module LRU; every access run makes to it is an action of that module.   *)
(* The variable fetched is a history: no action reads it, only properties. *)
(***************************************************************************)
EXTENDS HartExec, SequencesExt

CONSTANTS
  Node, Capacity, End,  \* the parameters of the cache
  MaxBlock              \* longest block memory has room for

ASSUME BlockAssumption == MaxBlock \in Nat \ {0}

VARIABLES
  ctl,     \* where the loop is: "idle", "lookup", "replay", "build",
           \* "update", "done", or "thrown" and "nomem" after a C++ exception
  bb,      \* the block being built
  bb_pc,   \* the address it starts at
  at,      \* the instruction of the cached block executed next
  pages, entry, table, ret,  \* bb_cache_
  fetched  \* history: what user mode has fetched from memory at each address

Blocks == Seq(Instructions)

Cache == INSTANCE LRU WITH Key <- Addr, Page <- Blocks

cache == <<pages, entry, table, ret>>

loop == <<ctl, bb, bb_pc, at>>

vars == <<arch, loop, cache, fetched>>

\* Mutant of terminators: a kind of instruction that is_terminator forgets.
BranchForgotten == {"jump", "ebreak", "ecall", "exit", "mret", "sret"}

\* Mutant of terminators: the return from supervisor mode is forgotten.
SretForgotten == {"branch", "jump", "ebreak", "ecall", "exit", "mret"}

terminators == {"branch", "jump", "ebreak", "ecall", "exit", "mret", "sret"}

is_terminator(i) == i.op \in terminators

-----------------------------------------------------------------------------
Init ==
  /\ ArchInit
  /\ ctl = "idle" /\ bb = << >> /\ bb_pc = 0 /\ at = 1
  /\ Cache!Init
  /\ fetched = [a \in Addr |-> {}]

Start ==
  /\ ctl = "idle" /\ ctl' = "lookup" /\ bb' = << >>
  /\ StartRun
  /\ UNCHANGED <<bb_pc, at, cache, fetched>>

\* Mutant of BlockDone: run_ is not tested.
NeverDone == ctl' = "lookup"

\* The test of the loop, passed once a block has been executed to its end.
BlockDone == ctl' = IF run_' THEN "lookup" ELSE "done"

LookupHit ==
  /\ ctl = "lookup" /\ Cache!LookupHit(pc)
  /\ ctl' = "replay" /\ at' = 1
  /\ UNCHANGED <<bb, bb_pc, arch, fetched>>

\* Mutant of LookupMiss: the address of the block is not kept.
MissForgetsPc ==
  /\ ctl = "lookup" /\ Cache!LookupMiss(pc)
  /\ ctl' = "build"
  /\ UNCHANGED <<bb, bb_pc, at, arch, fetched>>

LookupMiss ==
  /\ ctl = "lookup" /\ Cache!LookupMiss(pc)
  /\ ctl' = "build" /\ bb_pc' = pc
  /\ UNCHANGED <<bb, at, arch, fetched>>

\* One instruction of the loop over bb_it->second.  The goto after an exception
\* goes back to the lookup past the test of run_.
Replay ==
  /\ ctl = "replay"
  /\ LET i == ret.page[at] IN
       \/ /\ Completes(i) /\ Executed
          /\ IF at = Len(ret.page) THEN BlockDone /\ UNCHANGED at
                                   ELSE at' = at + 1 /\ UNCHANGED ctl
       \/ Traps(i) /\ ctl' = "lookup" /\ UNCHANGED at
       \/ Throws(i) /\ ctl' = "thrown" /\ UNCHANGED <<at, arch>>
  /\ UNCHANGED <<bb, bb_pc, cache, fetched>>

\* One turn of the inner for(;;): fetch, decode, append, execute.  A word that
\* cannot be decoded is not appended.  The goto after an exception leaves bb as
\* it is.
BuildFetchFault ==
  /\ ctl = "build" /\ FetchFaults
  /\ RaiseException /\ ctl' = "lookup"
  /\ UNCHANGED <<bb, bb_pc, at, cache, fetched>>

Build ==
  /\ ctl = "build" /\ ~FetchFaults /\ Len(bb) < MaxBlock
  /\ LET i == Fetched(pc) IN
       /\ bb' = IF i.op \in {"bad", "none"} THEN bb ELSE Append(bb, i)
       /\ fetched' = IF Translated THEN [fetched EXCEPT ![pc] = @ \cup {i}] ELSE fetched
       /\ \/ /\ Completes(i) /\ Executed
             /\ ctl' = IF is_terminator(i) THEN "update" ELSE "build"
          \/ Traps(i) /\ ctl' = "lookup"
          \/ Throws(i) /\ ctl' = "thrown" /\ UNCHANGED arch
  /\ UNCHANGED <<bb_pc, at, cache>>

\* emplace_back throws std::bad_alloc when the block fills the memory.
BuildNoMemory ==
  /\ ctl = "build" /\ ~FetchFaults /\ Len(bb) = MaxBlock
  /\ ctl' = "nomem"
  /\ UNCHANGED <<bb, bb_pc, at, arch, cache, fetched>>

\* Mutant of Update: the block is copied into the cache and not moved.
UpdateCopies ==
  /\ ctl = "update"
  /\ Cache!update(bb_pc, bb)
  /\ UNCHANGED <<bb, bb_pc, at, arch, fetched>>
  /\ BlockDone

Update ==
  /\ ctl = "update"
  /\ Cache!update(bb_pc, bb)
  /\ bb' = << >>
  /\ UNCHANGED <<bb_pc, at, arch, fetched>>
  /\ BlockDone

Next ==
  \/ Start
  \/ LookupHit \/ LookupMiss
  \/ Replay
  \/ BuildFetchFault \/ Build \/ BuildNoMemory
  \/ Update

Spec == Init /\ [][Next]_vars

\* One thread runs the loop and nothing in it waits: it keeps taking steps.
FairSpec == Spec /\ WF_vars(Next)

\* A program that writes an instruction only before user mode has fetched what
\* was there, as a loader does, and never after.
WritesFresh == \A a \in Addr : code'.virt[a] # code.virt[a] => fetched'[a] = {}

FreshSpec == Init /\ [][Next /\ WritesFresh]_vars

-----------------------------------------------------------------------------
(* Properties. *)

\* What a handler without jumps, returns or denied accesses is made of.
straight ==
  {"alu", "mem", "csr", "skip", "csr_user", "fence", "exit", "ebreak", "wfi",
   "sfence_vma", "bad", "none"}

\* The handler src/main.cpp installs: no user page covers its address, it is
\* straight-line code, and it ends with a system call known to exit.  It may
\* store, as long as it does not turn itself into something else.
HandlerInstruction(i) ==
  \/ i.op \in straight
  \/ i.op = "store" /\ i.new.op \in straight

HandlerExits(c) ==
  /\ c.virt[Handler].op = "none"
  /\ \A a \in Addr : HandlerInstruction(c.phys[a])

TypeOK ==
  /\ ArchTypeOK
  /\ ctl \in {"idle", "lookup", "replay", "build", "update", "done", "thrown", "nomem"}
  /\ bb \in Blocks /\ Len(bb) <= MaxBlock
  /\ bb_pc \in Addr
  /\ at \in 1 .. MaxBlock
  /\ Cache!TypeOK
  /\ fetched \in [Addr -> SUBSET Instructions]

\* run keeps the promise LRU::update asserts: the block it adds is not in the
\* cache yet, although many instructions, and possibly exceptions, lie between
\* the lookup that missed and the update.
UpdateContract == ctl = "update" => Cache!Contract(bb_pc)

\* While the program runs, a cached block is straight-line code user mode fetched
\* from memory at the address it is cached under and those after it: nothing a
\* trap interrupted, nothing of the handler, nothing out of order.
CacheHoldsUserCode ==
  run_ => \A a \in DOMAIN table :
    LET block == entry[table[a]].page IN
      \A j \in DOMAIN block : block[j] \in fetched[(a + j - 1) % AddrSpace]

\* A cached block is replayed whole and in order at its own addresses: at every
\* instruction of it pc_ is where that instruction was fetched, so none is
\* skipped, repeated or executed somewhere else, also after the block has been
\* overwritten in memory, also when it is evicted and built again.
ReplayedInOrder == ctl = "replay" => pc = (ret.key + (at - 1)) % AddrSpace

\* What user mode has fetched is still what memory holds.
Fresh == \A a \in Addr : fetched[a] \subseteq {code.virt[a]}

outcome == CASE ctl = "idle" -> "idle"
             [] ctl = "thrown" -> "thrown"
             [] OTHER -> "running"

Single == INSTANCE RunSingle WITH st <- outcome

\* Replaying cached blocks is invisible as long as nothing that was fetched has
\* been overwritten: each step of run is one run_single takes, executing what
\* memory holds at that moment, or nothing that can be seen - in the same modes,
\* with the same traps and the same count of executed instructions, and nothing
\* after the instruction that ended the run.  What a program overwrites after it
\* has executed it is replayed as it was, which run_single does not do.
ImplementsRunSingle ==
  Single!Init /\ [][Fresh => [Single!Next]_<<Single!arch, outcome>>]_vars

\* An exception ends the run: the handler the simulator installs exits.
TrapEndsRun == (priv = M /\ run_) ~> (ctl = "done")

\* The instruction a step of Replay or Build executes.
current == IF ctl = "replay" THEN ret.page[at] ELSE Fetched(pc)

\* An instruction that raised an exception is not executed until the return
\* from the exception handler: hart.cpp relies on it for its count.
TrappedNotExecuted ==
  [][priv = M /\ instr_count' # instr_count => current # code.virt[mepc]]_vars

\* A program that only moves forward and ends with exit reaches its end.
RunEnds == <>(ctl = "done")
=============================================================================
