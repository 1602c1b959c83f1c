# YARVS in TLA+

A verification project for YARVS, a simulator of a 64-bit RISC-V hart
(`src/`). The modules model the state the simulator keeps and the order in
which it changes it; TLC checks them on small instances and TLAPS proves the
theorems of the `_proofs` modules for all values of the constants.

File names below are relative to `src/`; headers are under `include/yarvs/`.

## The system

YARVS is one process with one thread. `main` builds a `Hart`,
`initialize_hart` lays a program out in simulated memory with page tables, and
`Hart::run` interprets it until the program, or the default exception handler,
makes the exit system call.

| Component | State | Operations | Uses |
|---|---|---|---|
| Block cache `LRU` (`cache/lru.hpp`) | `pages_`, a list of (key, page); `hash_table_`, iterators into the list; `capacity_` | `lookup`, `update`, `clear`, `is_full`, `size` | |
| Interpreter loop (`hart.cpp`) | `bb_cache_`, `pc_`, `priv_level_`, `run_`, the block being built | `run`, `run_single`, `execute` | cache, decoder, memory, handlers |
| Instruction handlers (`executor.cpp`, `hart.hpp`) | `gprs_`, `pc_`, `run_`, `status_` | one `exec_*` per instruction | memory, CSRs, `raise_exception` |
| Exceptions and privilege (`hart.hpp`, `executor.cpp`) | `priv_level_`, `pc_`, CSRs | `raise_exception`, `eh_mode`, `mret`, `sret` | CSRs |
| CSRs (`privileged/`) | an array of 4096 words | typed getters and setters; raw `get_reg`, `set_reg` used by CSR instructions | |
| Memory (`memory/`) | 4GB of bytes, the page tables among them | `load`, `store`, `fetch`, `host_ptr`, `translate_address` | CSRs and the privilege level, by reference |
| Loader (`main.cpp`, `elf_loader.cpp`) | memory, `table_ppn`, `data_ppn`, `va_to_pa` | `initialize_hart`, `loadable_pages_to_flags`, `get_loadable_pages` | memory, ELFIO |
| Decoder (`decoder.hpp`, `code-gen/generator.py`) | none | `decode`, generated from a table of encodings; the immediates of the formats | |
| Bits and arithmetic (`bits_manipulation.hpp`, `executor.cpp`) | none | `sext`, `mask_bits`, `set_bits`, the ALU | |
| Registers (`reg_file.hpp`) | 32 words | `get_reg`, `set_reg` | |
| The rest | | command line, logging, disassembly, `mmap` | |

Everything interacts by calls and by shared references: memory holds a
reference to the CSRs and to the privilege level of the hart, so a CSR
instruction changes what the next access means; the cache keeps instructions
that were fetched under some translation and some privilege level, and the
loop replays them with no further look at memory.

There are no threads, no messages and no persistent state. The difficulty is
elsewhere:

- two containers, two copies of a status register, a block cache and memory:
  the same fact kept twice, and updated in one place at a time;
- non-local control flow: an exception leaves a block half built by a `goto`,
  past the test of `run_`, and later code finds what it left;
- long protocols across traps: what a trap saves must still be there at the
  matching return, with other traps, returns and CSR writes between them;
- page tables that are data in the memory they translate, built one entry at a
  time and changed by translation itself;
- programs that store to code the cache has decoded;
- words of fixed width: what wraps, which bits are masked out, where the sign
  goes, and which of two registers is written before the other is read.

What should be true of each component:

- the cache: its two containers agree, it keeps to its capacity, and it answers
  as a least-recently-used cache does;
- the loop: blocks are replayed as they were fetched, whole and in order;
  unless a program overwrites what it has executed, this cannot be told from
  fetching and executing one instruction after the other; and the run ends when
  it should;
- exceptions: a return goes back to the instruction and level that trapped;
  an exception never lowers the privilege level;
- memory: accesses below machine mode keep to what the tables grant, and
  accessed and dirty bits tell what happened;
- the loader: the hart's walk finds each page of the program, with its flags
  and its data, and nothing else;
- the decoder: an encoding is decoded to its instruction, whatever its operands,
  and every bit of an immediate comes from its place;
- the arithmetic: short programs compute what they are written for, up to the
  limits of the types.

`PROJECT.json` lists the hazards behind these, with their lines.

## The modules

### Cache and loop

`LRU` models the class at the level of its containers. An iterator is the
address of a list node: `pages` is the list as a sequence of addresses,
`entry` the contents of the allocated nodes, `table` the hash table. Freed
addresses are reused. `LookupHit`, `LookupMiss`, `update` and `clear` are the
operations, one step each; `Contract` is the precondition `update` asserts.
`LRUSpec` says what such a cache promises without list, table or eviction: it
answers for a key exactly when fewer than `Capacity` other keys have been used
since. `LRUHistory` adds the history `LRUSpec` speaks of to `LRU` and states
the refinement.

`HartExec` is the state `run` and `run_single` share (privilege level, pc,
`run_`, `mepc`, MPP, the instruction counter) with what one instruction does
to it. Registers and data are abstracted away: a branch may go either way, an
access below machine mode may fault. An instruction completes, traps, throws a
C++ exception or stops the run. `sret` returns to user mode (SPP is clear) at
the constant `sepc`; `wfi` and `sfence.vma` throw. CSR instructions complete for
registers of user level, trap below the level of the others and trap everywhere
when they write to a read-only one. A store to code changes the image in memory,
from machine mode also the part of it that is not translated. `RunSingle`
executes one instruction after the other, each fetched from what memory holds at
that moment; it is the specification. `Hart` is the loop
of `run`: `ctl` says where it is, `bb` and `bb_pc` are the block being built,
`at` is the place in the cached block; the cache inside it is `INSTANCE LRU`,
so every use of it is an action of that module. `Build` is one turn of the inner
loop, `Replay` one of the loop over a cached block. `medeleg` is 0 there, as in
the shipped simulator. `fetched` is history: what user mode has found at each
address when it built a block. Nothing invalidates a block when its code is
overwritten, in the code as in the model, so `run` differs from `run_single` for
programs that overwrite what they have executed: the old instructions are
replayed until the block is evicted. `ImplementsRunSingle` therefore says of each
step that it is one of `RunSingle` if memory still holds everything user mode has
fetched (`Fresh`). What holds after that is that an old block is what memory
held (`CacheHoldsUserCode`) and is replayed whole and in order
(`ReplayedInOrder`). `FreshSpec` is the loop under programs that write code only
before it is executed; all of it implements `RunSingle`.

### Exceptions and CSRs

`Traps` has what `Hart` leaves out: three privilege levels, delegation, and the
CSRs as one array in which `sstatus` is a second word beside `mstatus`, not a
view of it. `TrapToM` and `TrapToS` are the branches of `raise_exception`;
`CsrDenied`, `CsrRead` and `CsrWrite` the CSR instructions (of numbers below
0x800 where they are not denied: from there on the number is no
subscript, see below); `mret` and `sret`
the returns. `set_bit` ors, as in the code. A status register is the set of its
bits that are 1. `mtrap` and `strap` are history: the trap to return from, as
long as the program has not written a register its return depends on.

### Memory and loading

`PageTable` has the entries, the virtual addresses and the walk, with no state.
A table has `Slots` entries (512 in the code), addresses count words, and the
address bits above the translated ones take `Beyond` values. `Memory` adds
physical memory, the checks of `translate_address`, the marking of accessed and
dirty bits and the accesses themselves, in any order of privilege states. A
store goes to one word, or starts in the last byte of one and goes on in the next
(`StoreAcross`), in the same page or not. The privilege state is given:
`Switch` stands for what the hart does to it. `granted`, `written` and
`kept_off` are history: memory as machine mode left it, the pages stored to since,
and whether each of these stores was kept off pages with bit U. `Loader` is `initialize_hart`: one action per step of its loops, with
the same `walk` in its properties that the hart uses.

### Decoder and arithmetic

`Words` has words as the sets of their bit positions that are 1, with the real
widths: `mask_bits`, `get_bits`, `sext`, shifts, and addition and subtraction by
their carries and borrows. Numbers would have to stay below 2^31 to be checked;
sets of positions have no such limit, and the provers reason about them one
position at a time.

`Decoder` is the search `generator.py` writes. The masks of an opcode are tried
in descending order; the word cut with a mask is looked up among the matches of
all instructions. `Hit` finds one, `Miss` goes on to the next mask, `Refuse` is
`std::invalid_argument`. The fields and the five immediate formats are those of
`decoder.hpp`, mask by mask and shift by shift. The table of encodings is a
constant: it comes from riscv-opcodes, which is not part of the repository.
`MC_Decoder` has that of `rv_i`, `rv64_i`, `rv_zicsr`, `rv_s` and `rv_system`,
the extensions `code-gen/CMakeLists.txt` asks for.

`RV64I` has the integer handlers of `executor.cpp`, one action per template of
`hart.hpp`, in the order in which they read and write, on 64-bit words.
`gprs` are the registers, `cell` the one doubleword of memory programs load from
and store to. `Idioms` has short programs and what they are to compute: rotation,
absolute value and minimum without a branch, sums and differences of 128 bits,
constants put together from two immediates, calls near and far, copies through
memory in every width, branches, and a loop that counts bits.

### Proofs and instances

`LRU_proofs`, `Hart_proofs`, `Traps_proofs`, `PageTable_proofs`,
`Memory_proofs`, `Loader_proofs`, `Decoder_proofs` and `RV64I_proofs` hold the
theorems and their lemmas. The `MC_` modules give the instances; operators whose comment begins with "Mutant
of" are wrong variants of a definition, used to show that each property can
fail.

## What the runs show

| Run | Configuration | Result |
|---|---|---|
| `lru` | `MC_LRU.cfg` | The containers agree, the capacity holds, the list is in order of use, `LRU` implements `LRUSpec` |
| `hart_shipped` | `MC_Hart.cfg` | With a handler that exits, cached blocks are user code, replayed whole and in order although programs store into them; until something fetched is overwritten, each step is one of `run_single`; the contract of `update` is kept, an exception ends the run |
| `traps` | `MC_Traps.cfg` | `mret` goes back where the trap came from, and so does `sret` but for an SPP left set; the copies of the status register agree, no exception lowers the level |
| `memory` | `MC_Memory.cfg` | Accesses are confined to what translation lets them store to, and one page beyond; dirty bits tell the stores |
| `loader` | `MC_Loader.cfg` | The tables are a tree and agree with the walk at every step; the program is in place |
| `decoder` | `MC_Decoder.cfg` | Encodings are decoded to their instruction with its immediate; other words are refused, but for a few named ones |
| `integer` | `MC_RV64I.cfg` | The programs of `Idioms` compute what they are written for |
| `hart_stale`, `hart_fence`, `traps_spp`, `memory_writable`, `memory_user` | | one violated property each, see the next section |

Bounds, and why they are enough:

- `lru`: five keys, two pages, a capacity of three and one node more than
  that. Eviction, a hit at the front, in the middle and at the back and the reuse
  of a freed node all happen; the cache has no rule that depends on a larger
  number. Keys, pages and nodes are only compared, so the symmetry is sound.
- `hart_shipped`: every program of three instructions over the
  kinds that differ in control flow, in five instruction addresses, under the
  handler of `main.cpp`; and every program of three that stores to code (to an
  instruction to come, an earlier one, a terminator, the store itself), under a
  handler of two instructions that exits and under one that overwrites itself and
  the program. The cache has two blocks. Up to four blocks start at different
  addresses, so blocks are evicted, rebuilt and overlap, and blocks built before
  and after a store to the same code are cached side by side. `sret` goes to the
  middle of the program (850,594 states). The instruction counter counts modulo 2: a missing or
  double count still shows. `MaxBlock` is the size at which memory is exhausted;
  only a fence gets there. That the handlers exit is an assumption TLC checks
  (`RunImagesAssumption`).
- `traps`: two instruction addresses, two causes, delegated or not, and software
  that writes `mstatus` and `sstatus`, the level 2 that is none among the values.
  Depth is not bounded: traps nest, return and interleave with CSR writes until
  no new state appears.
- `memory`: three levels of tables of two entries, seven pages, tables that
  include leaves of the middle level (aligned and not), reserved flags, a leaf
  that is dirty from the start, a table mapped as data, and an address bit beyond the translated ones; user,
  supervisor (with SUM, with MXR) and machine mode, with MPRV. Programs store
  the most harmful word there is, an entry that grants everything (82,986 states).
- `loader`: four levels (Sv48, the default), tables of two entries, a text and a
  data segment at every two addresses, in either order and overlapping or not,
  spanning one to four pages, with a stack of two pages that segments may run
  into; and segments that are not loadable, have no flags or only W. Tables are
  shared and not shared between pages, and data ends in, at or across a page.
- `decoder`: words have their 32 bits. Each instruction is decoded with its
  operand bits all 0 and all 1, and each of these words with every one of its 32
  bits changed: 8,028 states. A mask that lets one operand bit through, or an
  immediate bit taken from the wrong place, shows with one of them; so does a
  fixed bit that is not looked at.
- `integer`: words have their 64 bits. Operands are 0, 1, -1, the extremes of
  signed and unsigned numbers of 32 and 64 bits and some mixed words, in every
  pair; offsets of calls reach both ends of a 32-bit range. Wrong carries, signs,
  widths and shift amounts show at these limits.

`CHECK_DEADLOCK FALSE` is given where the system really stops: the run has
ended, loading is done, the word is decoded, the program is over.

Fairness is used for `TrapEndsRun` and `RunEnds` only: weak fairness of the
next-state relation of `Hart`. One thread executes the loop and nothing in it
waits, so a step that can be taken is taken. No fairness is assumed between a
branch's two ways: once the hart is in the handler there is no branch left.

## Where the code disagrees with its comments

Each is a run that TLC ends with a counterexample.

- `hart_stale` (`TrappedNotExecuted`). `hart.cpp:89-92` relies on a trapped
  instruction not being executed until the return from the handler. After the
  `goto` at line 119 or 123 the block under construction stays in `bb`, the
  trapped instruction included; the next block is appended to it and cached
  under the handler's address, and a later lookup replays the leftover in
  machine mode. It takes a handler that returns, which a client of the class can
  install since `csrs()` is public; `TrapEndsRun` shows why the shipped one does
  not run into it.
- `hart_fence` (`RunEnds`). `executor.cpp:328` means to ignore a fence; the pc
  is not advanced and the block grows until memory is exhausted.
- `traps_spp` (`SupervisorReturn`). `sstatus.hpp:43` and `mstatus.hpp:50`: SPP
  indicates the level the hart was in before it entered supervisor mode.
  `set_bit` (`bits_manipulation.hpp:105`) only ors, so the SPP of a trap from
  supervisor mode is still there, after an `mret` to user mode, when a trap from
  user mode comes, and `sret` goes to supervisor mode. No instruction of the
  trace writes a status register. `SupervisorTrapKept` is what remains true: a
  trap from supervisor mode is not forgotten.
- `memory_writable` (`WritableOnly`). `pte.hpp:28`: bit W says whether a page is
  writable. A store translates its first byte and tests no alignment, so across
  the end of a writable page it changes the page of physical memory after it.
  `Confined` is what remains true: nothing beyond that one page.
- `memory_user` (`UserPagesOnly`). `pte.hpp:36`: bit U says whether a page is
  accessible to user mode. `memory.hpp:173` asks for it in supervisor mode only.
  `Confined` has the part of bit U that the code respects: pages with the bit
  keep their contents as long as only supervisor mode without SUM stores.

Four more are seen in the definitions, or in the part a property has to leave out,
and have no run of their own:

- `bits_manipulation.hpp:155`: `sext` extends the first bits of its input by their
  sign. It does not clear what is above them (line 175), so `translate_address`
  takes an address with rubbish above a clear sign bit for one that is
  sign-extended, and refuses the proper negative ones. `PageTable` has `sext` as it
  is, and the addresses of `memory` include such ones.
- `cs_regfile.hpp:60` asserts that the number of a CSR is a subscript of its array.
  The number is an I-immediate, which `decoder.hpp:28` sign-extends
  (`ImmediatesInPlace`): from 0x800 on it is near 2^64. `Traps` leaves out the
  accesses this makes undefined.
- `misa.hpp:24` speaks of the base ISA, and `executor.cpp:65` of its operations on
  words. `srlw` shifts the whole register and truncates after
  (`executor.cpp:119`), so a negative word brings down ones where zeros are due.
  `WordArithmetic` says, with "exactly if", for which operands the right shifts
  are right.
- `jalr`, one of its "control transfer instructions" (`executor.cpp:250`), writes
  `rd` before it reads `rs1` (`executor.cpp:261`), so `auipc ra; jalr ra, ra`, which
  assemblers make of `call`, jumps astray. `CallsReturn` is about calls through any
  other register.

Observations that contradict no text of the repository, or that the shipped
simulator does not meet, modelled as the code has them:

- The cache is looked up by pc alone (`hart.cpp:98`): a user block at virtual
  address 0 would be replayed in place of the handler at physical address 0
  (`main.cpp:161-162`). The programs of `MC_Hart` leave page 0 unmapped, and
  `HandlerExits` makes that an assumption of the theorems.
- A program that overwrites code it has executed is replayed as it was before,
  until its block is evicted; `run_single` executes the new code.
- `mret` to MPP = 2 leads to a privilege level that does not exist; `Traps` has
  four levels for that reason, and `TrapNeverLowers` speaks of the other three:
  a delegated exception takes level 2 down to supervisor mode.
- A leaf of a higher level resolves to the first of the pages it spans.
- The decoder's switch does not know which mask a word was cut with: words that
  encode nothing can be found under a shorter mask. `OthersRefused` names all
  of the instructions this happens to: `ecall` and the shifts by an immediate.
- A segment that ends at a page boundary gets one page more, and the flags of
  that page win over those of a segment that starts there.
- CSR instructions write one copy of the status register and translation reads
  the other: SUM set in `sstatus` permits nothing until a trap copies it.
- A reserved mode written to `satp` by a CSR instruction reaches
  `std::unreachable`; `SATP::set_mode` would have refused it.
- `set_misa` is given the numbers of bits where it takes bits (`hart.cpp:21`).
- `satp.hpp` says Sv57 is not implemented; it is.

## What is proved

`LRU_proofs`, for every set of keys, pages and nodes and every capacity above
0 (`CapacityAssumption`; `Hart` uses 64): `TypeCorrect`, `AlwaysConsistent`,
`AlwaysBounded`. None of the three is inductive alone. That a freed node is no
longer in the table needs the agreement of list and table, that popping the last
node leaves them in agreement needs the list to be without repetition, and that
there is a last node when the table is full needs their sizes to be equal. The
invariant `IInv` is their conjunction with the finiteness of the table, without
which its size has no meaning. `SpliceLemma`, `FrontLemma` and `ConsLemma` say
what the three list operations keep; `RoomLemma` is the middle of `update`,
when the old node is gone and the new one not there yet.

From the same assumption, for `LRUHistory`: `AlwaysInOrderOfUse` and
`RefinesLRUSpec`, the refinement of the cache without list, table and eviction.
The invariant `HInv` adds to `IInv` that the list is in the order of last use and
that a key which is not in the table, but was used, has had `Capacity` other keys
used since. The argument: the keys used since a cached key are those before
it in the list, hence fewer than `Capacity`; the key evicted is the last of a
full list, and all the others were used since.

`Hart_proofs`, for every number of addresses, every image in memory and every
cache: `TypeCorrect` (the place in a replayed block never runs past its end),
and `ContractKept`, that the block `run` adds is not in the cache yet, with any
handler and any traps on the way. From the further assumption that the handler is
not mapped for the user and has no branch, jump, return, denied access or system call
of unknown number and does not store one into itself (`HandlerExits`, checked by TLC on the images of `MC_Hart`):
`UserCodeOnly`, `WholeBlocks`, `StepsAsRunSingle` and `RefinesRunSingle`: that a
cached block is what user mode fetched from its addresses, that blocks are replayed
whole and in order, that each step is one of `run_single` as long as memory holds
what was fetched, and that programs which write code only before it is executed
run as `run_single` runs them. The first three are about programs that store
wherever they like. There are three invariants, each resting on the one before.
`TInv`: types, and that the key being built is absent. `UInv`: in user mode
the block under construction is what user mode found from `bb_pc` up to the pc,
and nothing is cached for the handler; so machine mode finds nothing in the cache,
builds the handler's block and ends the run before that block is added. `RInv`: only
the last instruction of a cached block may send control elsewhere, so while a block
is replayed the pc is the address of the instruction replayed next, one that
was fetched there. If what was
fetched at an address is what memory holds there (`Fresh`, which is invariant
under `FreshSpec`), that instruction is the one `run_single` fetches.

`Traps_proofs`, for every set of addresses and every set of values software
writes (`TrapsAssumption`: such values fit the register): `TypeCorrect`,
`MachineReturnsWork`, `SupervisorTrapsKept`, `CopiesStayEqual`, `NeverLowers`.
The last is about single steps and needs no invariant. For the others the invariant
ties the history to the registers: while a machine trap is to be returned from,
`mepc` and MPP name where it came from, and the two copies agree on the
bits of `kMask`. The agreement is what makes the step `sret` go through, which
writes the MPP kept in `sstatus` back over the one in `mstatus`; agreement in
turn needs that every setter writes both copies, and that `kMask` covers MPP and
SPP.

`Decoder_proofs`: `TypeCorrect`; `ImmediatesRight`, for all 2^32 words;
`DecodesRight`, for every table of encodings whose labels differ and in which no
label can be met on a detour (`TableAssumption`, checked by TLC on the real
table). The invariant of the search, `StillAhead`, says that as long as nothing
is found, the mask of the instruction the word encodes has not been tried.
`OthersAreRefused` adds what happens to the words that encode nothing, for every
table in which, but for the instructions named in `Greedy`, a mask that lets the
match of an instruction through looks at all that the instruction fixes
(`GreedyAreAll`, checked by TLC on the real table).

`RV64I_proofs`: `TypeCorrect`, for every program; `WordsInDoubleWords`, which
compares the instructions on words, made of 64-bit operations and a truncation,
with those on 32 bits for all operands: they agree exactly if the bits a right
shift brings down from the upper half are the ones due. Eight theorems say
that the programs of `Idioms` compute what they are written for, whatever
their operands: `WordsRight`, `BranchesRight`, `IdentitiesHold`, `WideRight`,
`ConstantsRight`, `CallsRight`, `CopiesRight` and `LoopsRight`. Their hypotheses
(`WordPrograms` to `LoopPrograms`) say what the programs are and nothing of
their operands; TLC checks that those of `MC_RV64I` are of this kind.
Two hypotheses are narrower than one would guess. The offset of a call by
way of a register is one that two immediates can make, which the last ones below
2^31 are not; and a function does not overlap its caller. The arguments:

- programs without jumps: the registers are what the first n instructions make
  of those at the start (`StraightOn`). What is left is about words, one bit
  position at a time;
- sums and differences: by induction on the position, the carry (or borrow) into
  it is there exactly if what is below it overflows. For 128 bits that makes
  `sltu` of the lower halves the carry into the upper ones;
- constants: `lui` rounds up exactly if bit 11 is set, and `addiw` then subtracts;
- calls (`CallOn`, `NearOn`): the link is the address behind the jump as long as
  the program is in the function;
- copies (`CopyOn`): a load after a store, described bit by bit by the byte
  each bit lies in;
- the loop (`CountOn`): what is counted and what is still set make up the bits at
  the start, and each round takes one away.

`Loader_proofs`, for every depth of the tables, every number of entries, every
file that fits (`LoaderAssumption`: `Fits`, and no segment has more data than
memory) and every stack: `TypeCorrect`, `AlwaysATree`, `NoPlaceTwice`,
`ProgramLoaded`. That tables stay below the data is counted: mapping a page takes
at most `Levels - 1` tables. That they are a tree needs levels:
`Levelled` gives every table one, and entries point to tables of the level
below, so no leaf is taken for a pointer and no table is reached twice. For the
data, pages are mapped in ascending order and so are their places, which makes
the pages of a segment consecutive in physical memory: a copy touches the
place of an address exactly if the segment covers that address.
`WalkFindsPages` has one hypothesis more: no page of the program has bits above
those the tables translate (`PagesTranslated`, checked by TLC on the files of
`MC_Loader`; the loader does not check it, and such a page would share
its entries with another). Its invariant gives each table, besides its level, the
number that the addresses it translates have in common. No two tables have the
same level and number, an entry leads to the table of its number or to the
place of its page (`Numbered`), and no table on the way to a page that is
mapped lacks the entry (`Complete`, `OnTheWay`). From these the walk of the hart
is followed down, level by level.

`Memory_proofs`, for every depth, every size of a table, all contents of memory
and every sequence of accesses and privilege states (`MemoryAssumption`: page
numbers lie in memory, which the code does not check): `TypeCorrect`,
`AlwaysConfined` and `StoresAreDirty`. The difficulty is that translation reads
what accesses write. The invariant compares memory with what machine mode left
of it: as long as the tables lie apart from the pages leaves grant (`Separate`,
without which a program could write its own tables, and which both properties
name), nothing has changed outside those pages but accessed and dirty bits
(`Kept`), so every walk goes through the same entries as it would have then
(`WalkAsGranted`), and the leaf it marks is a leaf machine mode wrote (`Dirty`).
What stores may reach grows when the first one comes that is not kept off pages
with bit U (`kept_off`); it never shrinks, so the tables that lie apart from it now
did so before (`GrantedKept`).

`PageTable_proofs` has what both need to know of the walk. A recursive function
is reasoned about by its equation, which holds if such a function exists; the
existence is proved for `span`, `walk` and `TablesAt` by building the function level
by level. Induction is a least counterexample in a set of naturals.

Only checked by TLC: liveness (`TrapEndsRun`), which is out of the prover's reach,
and that the hypotheses above hold of the tables, files, programs and images of
the instances. The five properties that the code violates are of no use to a
prover.

## What is not modelled

- Reading and validating ELF files: done by ELFIO. The loader starts from
  segments.
- Physical addresses beyond 4GB: the code does not check them, and what lies
  there has no model (`InRange`). Likewise programs for which there is not
  enough room (`Fits`).
- A change of `satp` while blocks are cached: `Hart` has one translation. User
  mode cannot write `satp`, and the shipped handler does not.
- The data of the `read` and `write` system calls; their outcomes are in `HartExec`.
- General registers inside CSR instructions (`csrrs` with `rd = rs1`): `Traps`
  gives the value written, `RV64I` has no CSRs.
- Fields of the status registers the code keeps and never reads (FS, VS, XS and
  the like), `misa`, the names of causes.
- Command line, timing, logging, disassembly, the mapping of physical memory by
  `mmap`, unit tests.

## Plan

The order was: the cache first, since the loop depends on it; the loop, the
heart of the program; exceptions; memory; the loader, whose tables the walk of
memory must find; then the decoder and the arithmetic; and the proofs in the same
order. What is left:

1. A composition of the loop with memory: a write of `satp` under a warm cache,
   with a handler that runs in supervisor mode.
2. The buffers of the `read` and `write` system calls, across pages.
3. That what `decode` finds for an encoding is what `RV64I` executes: `Instruction`
   of the one as the result of the other.
