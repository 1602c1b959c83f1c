------------------------------- MODULE Memory -------------------------------
(***************************************************************************)
(* Loads, stores and fetches (include/yarvs/memory/memory.hpp): physical   *)
(* memory with the page tables in it, address translation with its checks  *)
(* and its accessed and dirty bits, for any sequence of accesses in any    *)
(* order of privilege levels.  The privilege state belongs to the hart,    *)
(* which changes it by traps, returns and CSR instructions (module Traps). *)
(* The root table and the mode of satp are the ones main.cpp sets.         *)
(***************************************************************************)
EXTENDS PageTable

CONSTANTS
  Frames,        \* pages of physical memory
  Images,        \* initial contents of memory
  Contexts,      \* privilege states the hart gets into
  Stored,        \* words the programs store
  MachineStores  \* <<address, word>> pairs machine mode stores

Address == 0 .. Frames * Slots - 1

U == 0
S == 1
M == 3

\* priv_level_ and the fields of mstatus that memory accesses consult.
Context == [priv : {U, S, M}, mpp : {U, S, M}, mprv : BOOLEAN, sum : BOOLEAN, mxr : BOOLEAN]

root == 1

\* Every page number a walk can meet lies in physical memory; the code has no
\* check and would access beyond the mapping.
InRange(m) == \A p \in Address : m[p].V => m[p].ppn < Frames

ASSUME MemoryAssumption ==
  /\ Frames \in Nat /\ root < Frames
  /\ \A m \in Images : m \in [Address -> Word] /\ InRange(m)
  /\ Contexts \subseteq Context
  /\ Stored \subseteq Word /\ MachineStores \subseteq Address \X Word
  /\ \A w \in Stored \cup {s[2] : s \in MachineStores} : w.ppn < Frames

VARIABLES
  mem,      \* physical_mem_
  ctx,      \* what the hart's privilege state is
  granted,  \* history: memory as the last store in machine mode left it
  written,  \* history: the pages stores have been translated to since then
  kept_off  \* history: whether each of these stores was kept off pages with bit U

vars == <<mem, ctx, granted, written, kept_off>>

-----------------------------------------------------------------------------
(* Translation. *)

\* CSRegFile::is_satp_active
Translated(c) == (IF c.mprv THEN c.mpp ELSE c.priv) # M

\* The kind of access is allowed by the leaf entry.
Grants(pte, kind, mxr) ==
  \/ kind = "read" /\ (pte.R \/ (mxr /\ pte.E))
  \/ kind = "write" /\ pte.W
  \/ kind = "execute" /\ pte.E

\* Supervisor mode without SUM is kept off the pages with bit U.
OffUserPages(c) == c.priv = S /\ ~c.sum

\* Mutant of Succeeds: SUM is not asked for.
SucceedsWithoutSum(m, c, kind, va) ==
  /\ va = sext(va)
  /\ LET leaf == walk(m, root, va)
         pte == m[leaf.at]
     IN  leaf # NoLeaf /\ Grants(pte, kind, c.mxr) /\ ~misaligned(pte, leaf.level)

\* translate_address finds a physical address.
Succeeds(m, c, kind, va) ==
  /\ va = sext(va)
  /\ LET leaf == walk(m, root, va)
         pte == m[leaf.at]
     IN  /\ leaf # NoLeaf
         /\ Grants(pte, kind, c.mxr)
         /\ ~(pte.U /\ OffUserPages(c))
         /\ ~misaligned(pte, leaf.level)

\* Mutant of Mark: a write sets the accessed bit alone.
MarkAccessed(m, kind, va) ==
  [m EXCEPT ![walk(m, root, va).at].A = TRUE]

\* The accessed bit of the leaf is set, and the dirty bit too by a write.
Mark(m, kind, va) ==
  LET at == walk(m, root, va).at IN
    [m EXCEPT ![at].A = TRUE, ![at].D = @ \/ kind = "write"]

Physical(m, va) == result(m[walk(m, root, va).at], va)

\* A store that starts in the last byte of the word pa: of that word it changes
\* reserved bits, of the next one all the others.  Nothing asks whether the next
\* word is in the same page.
StoreAcross(m, pa, value) ==
  [m EXCEPT ![pa].reserved = value.reserved,
            ![pa + 1] = [value EXCEPT !.reserved = m[pa + 1].reserved]]

-----------------------------------------------------------------------------
\* The history a store in machine mode leaves: it may change any table.
Regrant == granted' = mem' /\ written' = {} /\ kept_off' = {}

\* load and host_ptr, or a fetch.  What they return is not modelled; a fault
\* changes nothing here.
Access(kind, va) ==
  /\ Translated(ctx) /\ Succeeds(mem, ctx, kind, va)
  /\ mem' = Mark(mem, kind, va)
  /\ UNCHANGED <<ctx, granted, written, kept_off>>

load(va) == Access("read", va)

fetch(va) == Access("execute", va)

store(va, value) ==
  /\ Translated(ctx) /\ Succeeds(mem, ctx, "write", va)
  /\ LET pa == Physical(mem, va)
         marked == Mark(mem, "write", va)
     IN  /\ \/ mem' = [marked EXCEPT ![pa] = value]
            \/ pa + 1 \in Address /\ mem' = StoreAcross(marked, pa, value)
         /\ written' = written \cup {pa \div Slots}
         /\ kept_off' = kept_off \cup {OffUserPages(ctx)}
  /\ UNCHANGED <<ctx, granted>>

\* Without translation the address is the physical address.
PhysicalStore(pa, value) ==
  /\ ~Translated(ctx)
  /\ mem' = [mem EXCEPT ![pa] = value]
  /\ Regrant
  /\ UNCHANGED ctx

\* The hart traps, returns or writes mstatus.
Switch == ctx' \in Contexts /\ UNCHANGED <<mem, granted, written, kept_off>>

Init ==
  /\ mem \in Images
  /\ ctx \in Contexts
  /\ granted = mem
  /\ written = {}
  /\ kept_off = {}

Next ==
  \/ \E va \in Virtual : load(va) \/ fetch(va)
  \/ \E va \in Virtual, value \in Stored : store(va, value)
  \/ \E s \in MachineStores : PhysicalStore(s[1], s[2])
  \/ Switch

Spec == Init /\ [][Next]_vars

-----------------------------------------------------------------------------
(* Properties. *)

TypeOK ==
  /\ mem \in [Address -> Word] /\ granted \in [Address -> Word]
  /\ InRange(mem)
  /\ ctx \in Contexts
  /\ written \subseteq 0 .. Frames - 1
  /\ kept_off \subseteq BOOLEAN

\* The leaf entries of the tables in m, and the pages they map writable.
Leaves(m) ==
  LET found == {walk(m, root, page * Slots) : page \in 0 .. Width \div Slots - 1} IN
    {m[leaf.at] : leaf \in found \ {NoLeaf}}

Writable(m) == {pte.ppn : pte \in {l \in Leaves(m) : l.W}}

\* The pages that hold the tables of m: the root, and depth by depth below it
\* the pages an entry points to.
TablesAt(m) ==
  LET below[d \in 0 .. Levels - 1] ==
        IF d = 0 THEN {root}
        ELSE {m[at].ppn : at \in {p \in Address : p \div Slots \in below[d - 1]
                                    /\ m[p].V /\ is_pointer_to_next_level_pte(m[p])}}
  IN  below

Tables(m) == UNION {TablesAt(m)[d] : d \in 0 .. Levels - 1}

Unmarked(w) == [w EXCEPT !.A = FALSE, !.D = FALSE]

\* As long as the tables are not among these pages, the others keep what
\* machine mode left in them, but for the accessed and dirty bits translation
\* itself sets.
KeptOutside(pages) ==
  pages \cap Tables(granted) = {} =>
    \A p \in Address : p \div Slots \notin pages => Unmarked(mem[p]) = Unmarked(granted[p])

\* What the stores since then could be translated to: the pages mapped
\* writable, without those with bit U if all the stores were kept off these.
Open == {pte.ppn : pte \in {l \in Leaves(granted) :
                              l.W /\ \E off \in kept_off : off => ~l.U}}

\* A store translates its first byte only, so it can run over into the next
\* page of physical memory.
Reach == UNION {{f, f + 1} : f \in Open}

\* Below machine mode no sequence of accesses gets further than translation
\* lets it, and one page beyond: the tables are as machine mode left them, and
\* so is every page that is neither mapped writable nor follows one that is.
\* Pages with bit U count only when something was stored from user mode, with
\* SUM, or under MPRV.  That user mode also gets at the pages without the bit,
\* against pte.hpp:36, is the matter of UserPagesOnly.
Confined == KeptOutside(Reach)

\* The bit U "indicates whether the page is accessible to user mode": what user
\* mode loads, stores or fetches lies in pages that have it.
UserPagesOnly ==
  \A kind \in {"read", "write", "execute"}, va \in Virtual :
    ctx.priv = U /\ Succeeds(mem, ctx, kind, va) => mem[walk(mem, root, va).at].U

\* The bit W of an entry "indicates whether the page is writable": pages that
\* are not mapped writable keep what machine mode left in them.
WritableOnly == KeptOutside(Writable(granted))

\* The dirty bits tell the pages stores are translated to: however many
\* accesses of whatever kind come between, the page is dirty and accessed in an
\* entry that lets it be written, and no other entry has become dirty.
DirtyRecorded ==
  Reach \cap Tables(granted) = {} =>
    /\ \A f \in written : \E l \in Leaves(mem) : l.ppn = f /\ l.W /\ l.D /\ l.A
    /\ \A l \in Leaves(mem) : l.D =>
         l.ppn \in written \/ \E g \in Leaves(granted) : g.D /\ Unmarked(g) = Unmarked(l)
=============================================================================
