------------------------------- MODULE Loader -------------------------------
(***************************************************************************)
(* initialize_hart (src/main.cpp): lays a program out in physical memory   *)
(* and builds the page tables that map its pages and the stack, with the   *)
(* list of pages ELFLoader gives (src/elf_loader.cpp).  The hart is in     *)
(* machine mode, so every access made here is physical.                    *)
(*                                                                         *)
(* ELF files are taken as already parsed and validated.                    *)
(***************************************************************************)
EXTENDS PageTable, FiniteSets, FiniteSetsExt, Sequences

CONSTANTS
  Frames,      \* kPhysMemAmount in pages
  Elfs,        \* the files: sequences of segments
  StackTop,    \* the page get_initial_sp gives
  StackPages,  \* stack_pages_count
  Byte(_, _),  \* Byte(k, j): the j-th word of the data of segment k
  Trap         \* the word the default exception handler starts with

Address == 0 .. Frames * Slots - 1

page_of(va) == va \div Slots

kRootPageTablePPN == 1

kTrapBaseAddress == 0

first_data_ppn == Frames \div 4

-----------------------------------------------------------------------------
(* Which pages there are and with what flags. *)

\* The last page is the one of the address after the segment.
SegmentPages(s) == page_of(s.va) .. page_of(s.va + s.memory_size)

Loadable(elf) == {k \in DOMAIN elf : elf[k].loadable}

\* pages.emplace: the first segment to name a page gives it its flags.
get_loadable_pages(elf) ==
  [page \in UNION {SegmentPages(elf[k]) : k \in Loadable(elf)} |->
     elf[Min({k \in Loadable(elf) : page \in SegmentPages(elf[k])})].flags]

\* The stack: one page more than asked for, where no segment is.
loadable_pages_to_flags(elf) ==
  LET pages == get_loadable_pages(elf) IN
    [page \in DOMAIN pages \cup (StackTop - StackPages .. StackTop) |->
       IF page \in DOMAIN pages THEN pages[page] ELSE {"R", "W"}]

Pages(elf) == DOMAIN loadable_pages_to_flags(elf)

\* No file asks for more tables or more pages of data than there is room for:
\* the code does not check.
Fits(elf) ==
  LET n == Cardinality(Pages(elf)) IN
    1 + n * (Levels - 1) < first_data_ppn /\ first_data_ppn + n <= Frames

\* An ELFIO::segment: what the loader asks of it.
Segment == [va : Nat, memory_size : Nat, file_size : Nat,
            flags : SUBSET {"R", "W", "E"}, loadable : BOOLEAN]

ASSUME LoaderAssumption ==
  /\ Frames \in Nat
  /\ StackTop \in Nat /\ StackPages \in 1 .. StackTop
  /\ \A elf \in Elfs : elf \in Seq(Segment) /\ Fits(elf)
  /\ \A elf \in Elfs : \A k \in DOMAIN elf :
       /\ elf[k].file_size <= elf[k].memory_size
       /\ \A j \in 0 .. elf[k].file_size - 1 : Byte(k, j) \in Word
  /\ Trap \in Word

VARIABLES
  elf,        \* the file being loaded
  mem,        \* physical memory
  ctl,        \* "pages", "descend", "copy" or "done"
  todo,       \* the pages not mapped yet, with their flags
  page, i, a, \* the page being mapped, the level and the table to go on with
  table_ppn,  \* the next page for a table
  data_ppn,   \* the next page for code and data
  va_to_pa,   \* the physical page of each page mapped
  seg         \* the segment copied next

vars == <<elf, mem, ctl, todo, page, i, a, table_ppn, data_ppn, va_to_pa, seg>>

-----------------------------------------------------------------------------
kPointerToNextLevelPTE == [zero EXCEPT !.V = TRUE, !.U = TRUE]

Init ==
  /\ elf \in Elfs
  /\ mem = [p \in Address |-> zero]
  /\ ctl = "pages"
  /\ todo = loadable_pages_to_flags(elf)
  /\ page = 0 /\ i = 0 /\ a = kRootPageTablePPN
  /\ table_ppn = kRootPageTablePPN + 1
  /\ data_ppn = first_data_ppn
  /\ va_to_pa = << >>
  /\ seg = 1

\* Mutant of NextPage: the pages come in another order.
NextPageFromTop ==
  /\ ctl = "pages" /\ DOMAIN todo # {}
  /\ page' = Max(DOMAIN todo)
  /\ i' = Levels - 1
  /\ a' = kRootPageTablePPN
  /\ ctl' = "descend"
  /\ UNCHANGED <<elf, mem, todo, table_ppn, data_ppn, va_to_pa, seg>>

\* The map is ordered: the lowest page is next, and the walk starts at the root.
NextPage ==
  /\ ctl = "pages" /\ DOMAIN todo # {}
  /\ page' = Min(DOMAIN todo)
  /\ i' = Levels - 1
  /\ a' = kRootPageTablePPN
  /\ ctl' = "descend"
  /\ UNCHANGED <<elf, mem, todo, table_ppn, data_ppn, va_to_pa, seg>>

\* Mutant of entry: a page number where an address is due.
EntryOfNumber == a * Slots + get_vpn(page, i)

entry == a * Slots + get_vpn(page * Slots, i)

\* The table of the next level exists.
Follow ==
  /\ ctl = "descend" /\ i > 0 /\ mem[entry].V
  /\ a' = mem[entry].ppn
  /\ i' = i - 1
  /\ UNCHANGED <<elf, mem, ctl, todo, page, table_ppn, data_ppn, va_to_pa, seg>>

\* Mutant of AddTable: the walk goes on in the page after the new table.
GoesPastTable ==
  /\ ctl = "descend" /\ i > 0 /\ ~mem[entry].V
  /\ mem' = [mem EXCEPT ![entry] = [kPointerToNextLevelPTE EXCEPT !.ppn = table_ppn]]
  /\ table_ppn' = table_ppn + 1
  /\ a' = table_ppn'
  /\ i' = i - 1
  /\ UNCHANGED <<elf, ctl, todo, page, data_ppn, va_to_pa, seg>>

\* Mutant of AddTable: the entry points to the page after the new table.
PointsPastTable ==
  /\ ctl = "descend" /\ i > 0 /\ ~mem[entry].V
  /\ table_ppn' = table_ppn + 1
  /\ mem' = [mem EXCEPT ![entry] = [kPointerToNextLevelPTE EXCEPT !.ppn = table_ppn']]
  /\ a' = table_ppn
  /\ i' = i - 1
  /\ UNCHANGED <<elf, ctl, todo, page, data_ppn, va_to_pa, seg>>

\* The table of the next level is allocated.
AddTable ==
  /\ ctl = "descend" /\ i > 0 /\ ~mem[entry].V
  /\ mem' = [mem EXCEPT ![entry] = [kPointerToNextLevelPTE EXCEPT !.ppn = table_ppn]]
  /\ a' = table_ppn
  /\ table_ppn' = table_ppn + 1
  /\ i' = i - 1
  /\ UNCHANGED <<elf, ctl, todo, page, data_ppn, va_to_pa, seg>>

\* The leaf of the page is written and the page is given its place.
AddLeaf ==
  /\ ctl = "descend" /\ i = 0
  /\ mem' = [mem EXCEPT ![entry] =
       [kPointerToNextLevelPTE EXCEPT !.R = "R" \in todo[page], !.W = "W" \in todo[page],
                                      !.E = "E" \in todo[page], !.ppn = data_ppn]]
  /\ va_to_pa' = [p \in DOMAIN va_to_pa \cup {page} |->
                    IF p = page THEN data_ppn ELSE va_to_pa[p]]
  /\ data_ppn' = data_ppn + 1
  /\ todo' = [p \in DOMAIN todo \ {page} |-> todo[p]]
  /\ ctl' = IF todo' = << >> THEN "copy" ELSE "pages"
  /\ UNCHANGED <<elf, page, i, a, table_ppn, seg>>

\* The contents of a segment go to consecutive physical addresses, from the
\* place of its first page on.
CopySegment ==
  /\ ctl = "copy" /\ seg <= Len(elf)
  /\ LET s == elf[seg]
         pa == va_to_pa[page_of(s.va)] * Slots + get_page_offset(s.va)
     IN  mem' = IF s.loadable
                THEN [p \in Address |-> IF p \in pa .. pa + s.file_size - 1
                                        THEN Byte(seg, p - pa) ELSE mem[p]]
                ELSE mem
  /\ seg' = seg + 1
  /\ UNCHANGED <<elf, ctl, todo, page, i, a, table_ppn, data_ppn, va_to_pa>>

SetHandler ==
  /\ ctl = "copy" /\ seg > Len(elf)
  /\ mem' = [mem EXCEPT ![kTrapBaseAddress] = Trap]
  /\ ctl' = "done"
  /\ UNCHANGED <<elf, todo, page, i, a, table_ppn, data_ppn, va_to_pa, seg>>

Next ==
  NextPage \/ Follow \/ AddTable \/ AddLeaf \/ CopySegment \/ SetHandler

Spec == Init /\ [][Next]_vars

-----------------------------------------------------------------------------
(* Properties. *)

TypeOK ==
  /\ elf \in Elfs
  /\ mem \in [Address -> Word]
  /\ ctl \in {"pages", "descend", "copy", "done"}
  /\ DOMAIN todo \subseteq Pages(elf)
  /\ page \in {0} \cup Pages(elf)
  /\ i \in 0 .. Levels - 1
  /\ a \in kRootPageTablePPN .. table_ppn - 1
  /\ table_ppn \in kRootPageTablePPN + 1 .. first_data_ppn
  /\ data_ppn \in first_data_ppn .. Frames
  /\ va_to_pa \in [Pages(elf) \ DOMAIN todo -> first_data_ppn .. data_ppn - 1]
  /\ seg \in 1 .. Len(elf) + 1

\* While the tables are being built they are a tree: every table allocated is
\* pointed to by one entry, of the tables allocated before it, and what has
\* not been allocated is still zero.
TablesAreATree ==
  LET Entries == kRootPageTablePPN * Slots .. table_ppn * Slots - 1 IN
    /\ \A f \in kRootPageTablePPN + 1 .. table_ppn - 1 :
         \E p \in Entries :
           /\ page_of(p) < f
           /\ {q \in Entries : mem[q].V /\ mem[q].ppn = f} = {p}
    /\ \A p \in table_ppn * Slots .. first_data_ppn * Slots - 1 : mem[p] = zero

FlagsOf(pte) ==
  {f \in {"R", "W", "E"} : \/ f = "R" /\ pte.R
                           \/ f = "W" /\ pte.W
                           \/ f = "E" /\ pte.E}

\* Flags an entry can have: none makes it a pointer, W alone is reserved.
Usable(flags) == flags # {} /\ ("W" \in flags => "R" \in flags)

\* At every moment of the construction the walk of the hart through the tables
\* finds, for each page mapped so far, its own place with the flags asked for,
\* and nothing for the other addresses; copying the program disturbs no table.
TablesAgree ==
  LET flags_of == loadable_pages_to_flags(elf) IN
  \A p \in 0 .. page_of(Width) - 1 :
    LET leaf == walk(mem, kRootPageTablePPN, p * Slots)
        flags == flags_of[p]
    IN  IF p \in DOMAIN va_to_pa /\ Usable(flags)
        THEN /\ leaf.level = 0
             /\ mem[leaf.at].ppn = va_to_pa[p]
             /\ FlagsOf(mem[leaf.at]) = flags
        ELSE leaf = NoLeaf

\* No page asked for has bits above those the tables translate.
PagesTranslated == \A e \in Elfs : Pages(e) \subseteq 0 .. page_of(Width) - 1

\* The segments whose data covers the address va.
Covering(va) ==
  {k \in Loadable(elf) : va \in elf[k].va .. elf[k].va + elf[k].file_size - 1}

\* When the program starts, every address of a page it has shows the data of
\* the last segment that covers it, and zero where none does: the pages of a
\* segment lie one after the other in physical memory, no two pages share a
\* place, and no copy runs into a table or the handler.
ProgramInPlace ==
  ctl = "done" =>
    /\ \A p \in DOMAIN va_to_pa, o \in 0 .. Slots - 1 :
         LET va == p * Slots + o IN
           mem[va_to_pa[p] * Slots + o] =
             IF Covering(va) = {} THEN zero
             ELSE LET k == Max(Covering(va)) IN Byte(k, va - elf[k].va)
    /\ mem[kTrapBaseAddress] = Trap
=============================================================================
