---------------------------- MODULE Hart_proofs ----------------------------
(***************************************************************************)
(* Hart::run keeps its types and the contract of its cache in every memory *)
(* image.  When the exception handler is one that ends the run it caches   *)
(* nothing but the code of the user program and replays it in order, and   *)
(* for a program that writes code only before executing it run is          *)
(* run_single.                                                             *)
(***************************************************************************)
EXTENDS Hart, TLAPS

-----------------------------------------------------------------------------
(* Addresses wrap at AddrSpace. *)

LEMMA ModUnique ==
  ASSUME NEW n \in Nat \ {0}, NEW q \in Nat, NEW r \in 0 .. n - 1
  PROVE  (n * q + r) % n = r
OBVIOUS

LEMMA ModParts ==
  ASSUME NEW n \in Nat \ {0}, NEW x \in Nat
  PROVE  x % n \in 0 .. n - 1 /\ x \div n \in Nat /\ x = n * (x \div n) + (x % n)
PROOF
<1>1. x % n \in 0 .. n - 1
  OBVIOUS
<1>2. x = n * (x \div n) + (x % n) /\ x \div n \in Nat
  OBVIOUS
<1>. QED BY <1>1, <1>2

LEMMA ModNext ==
  ASSUME NEW n \in Nat \ {0}, NEW x \in Nat
  PROVE  ((x % n) + 1) % n = (x + 1) % n
PROOF
<1> DEFINE q == x \div n
           r == x % n
<1>1. r \in 0 .. n - 1 /\ q \in Nat /\ x = n * q + r
  BY ModParts
<1> HIDE DEF q, r
<1>2. CASE r = n - 1
  <2>1. r + 1 = n * 1 + 0 /\ x + 1 = n * (q + 1) + 0
    BY <1>1, <1>2
  <2>2. (n * 1 + 0) % n = 0 /\ (n * (q + 1) + 0) % n = 0
    BY <1>1, ModUnique
  <2>. QED BY <2>1, <2>2 DEF r
<1>3. CASE r # n - 1
  <2>1. r + 1 \in 0 .. n - 1 /\ r + 1 = n * 0 + (r + 1) /\ x + 1 = n * q + (r + 1)
    BY <1>1, <1>3
  <2>2. (n * 0 + (r + 1)) % n = r + 1 /\ (n * q + (r + 1)) % n = r + 1
    BY <1>1, <2>1, ModUnique
  <2>. QED BY <2>1, <2>2 DEF r
<1>. QED BY <1>2, <1>3

LEMMA AddrFacts ==
  /\ \A x \in Nat : x % AddrSpace \in Addr
  /\ \A a \in Addr : a \in Nat /\ a % AddrSpace = a /\ next(a) \in Addr
PROOF
<1>1. \A x \in Nat : x % AddrSpace \in Addr
  BY ModParts, HartAssumption DEF Addr
<1>2. \A a \in Addr : a \in Nat /\ a = AddrSpace * 0 + a
  BY HartAssumption DEF Addr
<1>3. \A a \in Addr : a % AddrSpace = a
  BY <1>2, ModUnique, HartAssumption DEF Addr
<1>. QED BY <1>1, <1>2, <1>3 DEF next

-----------------------------------------------------------------------------
(* The cache of blocks.  LRU_proofs speaks of LRU; what run needs of it is   *)
(* restated here for the instance: a key leads to a listed node that carries *)
(* the key, and every cached block is one run can replay.                    *)

Length == 1 .. MaxBlock

CacheInv ==
  /\ Cache!TypeOK
  /\ \A k \in DOMAIN table :
       /\ \E j \in 1 .. Len(pages) : pages[j] = table[k]
       /\ entry[table[k]].key = k
  /\ \A n \in DOMAIN entry : Len(entry[n].page) \in Length

LEMMA PagesFacts ==
  ASSUME CacheInv
  PROVE  /\ Len(pages) \in Nat /\ DOMAIN pages = 1 .. Len(pages)
         /\ \A j \in 1 .. Len(pages) : pages[j] \in DOMAIN entry
BY DEF CacheInv, Cache!TypeOK

LEMMA HitKeeps ==
  ASSUME CacheInv, NEW k \in Addr, Cache!LookupHit(k)
  PROVE  /\ CacheInv' /\ UNCHANGED <<entry, table>>
         /\ ret' \in Cache!Pair /\ Len(ret'.page) \in Length
PROOF
<1>1. PICK i \in DOMAIN pages : pages' = Cache!Splice(pages, i)
  BY DEF Cache!LookupHit
<1>2. entry' = entry /\ table' = table /\ k \in DOMAIN table /\ ret' = entry[table[k]]
  BY DEF Cache!LookupHit
<1>3. ret' \in Cache!Pair /\ Len(ret'.page) \in Length
  BY <1>2 DEF CacheInv, Cache!TypeOK
<1>4. /\ pages' \in [1 .. Len(pages) -> DOMAIN entry]
      /\ pages'[1] = pages[i]
      /\ \A j \in 1 .. Len(pages) : j # i => \E m \in 1 .. Len(pages) : pages'[m] = pages[j]
  <2>1. /\ pages' = [j \in 1 .. Len(pages) |->
                      IF j = 1 THEN pages[i] ELSE IF j <= i THEN pages[j - 1] ELSE pages[j]]
        /\ i \in 1 .. Len(pages)
    BY <1>1, PagesFacts DEF Cache!Splice
  <2>2. \A j \in 1 .. Len(pages) : j < i => j + 1 \in 1 .. Len(pages) /\ pages'[j + 1] = pages[j]
    BY <2>1, PagesFacts
  <2>3. \A j \in 1 .. Len(pages) : j > i => pages'[j] = pages[j]
    BY <2>1, PagesFacts
  <2>4. pages' \in [1 .. Len(pages) -> DOMAIN entry] /\ pages'[1] = pages[i]
    BY <2>1, PagesFacts
  <2>5. 1 \in 1 .. Len(pages)
    BY <2>1, PagesFacts
  <2>6. ASSUME NEW j \in 1 .. Len(pages), j # i
        PROVE  \E m \in 1 .. Len(pages) : pages'[m] = pages[j]
    <3>1. CASE j < i
      BY <3>1, <2>2
    <3>2. CASE j > i
      BY <3>2, <2>3
    <3>. QED BY <3>1, <3>2, <2>1, <2>6, PagesFacts
  <2>. QED BY <2>4, <2>6
<1>5. pages' \in Seq(DOMAIN entry) /\ Len(pages') = Len(pages)
  BY <1>4, PagesFacts
<1>6. Cache!TypeOK'
  BY <1>2, <1>3, <1>5 DEF CacheInv, Cache!TypeOK
<1>7. \A j \in 1 .. Len(pages) : \E m \in 1 .. Len(pages') : pages'[m] = pages[j]
  BY <1>1, <1>4, <1>5, PagesFacts
<1>8. \A a \in DOMAIN table' :
        /\ \E m \in 1 .. Len(pages') : pages'[m] = table'[a]
        /\ entry'[table'[a]].key = a
  <2>1. SUFFICES ASSUME NEW a \in DOMAIN table
                 PROVE  /\ \E m \in 1 .. Len(pages') : pages'[m] = table[a]
                        /\ entry[table[a]].key = a
    BY <1>2
  <2>2. PICK j \in 1 .. Len(pages) : pages[j] = table[a]
    BY DEF CacheInv
  <2>. QED BY <1>7, <2>2 DEF CacheInv
<1>9. \A n \in DOMAIN entry' : Len(entry'[n].page) \in Length
  BY <1>2 DEF CacheInv
<1>10. CacheInv'
  BY <1>6, <1>8, <1>9 DEF CacheInv
<1>. QED BY <1>2, <1>3, <1>10

LEMMA UpdateKeeps ==
  ASSUME CacheInv, NEW k \in Addr, NEW p \in Blocks, Len(p) \in Length,
         Cache!Contract(k), Cache!update(k, p)
  PROVE  /\ CacheInv' /\ ret' = ret
         /\ DOMAIN table' \subseteq DOMAIN table \cup {k}
         /\ k \in DOMAIN table' /\ entry'[table'[k]].page = p
         /\ \A a \in DOMAIN table' : a # k => entry'[table'[a]] = entry[table[a]]
PROOF
<1> DEFINE P == Cache!RoomInPages
           T == Cache!RoomInTable
           R == Cache!Range(P)
<1>1. PICK n \in Node \ R :
        /\ pages' = Cache!Cons(n, P)
        /\ entry' = [m \in R \cup {n} |-> IF m = n THEN [key |-> k, page |-> p] ELSE entry[m]]
        /\ table' = Cache!Emplace(T, k, n)
        /\ ret' = ret
  BY DEF Cache!update
<1>2. /\ P \in Seq(DOMAIN entry)
      /\ R = {P[j] : j \in 1 .. Len(P)}
      /\ \A a \in DOMAIN T : a \in DOMAIN table /\ T[a] = table[a] /\ T[a] \in R
  <2>1. CASE ~Cache!is_full
    <3>1. P = pages /\ T = table
      BY <2>1 DEF Cache!RoomInPages, Cache!RoomInTable
    <3>. QED BY <3>1, PagesFacts DEF CacheInv, Cache!TypeOK, Cache!Range
  <2>2. CASE Cache!is_full
    <3> DEFINE v == pages[Len(pages)]
               vk == entry[v].key
    <3>1. P = SubSeq(pages, 1, Len(pages) - 1) /\ T = [x \in DOMAIN table \ {vk} |-> table[x]]
      BY <2>2 DEF Cache!RoomInPages, Cache!RoomInTable, Cache!Front, Cache!Last, Cache!Erase
    <3>2. \A a \in DOMAIN T : a \in DOMAIN table /\ T[a] = table[a] /\ table[a] # v
      BY <3>1 DEF CacheInv
    <3>3. CASE Len(pages) = 0
      <4>1. P = << >>
        BY <3>1, <3>3, PagesFacts
      <4>2. DOMAIN table = {}
        <5>1. 1 .. Len(pages) = {}
          BY <3>3
        <5>. QED BY <5>1 DEF CacheInv
      <4>. QED BY <3>2, <4>1, <4>2 DEF Cache!Range
    <3>4. CASE Len(pages) # 0
      <4>1. /\ Len(pages) - 1 \in Nat /\ Len(P) = Len(pages) - 1
            /\ P \in Seq(DOMAIN entry) /\ DOMAIN P = 1 .. Len(pages) - 1
            /\ \A j \in 1 .. Len(pages) - 1 : P[j] = pages[j]
        <5>1. P = [j \in 1 .. Len(pages) - 1 |-> pages[j]] /\ Len(pages) - 1 \in Nat
          BY <3>1, <3>4, PagesFacts
        <5>2. P \in [1 .. Len(pages) - 1 -> DOMAIN entry]
          BY <5>1, PagesFacts
        <5>. HIDE DEF P
        <5>. QED BY <5>1, <5>2
      <4>2. \A a \in DOMAIN T : \E j \in 1 .. Len(pages) - 1 : pages[j] = table[a]
        BY <3>2, <3>4, PagesFacts DEF CacheInv
      <4>3. R = {P[j] : j \in 1 .. Len(P)}
        BY <4>1 DEF Cache!Range
      <4>4. \A a \in DOMAIN T : T[a] \in R
        <5>1. SUFFICES ASSUME NEW a \in DOMAIN T PROVE table[a] \in R
          BY <3>2
        <5>2. PICK j \in 1 .. Len(pages) - 1 : pages[j] = table[a]
          BY <4>2
        <5>. HIDE DEF P, R
        <5>. QED BY <4>1, <4>3, <5>2
      <4>. HIDE DEF P, T, R
      <4>. QED BY <3>2, <4>1, <4>3, <4>4
    <3>. QED BY <3>3, <3>4
  <2>. QED BY <2>1, <2>2
<1>. HIDE DEF P, T, R
<1>3. /\ DOMAIN table' = DOMAIN T \cup {k}
      /\ table' = [a \in DOMAIN table' |-> table'[a]]
      /\ table'[k] = n
      /\ \A a \in DOMAIN T : table'[a] = table[a] /\ table[a] \in R /\ a # k
  BY <1>1, <1>2 DEF Cache!Emplace, Cache!Contract
<1>4. /\ DOMAIN entry' = R \cup {n}
      /\ entry'[n] = [key |-> k, page |-> p]
      /\ \A m \in R : entry'[m] = entry[m]
      /\ R \subseteq DOMAIN entry
  BY <1>1, <1>2
<1>5. /\ pages' \in Seq(DOMAIN entry') /\ Len(pages') = Len(P) + 1
      /\ pages'[1] = n /\ \A j \in 1 .. Len(P) : pages'[j + 1] = P[j]
  <2>1. pages' = <<n>> \o P
    BY <1>1 DEF Cache!Cons
  <2>2. Len(P) \in Nat /\ \A j \in 1 .. Len(P) : P[j] \in DOMAIN entry'
    BY <1>2, <1>4
  <2>. QED BY <1>2, <1>4, <2>1, <2>2
<1>6. \A m \in R \cup {n} : \E j \in 1 .. Len(pages') : pages'[j] = m
  <2>1. Len(P) \in Nat
    BY <1>2
  <2>2. \A m \in R : \E j \in 1 .. Len(P) : P[j] = m
    BY <1>2
  <2>3. \A j \in 1 .. Len(P) : j + 1 \in 1 .. Len(pages') /\ pages'[j + 1] = P[j]
    BY <1>5, <2>1
  <2>4. 1 \in 1 .. Len(pages')
    BY <1>5, <2>1
  <2>. QED BY <1>5, <2>2, <2>3, <2>4
<1>7. entry' \in [DOMAIN entry' -> Cache!Pair] /\ DOMAIN entry' \subseteq Node
  BY <1>1, <1>4 DEF CacheInv, Cache!TypeOK, Cache!Pair
<1>8. table' \in [DOMAIN table' -> DOMAIN entry'] /\ DOMAIN table' \subseteq Addr
  <2>1. \A a \in DOMAIN table' : table'[a] \in DOMAIN entry'
    BY <1>3, <1>4
  <2>2. DOMAIN T \subseteq Addr
    BY <1>2 DEF CacheInv, Cache!TypeOK
  <2>. QED BY <1>3, <2>1, <2>2
<1>9. Cache!TypeOK'
  BY <1>1, <1>5, <1>7, <1>8 DEF CacheInv, Cache!TypeOK
<1>10. \A a \in DOMAIN table' : entry'[table'[a]].key = a
  BY <1>2, <1>3, <1>4 DEF CacheInv
<1>11. \A m \in DOMAIN entry' : Len(entry'[m].page) \in Length
  BY <1>4 DEF CacheInv
<1>12. \A a \in DOMAIN table' : \E j \in 1 .. Len(pages') : pages'[j] = table'[a]
  BY <1>3, <1>6
<1>. QED BY <1>1, <1>2, <1>3, <1>4, <1>9, <1>10, <1>11, <1>12 DEF CacheInv

-----------------------------------------------------------------------------
(* What executing an instruction does to the architectural state.           *)

LEMMA InstructionFacts ==
  ASSUME NEW i \in Instructions
  PROVE  /\ i.op \in {"branch", "jump"} => i.to \in Addr
         /\ i.op = "store" => i.to \in Addr /\ i.new \in Plain /\ i.new.op # "none"
         /\ Plain \subseteq Instructions
BY DEF Instructions, Plain

LEMMA FetchedType ==
  ASSUME ArchTypeOK
  PROVE  Fetched(pc) \in Instructions
BY DEF ArchTypeOK, Fetched

\* A store changes one instruction, of a page of the program or, in machine mode
\* only, of physical memory.
LEMMA StoreFacts ==
  ASSUME ArchTypeOK, NEW i \in Instructions, exec_store(i)
  PROVE  /\ i.op = "store" /\ i.to \in Addr /\ i.new \in Instructions /\ i.new.op # "none"
         /\ \/ /\ code.virt[i.to].op # "none" /\ code'.phys = code.phys
               /\ \A a \in Addr : code'.virt[a] = IF a = i.to THEN i.new ELSE code.virt[a]
            \/ /\ priv = M /\ code'.virt = code.virt
               /\ \A a \in Addr : code'.phys[a] = IF a = i.to THEN i.new ELSE code.phys[a]
         /\ code' \in [virt : [Addr -> Instructions], phys : [Addr -> Instructions]]
PROOF
<1>1. i.op = "store" /\ i.to \in Addr /\ i.new \in Instructions /\ i.new.op # "none"
  BY InstructionFacts DEF exec_store
<1>2. CASE code.virt[i.to].op # "none" /\ code' = [code EXCEPT !.virt[i.to] = i.new]
  <2>1. code' = [virt |-> [code.virt EXCEPT ![i.to] = i.new], phys |-> code.phys]
    BY <1>2 DEF ArchTypeOK
  <2>2. /\ [code.virt EXCEPT ![i.to] = i.new] \in [Addr -> Instructions]
        /\ code.phys \in [Addr -> Instructions]
    BY <1>1 DEF ArchTypeOK
  <2>3. \A a \in Addr : code'.virt[a] = IF a = i.to THEN i.new ELSE code.virt[a]
    BY <1>1, <2>1 DEF ArchTypeOK
  <2>. QED BY <1>1, <1>2, <2>1, <2>2, <2>3
<1>3. CASE ~Translated /\ code' = [code EXCEPT !.phys[i.to] = i.new]
  <2>1. code' = [virt |-> code.virt, phys |-> [code.phys EXCEPT ![i.to] = i.new]]
    BY <1>3 DEF ArchTypeOK
  <2>2. /\ [code.phys EXCEPT ![i.to] = i.new] \in [Addr -> Instructions]
        /\ code.virt \in [Addr -> Instructions]
    BY <1>1 DEF ArchTypeOK
  <2>3. \A a \in Addr : code'.phys[a] = IF a = i.to THEN i.new ELSE code.phys[a]
    BY <1>1, <2>1 DEF ArchTypeOK
  <2>. QED BY <1>1, <1>3, <2>1, <2>2, <2>3 DEF Translated
<1>. QED BY <1>2, <1>3 DEF exec_store

\* The instructions that move on to the next one are all that are no terminator
\* except the fence.
LEMMA CompletesFacts ==
  ASSUME ArchTypeOK, NEW i \in Instructions, Completes(i)
  PROVE  /\ pc' \in Addr /\ priv' \in {priv, mpp, U} /\ mpp' \in {mpp, U}
         /\ run_' \in {run_, FALSE} /\ mepc' \in Addr
         /\ i.op \notin {"mret", "sret"} => priv' = priv
         /\ ~is_terminator(i) => run_' = run_ /\ (pc' = next(pc) \/ i.op = "fence")
         /\ i.op = "fence" => pc' = pc /\ UNCHANGED code
         /\ i.op \notin {"bad", "none"}
         /\ UNCHANGED code \/ exec_store(i)
PROOF
<1>1. \A a \in Addr : next(a) \in Addr
  BY AddrFacts
<1>2. /\ pc \in Addr /\ mepc \in Addr
  BY DEF ArchTypeOK
<1>3. CASE exec_alu(i) \/ exec_load_store(i) \/ exec_store(i)
  BY <1>1, <1>2, <1>3 DEF exec_alu, exec_load_store, exec_store, Continue, is_terminator, Completes
<1>4. CASE exec_csr(i) /\ UNCHANGED code
  BY <1>1, <1>2, <1>4 DEF exec_csr, Continue, is_terminator
<1>5. CASE exec_cond_branch(i) /\ UNCHANGED code
  BY <1>1, <1>2, <1>5, InstructionFacts DEF exec_cond_branch, Continue, is_terminator, terminators
<1>6. CASE exec_jal(i) /\ UNCHANGED code
  BY <1>1, <1>2, <1>6, InstructionFacts DEF exec_jal, Continue, is_terminator, terminators
<1>7. CASE exec_fence(i) /\ UNCHANGED code
  BY <1>1, <1>2, <1>7 DEF exec_fence, Continue
<1>8. CASE (exec_ecall(i) \/ exec_ebreak(i)) /\ UNCHANGED code
  BY <1>1, <1>2, <1>8 DEF exec_ecall, exec_ebreak, Continue, Stop, is_terminator, terminators
<1>9. CASE exec_mret(i) /\ UNCHANGED code
  BY <1>2, <1>9 DEF exec_mret, is_terminator, terminators
<1>10. CASE exec_sret(i) /\ UNCHANGED code
  BY <1>2, <1>10, HartAssumption DEF exec_sret, is_terminator, terminators
<1>. QED BY <1>3, <1>4, <1>5, <1>6, <1>7, <1>8, <1>9, <1>10 DEF Completes

LEMMA CompletesTypes ==
  ASSUME ArchTypeOK, NEW i \in Instructions, Completes(i), Executed
  PROVE  ArchTypeOK'
PROOF
<1>1. instr_count' \in 0 .. CountMod - 1
  <2>1. instr_count + 1 \in Nat /\ instr_count' = (instr_count + 1) % CountMod
    BY DEF ArchTypeOK, Executed
  <2>. QED BY <2>1, ModParts, HartAssumption
<1>2. code' \in [virt : [Addr -> Instructions], phys : [Addr -> Instructions]]
  BY CompletesFacts, StoreFacts DEF ArchTypeOK
<1>3. pc' \in Addr /\ priv' \in {U, M} /\ mpp' \in {U, M} /\ run_' \in BOOLEAN /\ mepc' \in Addr
  BY CompletesFacts DEF ArchTypeOK
<1>. QED BY <1>1, <1>2, <1>3 DEF ArchTypeOK

LEMMA TrapTypes ==
  ASSUME ArchTypeOK, RaiseException
  PROVE  ArchTypeOK'
BY HartAssumption DEF ArchTypeOK, RaiseException

-----------------------------------------------------------------------------
(* Types and the contract of the cache, in every memory image.              *)

\* The loop appends to a block that is not full, and replays within one.
LoopInv ==
  /\ ctl \in {"build", "update"} => Cache!Contract(bb_pc)
  /\ ctl = "update" => Len(bb) \in Length
  /\ ctl = "replay" => /\ ret \in Cache!Pair
                       /\ Len(ret.page) \in Length
                       /\ at \in 1 .. Len(ret.page)

TInv == TypeOK /\ CacheInv /\ LoopInv

LEMMA ReplayedType ==
  ASSUME TInv, ctl = "replay"
  PROVE  ret.page[at] \in Instructions
BY DEF TInv, LoopInv, Cache!Pair, Blocks

\* Only a turn of the inner loop in user mode adds to what has been fetched.
LEMMA FetchedGrows ==
  ASSUME TInv, [Next]_vars
  PROVE  /\ fetched' \in [Addr -> SUBSET Instructions]
         /\ \A a \in Addr : fetched[a] \subseteq fetched'[a]
         /\ Build /\ priv # M =>
              /\ fetched'[pc] = fetched[pc] \cup {code.virt[pc]}
              /\ \A a \in Addr : a # pc => fetched'[a] = fetched[a]
         /\ fetched' # fetched => Build /\ priv # M
PROOF
<1>1. fetched \in [Addr -> SUBSET Instructions] /\ pc \in Addr /\ Fetched(pc) \in Instructions
  BY FetchedType DEF TInv, TypeOK, ArchTypeOK
<1>2. CASE Build /\ priv # M
  <2>1. /\ fetched' = [fetched EXCEPT ![pc] = @ \cup {Fetched(pc)}]
        /\ Fetched(pc) = code.virt[pc]
    BY <1>2 DEF Build, Translated, Fetched
  <2>. HIDE DEF Build
  <2>. QED BY <1>1, <1>2, <2>1
<1>3. CASE ~(Build /\ priv # M)
  <2>1. fetched' = fetched
    BY <1>3 DEF Next, vars, Start, LookupHit, LookupMiss, Replay, BuildFetchFault, Build,
                BuildNoMemory, Update, Translated
  <2>. QED BY <1>1, <1>3, <2>1
<1>. QED BY <1>2, <1>3

LEMMA InitT == Init => TInv
PROOF
<1>. SUFFICES ASSUME Init PROVE TInv
  OBVIOUS
<1>1. ArchTypeOK
  <2>1. code \in [virt : [Addr -> Instructions], phys : [Addr -> Instructions]]
    BY ImagesAssumption DEF Init, ArchInit
  <2>2. 0 \in Addr /\ 0 \in 0 .. CountMod - 1
    BY HartAssumption DEF Addr
  <2>. QED BY <2>1, <2>2 DEF Init, ArchInit, ArchTypeOK
<1>2. pages = << >> /\ DOMAIN pages = {} /\ DOMAIN entry = {} /\ DOMAIN table = {} /\ ret = End
  BY DEF Init, Cache!Init
<1>3. CacheInv
  BY <1>2 DEF Init, Cache!Init, CacheInv, Cache!TypeOK
<1>4. 0 \in Addr /\ 1 \in 1 .. MaxBlock /\ << >> \in Blocks /\ Len(<< >>) <= MaxBlock
  BY HartAssumption, BlockAssumption DEF Addr, Blocks
<1>5. TypeOK
  BY <1>1, <1>3, <1>4 DEF TypeOK, CacheInv, Init
<1>. QED BY <1>3, <1>5 DEF TInv, LoopInv, Init

LEMMA StepT == TInv /\ [Next]_vars => TInv'
PROOF
<1>. SUFFICES ASSUME TInv, [Next]_vars PROVE TInv'
  OBVIOUS
<1>1. /\ ArchTypeOK /\ CacheInv /\ LoopInv /\ pc \in Addr /\ bb_pc \in Addr
      /\ bb \in Blocks /\ Len(bb) \in 0 .. MaxBlock /\ at \in 1 .. MaxBlock
      /\ fetched' \in [Addr -> SUBSET Instructions]
  BY FetchedGrows DEF TInv, TypeOK, ArchTypeOK, Blocks
<1>2. ASSUME UNCHANGED cache PROVE CacheInv' /\ Cache!TypeOK'
  BY <1>1, <1>2 DEF cache, CacheInv, Cache!TypeOK
<1>3. CASE Start
  <2>1. ArchTypeOK'
    BY <1>1, <1>3, HartAssumption DEF Start, StartRun, ArchTypeOK, U
  <2>2. bb' \in Blocks /\ Len(bb') <= MaxBlock
    BY <1>3, BlockAssumption DEF Start, Blocks
  <2>. QED BY <1>1, <1>2, <1>3, <2>1, <2>2 DEF Start, TInv, TypeOK, LoopInv
<1>4. CASE LookupHit
  <2>1. CacheInv' /\ ret' \in Cache!Pair /\ Len(ret'.page) \in Length
    BY <1>1, <1>4, HitKeeps DEF LookupHit
  <2>2. ArchTypeOK'
    BY <1>1, <1>4 DEF LookupHit, arch, ArchTypeOK
  <2>3. 1 \in 1 .. Len(ret'.page) /\ 1 \in 1 .. MaxBlock
    BY <2>1, BlockAssumption DEF Length
  <2>. QED BY <1>1, <1>4, <2>1, <2>2, <2>3 DEF LookupHit, TInv, TypeOK, LoopInv, CacheInv
<1>5. CASE LookupMiss
  <2>1. CacheInv' /\ table' = table /\ Cache!Contract(pc)
    BY <1>1, <1>5 DEF LookupMiss, Cache!LookupMiss, CacheInv, Cache!TypeOK, Cache!Contract
  <2>2. ArchTypeOK' /\ pc' = pc
    BY <1>1, <1>5 DEF LookupMiss, arch, ArchTypeOK
  <2>. QED BY <1>1, <1>5, <2>1, <2>2 DEF LookupMiss, TInv, TypeOK, LoopInv, CacheInv, Cache!Contract
<1>6. CASE Replay
  <2> DEFINE i == ret.page[at]
  <2>1. i \in Instructions /\ ctl = "replay"
    BY <1>6, ReplayedType DEF Replay
  <2>2. ArchTypeOK'
    <3>1. CASE Completes(i) /\ Executed
      BY <1>1, <2>1, <3>1, CompletesTypes
    <3>2. CASE Traps(i)
      BY <1>1, <3>2, TrapTypes DEF Traps
    <3>3. CASE UNCHANGED arch
      BY <1>1, <3>3 DEF arch, ArchTypeOK
    <3>. QED BY <1>6, <3>1, <3>2, <3>3 DEF Replay
  <2>3. CacheInv' /\ Cache!TypeOK' /\ ret' = ret /\ bb' = bb /\ bb_pc' = bb_pc
    BY <1>2, <1>6 DEF Replay, cache
  <2>4. /\ ctl' \in {"lookup", "done", "replay", "thrown"}
        /\ at' \in 1 .. MaxBlock
        /\ ctl' = "replay" => at' \in 1 .. Len(ret.page)
    <3>1. Len(ret.page) \in 1 .. MaxBlock /\ at \in 1 .. Len(ret.page)
      BY <1>1, <2>1 DEF LoopInv, Length
    <3>2. at # Len(ret.page) => at + 1 \in 1 .. Len(ret.page) /\ at + 1 \in 1 .. MaxBlock
      BY <3>1, BlockAssumption
    <3>. QED BY <1>1, <1>6, <3>1, <3>2 DEF Replay, BlockDone
  <2>. QED BY <1>1, <2>1, <2>2, <2>3, <2>4 DEF TInv, TypeOK, LoopInv
<1>7. CASE BuildFetchFault
  <2>1. ArchTypeOK'
    BY <1>1, <1>7, TrapTypes DEF BuildFetchFault
  <2>. QED BY <1>1, <1>2, <1>7, <2>1 DEF BuildFetchFault, TInv, TypeOK, LoopInv
<1>8. CASE Build
  <2> DEFINE i == Fetched(pc)
  <2>1. i \in Instructions /\ ctl = "build"
    BY <1>1, <1>8, FetchedType DEF Build
  <2>2. ArchTypeOK'
    <3>1. CASE Completes(i) /\ Executed
      BY <1>1, <2>1, <3>1, CompletesTypes
    <3>2. CASE Traps(i)
      BY <1>1, <3>2, TrapTypes DEF Traps
    <3>3. CASE UNCHANGED arch
      BY <1>1, <3>3 DEF arch, ArchTypeOK
    <3>. QED BY <1>8, <3>1, <3>2, <3>3 DEF Build
  <2>3. CacheInv' /\ Cache!TypeOK' /\ table' = table /\ bb_pc' = bb_pc /\ at' = at
    BY <1>2, <1>8 DEF Build, cache
  <2>4. Append(bb, i) \in Blocks /\ Len(Append(bb, i)) = Len(bb) + 1
    BY <1>1, <2>1 DEF Blocks
  <2>5. bb' \in Blocks /\ Len(bb') <= MaxBlock /\ (i.op \notin {"bad", "none"} => Len(bb') \in Length)
    <3>1. bb' = IF i.op \in {"bad", "none"} THEN bb ELSE Append(bb, i)
      BY <1>8 DEF Build
    <3>2. Len(bb) + 1 \in Length /\ Len(bb) <= MaxBlock
      BY <1>1, <1>8, BlockAssumption DEF Build, Length
    <3>3. Len(Append(bb, i)) <= MaxBlock
      BY <2>4, <3>2, BlockAssumption DEF Length
    <3>. QED BY <1>1, <2>4, <3>1, <3>2, <3>3
  <2>6. /\ ctl' \in {"lookup", "build", "update", "thrown"}
        /\ ctl' = "update" => i.op \notin {"bad", "none"}
    BY <1>8 DEF Build, is_terminator, terminators
  <2>. HIDE DEF i
  <2>. QED BY <1>1, <2>1, <2>2, <2>3, <2>5, <2>6 DEF TInv, TypeOK, LoopInv, Cache!Contract
<1>9. CASE BuildNoMemory
  <2>1. ArchTypeOK'
    BY <1>1, <1>9 DEF BuildNoMemory, arch, ArchTypeOK
  <2>. QED BY <1>1, <1>2, <1>9, <2>1 DEF BuildNoMemory, TInv, TypeOK, LoopInv
<1>10. CASE Update
  <2>1. CacheInv'
    BY <1>1, <1>10, UpdateKeeps DEF Update, LoopInv
  <2>2. ArchTypeOK'
    BY <1>1, <1>10 DEF Update, arch, ArchTypeOK
  <2>3. bb' \in Blocks /\ Len(bb') <= MaxBlock
    BY <1>10, BlockAssumption DEF Update, Blocks
  <2>. QED BY <1>1, <1>10, <2>1, <2>2, <2>3 DEF Update, BlockDone, TInv, TypeOK, LoopInv, CacheInv
<1>11. CASE UNCHANGED vars
  <2>1. ArchTypeOK' /\ ctl' = ctl /\ bb' = bb /\ bb_pc' = bb_pc /\ at' = at /\ ret' = ret /\ table' = table
    BY <1>1, <1>11 DEF vars, arch, loop, cache, ArchTypeOK
  <2>2. CacheInv' /\ Cache!TypeOK'
    BY <1>2, <1>11 DEF vars
  <2>. QED BY <1>1, <2>1, <2>2 DEF TInv, TypeOK, LoopInv, Cache!Contract
<1>. QED BY <1>3, <1>4, <1>5, <1>6, <1>7, <1>8, <1>9, <1>10, <1>11 DEF Next

\* Every variable of the loop and of the cache keeps to its type: no block is
\* read past its end and no address leaves the address space.
THEOREM TypeCorrect == Spec => []TypeOK
PROOF
<1>1. TInv => TypeOK
  BY DEF TInv
<1>. QED BY <1>1, InitT, StepT, PTL DEF Spec

\* run keeps the contract LRU::update asserts, whatever the program, the
\* handler and the sequence of exceptions between the lookup and the update.
THEOREM ContractKept == Spec => []UpdateContract
PROOF
<1>1. TInv => UpdateContract
  BY DEF TInv, LoopInv, UpdateContract
<1>. QED BY <1>1, InitT, StepT, PTL DEF Spec

-----------------------------------------------------------------------------
(* What the cache holds, with a handler that ends the run.                  *)

\* block is code user mode found at a and the addresses after it.
Straight(a, block) == \A j \in DOMAIN block : block[j] \in fetched[(a + j - 1) % AddrSpace]

\* A block under construction in user mode is the code from bb_pc up to pc.  A
\* fence is appended again and again, and never leaves the loop that does it.
Growing ==
  \/ Fetched(pc).op = "fence"
  \/ /\ Straight(bb_pc, bb)
     /\ pc = (bb_pc + Len(bb)) % AddrSpace
     /\ bb # << >> => bb_pc # Handler

\* While the program runs nothing is cached for the handler, so machine mode
\* finds nothing in the cache, builds the handler's block and ends the run
\* before that block is added; what is added is what user mode built.
RunInv ==
  /\ ctl # "idle"
  /\ CacheHoldsUserCode /\ Handler \notin DOMAIN table
  /\ priv = U => /\ ctl \in {"lookup", "replay"} => bb = << >>
                 /\ ctl = "build" => Growing
                 /\ ctl = "update" => Straight(bb_pc, bb) /\ bb_pc # Handler
  /\ priv = M => /\ ctl \notin {"replay", "update"}
                 /\ ctl = "lookup" => pc = Handler

\* What holds of the machine wherever the loop is.
MachineInv ==
  /\ mpp = U
  /\ code.virt[Handler].op = "none"
  /\ \A a \in Addr : HandlerInstruction(code.phys[a])

UInv ==
  /\ MachineInv
  /\ ctl = "idle" => DOMAIN table = {}
  /\ run_ => RunInv

MovesOn(i) == i.op \notin terminators \cup {"fence", "bad", "none"}

\* A block that can be replayed in one go: only its last instruction may send
\* control elsewhere or end the run.
Block(b) ==
  \A j \in DOMAIN b : b[j].op \notin {"fence", "bad", "none"} /\ (j # Len(b) => MovesOn(b[j]))

\* A loop over a block is at the instruction pc points to.
Replaying ==
  /\ Block(ret.page) /\ Straight(ret.key, ret.page)
  /\ pc = (ret.key + (at - 1)) % AddrSpace

\* The flag run tests, the pages that are mapped, and the shape of the blocks
\* that are cached, built and replayed.
Mapped == \A a \in Addr : fetched[a] # {} => code.virt[a].op # "none"

RInv ==
  /\ ctl \in {"lookup", "replay", "build"} => run_
  /\ Mapped
  /\ run_ => /\ \A a \in DOMAIN table : Block(entry[table[a]].page)
             /\ ctl = "replay" => Replaying
             /\ priv = U /\ ctl = "update" => Block(bb)
             /\ priv = U /\ ctl = "build" =>
                  Fetched(pc).op = "fence" \/ \A j \in DOMAIN bb : MovesOn(bb[j])

IInv == TInv /\ UInv /\ RInv

\* A cached block stays user code as user mode fetches more.
LEMMA GrowFetched ==
  ASSUME TInv, NEW a \in Addr, NEW block \in Blocks, Straight(a, block),
         \A x \in Addr : fetched[x] \subseteq fetched'[x]
  PROVE  \A j \in DOMAIN block : block[j] \in fetched'[(a + j - 1) % AddrSpace]
PROOF
<1>1. SUFFICES ASSUME NEW j \in DOMAIN block
               PROVE  block[j] \in fetched'[(a + j - 1) % AddrSpace]
  OBVIOUS
<1>2. a + j - 1 \in Nat
  <2>1. a \in Nat /\ j \in Nat \ {0}
    BY <1>1, AddrFacts DEF Blocks
  <2>. QED BY <2>1
<1>3. (a + j - 1) % AddrSpace \in Addr
  BY <1>2, AddrFacts
<1>. QED BY <1>3 DEF Straight

LEMMA CacheStays ==
  ASSUME TInv, CacheHoldsUserCode, run_, UNCHANGED <<table, entry>>, [Next]_vars
  PROVE  CacheHoldsUserCode'
PROOF
<1>1. SUFFICES ASSUME NEW a \in DOMAIN table
               PROVE  LET block == entry[table[a]].page IN
                        \A j \in DOMAIN block : block[j] \in fetched'[(a + j - 1) % AddrSpace]
  BY DEF CacheHoldsUserCode
<1>2. a \in Addr /\ entry[table[a]].page \in Blocks
  BY DEF TInv, CacheInv, Cache!TypeOK, Cache!Pair
<1>3. Straight(a, entry[table[a]].page)
  BY DEF CacheHoldsUserCode, Straight
<1>. QED BY <1>2, <1>3, GrowFetched, FetchedGrows

\* One more instruction of user mode at the end of the block.
LEMMA Extend ==
  ASSUME TInv, MachineInv, Build, priv = U, Growing, Fetched(pc).op # "fence"
  PROVE  /\ LET b == Append(bb, Fetched(pc)) IN
              \A j \in DOMAIN b : b[j] \in fetched'[(bb_pc + j - 1) % AddrSpace]
         /\ next(pc) = (bb_pc + Len(Append(bb, Fetched(pc)))) % AddrSpace
         /\ bb_pc # Handler
PROOF
<1> DEFINE i == Fetched(pc)
<1>1. bb_pc \in Addr /\ pc \in Addr /\ bb \in Blocks /\ Len(bb) \in Nat /\ AddrSpace \in Nat \ {0}
  BY HartAssumption DEF TInv, TypeOK, ArchTypeOK, Blocks
<1>2. /\ Straight(bb_pc, bb) /\ pc = (bb_pc + Len(bb)) % AddrSpace
      /\ bb # << >> => bb_pc # Handler
  BY DEF Growing
<1>3. i = code.virt[pc] /\ i \in fetched'[pc] /\ pc # Handler
  <2>1. i = code.virt[pc] /\ pc # Handler
    BY <1>1 DEF Fetched, FetchFaults, Translated, MachineInv, U, M, Build
  <2>2. [Next]_vars /\ priv # M
    BY DEF Next, U, M
  <2>. QED BY <2>1, <2>2, FetchedGrows
<1>4. i \in Instructions
  BY FetchedType DEF TInv, TypeOK
<1>5. bb_pc \in Nat /\ (bb_pc + 0) % AddrSpace = bb_pc
  <2>1. bb_pc \in Nat /\ bb_pc % AddrSpace = bb_pc
    BY <1>1, AddrFacts
  <2>2. bb_pc + 0 = bb_pc
    BY <2>1
  <2>. QED BY <2>1, <2>2
<1>6. /\ Len(Append(bb, i)) = Len(bb) + 1 /\ DOMAIN bb = 1 .. Len(bb)
      /\ DOMAIN Append(bb, i) = 1 .. Len(bb) + 1
      /\ Append(bb, i)[Len(bb) + 1] = i
      /\ \A j \in 1 .. Len(bb) : Append(bb, i)[j] = bb[j]
  BY <1>1, <1>4 DEF Blocks
<1>7. \A j \in DOMAIN bb : bb[j] \in fetched'[(bb_pc + j - 1) % AddrSpace]
  BY <1>1, <1>2, GrowFetched, FetchedGrows DEF Next
<1>. HIDE DEF i
<1>8. \A j \in DOMAIN Append(bb, i) : Append(bb, i)[j] \in fetched'[(bb_pc + j - 1) % AddrSpace]
  <2>1. SUFFICES ASSUME NEW j \in 1 .. Len(bb) + 1
                 PROVE  Append(bb, i)[j] \in fetched'[(bb_pc + j - 1) % AddrSpace]
    BY <1>6
  <2>2. CASE j = Len(bb) + 1
    <3>1. bb_pc + j - 1 = bb_pc + Len(bb)
      BY <1>1, <1>5, <2>2
    <3>. QED BY <1>2, <1>3, <1>6, <2>2, <3>1
  <2>3. CASE j \in 1 .. Len(bb)
    BY <1>6, <1>7, <2>3
  <2>. QED BY <1>1, <2>2, <2>3
<1>9. next(pc) = (bb_pc + Len(Append(bb, i))) % AddrSpace
  <2>1. bb_pc + Len(bb) \in Nat /\ (bb_pc + Len(bb)) + 1 = bb_pc + (Len(bb) + 1)
    BY <1>1, <1>5
  <2>. QED BY <1>1, <1>2, <1>6, <2>1, ModNext DEF next
<1>10. bb_pc # Handler
  <2>1. CASE bb = << >>
    <3>1. pc = bb_pc
      BY <1>2, <1>5, <2>1
    <3>. QED BY <1>3, <3>1
  <2>. QED BY <1>2, <2>1
<1>. QED BY <1>8, <1>9, <1>10 DEF i

LEMMA InitU == (\A c \in Images : HandlerExits(c)) /\ Init => UInv
PROOF
<1>. SUFFICES ASSUME \A c \in Images : HandlerExits(c), Init PROVE UInv
  OBVIOUS
<1>1. code \in Images /\ mpp = U /\ run_ = FALSE /\ ctl = "idle"
  BY DEF Init, ArchInit
<1>2. DOMAIN table = {}
  BY DEF Init, Cache!Init
<1>. QED BY <1>1, <1>2 DEF HandlerExits, UInv, MachineInv

\* Whatever user mode executes, and whatever the handler does, the handler stays
\* one that ends the run.
LEMMA ExecuteKeeps ==
  ASSUME TInv, MachineInv, NEW i \in Instructions, priv = M => HandlerInstruction(i),
         Completes(i) \/ Traps(i) \/ UNCHANGED arch
  PROVE  MachineInv'
PROOF
<1>1. ArchTypeOK /\ Handler \in Addr
  BY HartAssumption DEF TInv, TypeOK
<1>2. CASE Completes(i)
  <2>1. mpp' = U
    BY <1>1, <1>2, CompletesFacts DEF MachineInv
  <2>2. CASE UNCHANGED code
    BY <2>1, <2>2 DEF MachineInv
  <2>3. CASE exec_store(i)
    <3>1. CASE code'.phys = code.phys
      BY <1>1, <2>1, <2>3, <3>1, StoreFacts DEF MachineInv
    <3>2. CASE priv = M /\ code'.virt = code.virt
      <4>1. HandlerInstruction(i.new)
        BY <1>1, <2>3, <3>2, StoreFacts DEF HandlerInstruction, straight
      <4>2. \A a \in Addr : code'.phys[a] \in {i.new, code.phys[a]}
        BY <1>1, <2>3, StoreFacts
      <4>3. \A a \in Addr : HandlerInstruction(code'.phys[a])
        BY <4>1, <4>2 DEF MachineInv
      <4>. QED BY <1>1, <2>1, <3>2, <4>3 DEF MachineInv
    <3>. QED BY <1>1, <2>3, <3>1, <3>2, StoreFacts
  <2>. QED BY <1>1, <1>2, <2>2, <2>3, CompletesFacts
<1>3. CASE Traps(i)
  <2>1. priv = U
    BY <1>1, <1>3 DEF Traps, ArchTypeOK, HandlerInstruction, straight
  <2>. QED BY <1>3, <2>1 DEF Traps, RaiseException, MachineInv
<1>4. CASE UNCHANGED arch
  BY <1>4 DEF arch, MachineInv
<1>. QED BY <1>2, <1>3, <1>4

\* What ends the run, and the only instructions that can end a block of the
\* handler.
LEMMA MachineStops ==
  ASSUME TInv, MachineInv, priv = M, NEW i \in Instructions, i = Fetched(pc)
  PROVE  /\ HandlerInstruction(i) /\ ~Traps(i)
         /\ Completes(i) => priv' = M /\ (is_terminator(i) => run_' = FALSE)
PROOF
<1>1. i = code.phys[pc] /\ pc \in Addr
  BY DEF Fetched, Translated, TInv, TypeOK, ArchTypeOK
<1>2. HandlerInstruction(i)
  BY <1>1 DEF MachineInv
<1>3. i.op \notin {"branch", "jump", "mret", "sret", "ecall", "csr_readonly"}
  BY <1>2 DEF HandlerInstruction, straight
<1>4. Completes(i) => priv' = M
  BY <1>3, CompletesFacts DEF TInv, TypeOK
<1>5. ASSUME Completes(i), i.op \in {"exit", "ebreak"} PROVE run_' = FALSE
  BY <1>5 DEF Completes, exec_alu, exec_load_store, exec_csr, exec_cond_branch, exec_jal,
              exec_fence, exec_ecall, exec_ebreak, exec_mret, exec_sret, exec_store, Stop
<1>6. ~Traps(i)
  BY <1>3 DEF Traps
<1>. QED BY <1>2, <1>3, <1>4, <1>5, <1>6 DEF is_terminator, terminators

LEMMA StepU == IInv /\ [Next]_vars => UInv'
PROOF
<1>. SUFFICES ASSUME TInv, UInv, RInv, [Next]_vars PROVE UInv'
  BY DEF IInv
<1>1. /\ ArchTypeOK /\ CacheInv /\ priv \in {U, M} /\ U # M /\ Handler \in Addr
      /\ pc \in Addr /\ bb_pc \in Addr /\ bb \in Blocks /\ MachineInv
  BY HartAssumption DEF TInv, TypeOK, ArchTypeOK, U, M, UInv
<1>2. ASSUME UNCHANGED arch PROVE MachineInv' /\ run_' = run_ /\ priv' = priv /\ pc' = pc
  BY <1>1, <1>2 DEF arch, MachineInv
<1>3. ASSUME run_, UNCHANGED <<table, entry>>
      PROVE  CacheHoldsUserCode' /\ Handler \notin DOMAIN table'
  BY <1>3, CacheStays DEF UInv, RunInv
<1>4. CASE Start
  <2>1. /\ DOMAIN table' = {} /\ CacheHoldsUserCode' /\ ctl' = "lookup" /\ bb' = << >>
        /\ priv' = U /\ run_' /\ MachineInv'
    BY <1>1, <1>4 DEF Start, StartRun, UInv, cache, CacheHoldsUserCode, MachineInv
  <2>. QED BY <1>1, <2>1 DEF UInv, RunInv
<1>5. CASE LookupHit
  <2>1. UNCHANGED <<entry, table>> /\ UNCHANGED arch /\ bb' = bb /\ pc \in DOMAIN table
    BY <1>1, <1>5, HitKeeps DEF LookupHit, Cache!LookupHit
  <2>2. ctl = "lookup" /\ ctl' = "replay" /\ run_
    BY <1>5 DEF LookupHit, RInv
  <2>3. priv = U /\ bb = << >>
    BY <1>1, <2>1, <2>2 DEF UInv, RunInv
  <2>4. RunInv'
    BY <1>1, <1>2, <1>3, <2>1, <2>2, <2>3 DEF RunInv
  <2>. QED BY <1>2, <2>1, <2>2, <2>4 DEF UInv
<1>6. CASE LookupMiss
  <2>1. UNCHANGED <<entry, table>> /\ UNCHANGED arch /\ bb' = bb /\ bb_pc' = pc
    BY <1>6 DEF LookupMiss, Cache!LookupMiss
  <2>2. ctl = "lookup" /\ ctl' = "build" /\ run_
    BY <1>6 DEF LookupMiss, RInv
  <2>3. ASSUME priv = U PROVE Growing'
    <3>1. bb' = << >> /\ Len(bb') = 0 /\ DOMAIN bb' = {} /\ pc' = pc
      BY <1>2, <2>1, <2>2, <2>3 DEF UInv, RunInv
    <3>2. pc \in Nat /\ pc + 0 = pc /\ pc % AddrSpace = pc
      BY <1>1, AddrFacts
    <3>3. pc' = (bb_pc' + Len(bb')) % AddrSpace
      BY <2>1, <3>1, <3>2
    <3>. QED BY <3>1, <3>3 DEF Growing, Straight
  <2>4. RunInv'
    BY <1>1, <1>2, <1>3, <2>1, <2>2, <2>3 DEF RunInv
  <2>. QED BY <1>2, <2>1, <2>2, <2>4 DEF UInv
<1>7. CASE Replay
  <2> DEFINE i == ret.page[at]
  <2>1. /\ i \in Instructions /\ ctl = "replay" /\ bb' = bb /\ UNCHANGED <<table, entry>>
        /\ run_ /\ priv = U /\ bb = << >>
    BY <1>1, <1>7, ReplayedType DEF Replay, cache, UInv, RunInv, RInv
  <2>2. ctl' \in {"lookup", "done", "replay", "thrown"}
    BY <1>7 DEF Replay, BlockDone
  <2>3. \/ Completes(i)
        \/ Traps(i) /\ ctl' = "lookup"
        \/ ctl' = "thrown" /\ UNCHANGED arch
    BY <1>7 DEF Replay
  <2>. HIDE DEF i
  <2>4. MachineInv'
    BY <1>1, <2>1, <2>3, ExecuteKeeps
  <2>5. \/ priv' = U
        \/ priv' = M /\ ctl' = "lookup" /\ pc' = Handler
    <3>1. CASE Completes(i)
      BY <1>1, <2>1, <3>1, CompletesFacts DEF MachineInv
    <3>2. CASE Traps(i) /\ ctl' = "lookup"
      BY <3>2 DEF Traps, RaiseException
    <3>3. CASE UNCHANGED arch
      BY <2>1, <3>3 DEF arch
    <3>. QED BY <2>3, <3>1, <3>2, <3>3
  <2>6. CacheHoldsUserCode' /\ Handler \notin DOMAIN table'
    BY <1>3, <2>1
  <2>. QED BY <1>1, <2>1, <2>2, <2>4, <2>5, <2>6 DEF UInv, RunInv
<1>8. CASE BuildFetchFault
  <2>1. /\ priv = U /\ RaiseException /\ ctl = "build" /\ ctl' = "lookup"
        /\ UNCHANGED <<table, entry>> /\ run_
    BY <1>1, <1>8 DEF BuildFetchFault, FetchFaults, Translated, cache, RInv
  <2>2. MachineInv' /\ priv' = M /\ pc' = Handler
    BY <1>1, <2>1 DEF RaiseException, MachineInv
  <2>. QED BY <1>1, <1>3, <2>1, <2>2 DEF UInv, RunInv
<1>9. CASE Build
  <2> DEFINE i == Fetched(pc)
  <2>1. /\ i \in Instructions /\ ctl = "build" /\ ~FetchFaults /\ run_
        /\ UNCHANGED <<table, entry>> /\ bb_pc' = bb_pc
        /\ bb' = IF i.op \in {"bad", "none"} THEN bb ELSE Append(bb, i)
    BY <1>1, <1>9, FetchedType DEF Build, cache, RInv
  <2>2. \/ /\ Completes(i)
           /\ ctl' = IF is_terminator(i) THEN "update" ELSE "build"
        \/ Traps(i) /\ ctl' = "lookup"
        \/ ctl' = "thrown" /\ UNCHANGED arch
    BY <1>9 DEF Build
  <2>3. priv = M => HandlerInstruction(i) /\ ~Traps(i)
    BY <1>1, <2>1, MachineStops
  <2>4. MachineInv'
    BY <1>1, <2>1, <2>2, <2>3, ExecuteKeeps
  <2>5. CacheHoldsUserCode' /\ Handler \notin DOMAIN table'
    BY <1>3, <2>1
  <2>6. ctl' # "idle"
    <3>. HIDE DEF i
    <3>. QED BY <2>2
  <2>7. CASE Traps(i) /\ ctl' = "lookup"
    <3>1. priv' = M /\ pc' = Handler
      BY <2>7 DEF Traps, RaiseException
    <3>. HIDE DEF i
    <3>. QED BY <1>1, <2>4, <2>5, <2>7, <3>1 DEF UInv, RunInv
  <2>8. CASE ctl' = "thrown"
    BY <2>4, <2>5, <2>8 DEF UInv, RunInv
  <2>9. CASE Completes(i) /\ ctl' = IF is_terminator(i) THEN "update" ELSE "build"
    <3>1. SUFFICES ASSUME run_' PROVE RunInv'
      BY <2>4, <2>6, <2>9 DEF UInv
    <3>2. CASE priv = M
      <4>1. priv' = M /\ ~is_terminator(i)
        BY <1>1, <2>1, <2>9, <3>1, <3>2, MachineStops
      <4>. HIDE DEF i
      <4>. QED BY <1>1, <2>5, <2>9, <4>1 DEF RunInv
    <3>3. CASE priv = U
      <4>1. Growing
        BY <2>1, <3>3 DEF UInv, RunInv
      <4>2. priv' = U
        BY <1>1, <2>1, <2>9, <3>3, CompletesFacts DEF MachineInv
      <4>3. i = code.virt[pc] /\ i.op \notin {"bad", "none"} /\ bb' = Append(bb, i)
        BY <1>1, <2>1, <2>9, <3>3, CompletesFacts DEF Fetched, Translated
      <4>4. CASE i.op = "fence"
        <5>1. ~is_terminator(i) /\ pc' = pc /\ code' = code
          BY <1>1, <2>1, <2>9, <4>4, CompletesFacts DEF is_terminator, terminators
        <5>2. Fetched(pc)' = i
          BY <1>1, <4>2, <4>3, <5>1 DEF Fetched, Translated
        <5>3. Growing'
          BY <4>4, <5>2 DEF Growing
        <5>. HIDE DEF i
        <5>. QED BY <1>1, <2>5, <2>9, <4>2, <5>1, <5>3 DEF RunInv
      <4>5. CASE i.op # "fence"
        <5>1. /\ \A j \in DOMAIN bb' : bb'[j] \in fetched'[(bb_pc + j - 1) % AddrSpace]
              /\ next(pc) = (bb_pc + Len(bb')) % AddrSpace /\ bb_pc # Handler
          BY <1>1, <1>9, <3>3, <4>1, <4>3, <4>5, Extend
        <5>. HIDE DEF i
        <5>2. Straight(bb_pc, bb)' /\ bb_pc' # Handler
          BY <2>1, <5>1 DEF Straight
        <5>3. CASE is_terminator(i)
          BY <1>1, <2>5, <2>9, <4>2, <5>2, <5>3 DEF RunInv
        <5>4. CASE ~is_terminator(i)
          <6>1. pc' = next(pc)
            BY <1>1, <2>1, <2>9, <4>5, <5>4, CompletesFacts
          <6>2. pc' = (bb_pc' + Len(bb')) % AddrSpace
            BY <2>1, <5>1, <6>1
          <6>3. Growing'
            BY <5>2, <6>2 DEF Growing
          <6>. QED BY <1>1, <2>5, <2>9, <4>2, <5>4, <6>3 DEF RunInv
        <5>. QED BY <5>3, <5>4
      <4>. QED BY <4>4, <4>5
    <3>. QED BY <1>1, <3>2, <3>3
  <2>. QED BY <2>2, <2>7, <2>8, <2>9
<1>10. CASE BuildNoMemory
  <2>1. /\ UNCHANGED <<entry, table>> /\ UNCHANGED arch /\ ctl = "build" /\ ctl' = "nomem"
        /\ run_
    BY <1>10 DEF BuildNoMemory, cache, RInv
  <2>. QED BY <1>1, <1>2, <1>3, <2>1 DEF UInv, RunInv
<1>11. CASE Update
  <2>1. /\ UNCHANGED arch /\ fetched' = fetched
        /\ ctl = "update" /\ bb' = << >> /\ ctl' = (IF run_' THEN "lookup" ELSE "done")
    BY <1>11 DEF Update, BlockDone
  <2>2. /\ DOMAIN table' \subseteq DOMAIN table \cup {bb_pc}
        /\ bb_pc \in DOMAIN table' /\ entry'[table'[bb_pc]].page = bb
        /\ \A a \in DOMAIN table' : a # bb_pc => entry'[table'[a]] = entry[table[a]]
    BY <1>1, <1>11, UpdateKeeps DEF Update, TInv, LoopInv
  <2>3. ASSUME run_ PROVE RunInv'
    <3>1. /\ CacheHoldsUserCode /\ Handler \notin DOMAIN table /\ priv = U
          /\ Straight(bb_pc, bb) /\ bb_pc # Handler
      BY <1>1, <2>1, <2>3 DEF UInv, RunInv
    <3>2. CacheHoldsUserCode'
      <4>1. SUFFICES ASSUME NEW a \in DOMAIN table'
                     PROVE  LET block == entry'[table'[a]].page IN
                              \A j \in DOMAIN block : block[j] \in fetched[(a + j - 1) % AddrSpace]
        BY <2>1 DEF CacheHoldsUserCode
      <4>2. CASE a = bb_pc
        BY <2>2, <3>1, <4>2 DEF Straight
      <4>3. CASE a # bb_pc
        <5>1. a \in DOMAIN table /\ entry'[table'[a]] = entry[table[a]]
          BY <2>2, <4>3
        <5>. QED BY <2>3, <3>1, <5>1 DEF CacheHoldsUserCode
      <4>. QED BY <4>2, <4>3
    <3>3. Handler \notin DOMAIN table'
      BY <2>2, <3>1
    <3>. QED BY <1>1, <1>2, <2>1, <2>3, <3>1, <3>2, <3>3 DEF RunInv
  <2>. QED BY <1>2, <2>1, <2>3 DEF UInv
<1>12. CASE UNCHANGED vars
  <2>1. /\ UNCHANGED arch /\ ctl' = ctl /\ bb' = bb /\ bb_pc' = bb_pc
        /\ table' = table /\ entry' = entry /\ fetched' = fetched
    BY <1>12 DEF vars, loop, cache
  <2>2. Fetched(pc)' = Fetched(pc)
    BY <2>1 DEF arch, Fetched, Translated
  <2>3. ASSUME run_ PROVE RunInv'
    BY <1>2, <1>3, <2>1, <2>2, <2>3 DEF UInv, RunInv, Growing, Straight
  <2>. QED BY <1>2, <2>1, <2>3 DEF UInv
<1>. QED BY <1>4, <1>5, <1>6, <1>7, <1>8, <1>9, <1>10, <1>11, <1>12 DEF Next

-----------------------------------------------------------------------------
(* Blocks are replayed whole and in order.                                   *)

\* What a replayed instruction is: one user mode has fetched from its address.
LEMMA ReplayedFetched ==
  ASSUME IInv, ctl = "replay"
  PROVE  /\ run_ /\ priv = U /\ Replaying
         /\ ret.page[at] \in fetched[pc] /\ ~FetchFaults
         /\ ret.key \in Addr /\ at \in 1 .. Len(ret.page) /\ Len(ret.page) \in Length
PROOF
<1>1. /\ run_ /\ priv = U /\ Replaying /\ pc \in Addr
  BY DEF IInv, RInv, UInv, RunInv, TInv, TypeOK, ArchTypeOK
<1>2. /\ ret.key \in Addr /\ ret.page \in Blocks
      /\ at \in 1 .. Len(ret.page) /\ Len(ret.page) \in Length
  BY DEF IInv, TInv, LoopInv, Cache!Pair
<1>3. at \in DOMAIN ret.page
  BY <1>2 DEF Blocks
<1>4. ret.key + at - 1 = ret.key + (at - 1)
  BY <1>2, AddrFacts DEF Length
<1>5. ret.page[at] \in fetched[pc]
  BY <1>1, <1>3, <1>4 DEF Replaying, Straight
<1>6. code.virt[pc].op # "none"
  BY <1>1, <1>5 DEF IInv, RInv, Mapped
<1>. QED BY <1>1, <1>2, <1>5, <1>6 DEF FetchFaults

\* Stores neither map nor unmap a page, and what is fetched is mapped.
LEMMA MappedStays ==
  ASSUME IInv, [Next]_vars
  PROVE  Mapped'
PROOF
<1>1. TInv /\ ArchTypeOK /\ Mapped /\ pc \in Addr
  BY DEF IInv, TInv, TypeOK, ArchTypeOK, RInv
<1>2. \A a \in Addr : code.virt[a].op # "none" => code'.virt[a].op # "none"
  <2>1. ASSUME NEW i \in Instructions, Completes(i)
        PROVE  \A a \in Addr : code.virt[a].op # "none" => code'.virt[a].op # "none"
    <3>1. CASE UNCHANGED code
      BY <3>1
    <3>2. CASE exec_store(i)
      BY <1>1, <3>2, StoreFacts
    <3>. QED BY <1>1, <2>1, <3>1, <3>2, CompletesFacts
  <2>2. ASSUME NEW i, Traps(i) PROVE UNCHANGED code
    BY <2>2 DEF Traps, RaiseException
  <2>3. CASE Replay
    <3>1. ret.page[at] \in Instructions
      BY <1>1, <2>3, ReplayedType DEF Replay
    <3>2. Completes(ret.page[at]) \/ Traps(ret.page[at]) \/ UNCHANGED arch
      BY <2>3 DEF Replay
    <3>. QED BY <2>1, <2>2, <3>1, <3>2 DEF arch
  <2>4. CASE Build
    <3>1. Fetched(pc) \in Instructions
      BY <1>1, FetchedType
    <3>2. Completes(Fetched(pc)) \/ Traps(Fetched(pc)) \/ UNCHANGED arch
      BY <2>4 DEF Build
    <3>. QED BY <2>1, <2>2, <3>1, <3>2 DEF arch
  <2>5. CASE ~(Replay \/ Build)
    <3>1. UNCHANGED code
      BY <2>5 DEF Next, vars, Start, StartRun, LookupHit, LookupMiss, BuildFetchFault,
                  RaiseException, BuildNoMemory, Update, arch
    <3>. QED BY <3>1
  <2>. QED BY <2>3, <2>4, <2>5
<1>3. \A a \in Addr : fetched'[a] # {} => fetched[a] # {} \/ code.virt[a].op # "none"
  <2>1. CASE Build /\ priv # M
    <3>1. code.virt[pc].op # "none"
      BY <2>1 DEF Build, FetchFaults, Translated
    <3>. QED BY <1>1, <2>1, <3>1, FetchedGrows
  <2>2. CASE ~(Build /\ priv # M)
    BY <1>1, <2>2, FetchedGrows
  <2>. QED BY <2>1, <2>2
<1>. QED BY <1>1, <1>2, <1>3 DEF Mapped

LEMMA InitR == Init => RInv
PROOF
<1>. SUFFICES ASSUME Init PROVE RInv
  OBVIOUS
<1>1. run_ = FALSE /\ ctl = "idle" /\ fetched = [a \in Addr |-> {}]
  BY DEF Init, ArchInit
<1>. QED BY <1>1 DEF RInv, Mapped

LEMMA StepR == IInv /\ [Next]_vars => RInv'
PROOF
<1>. SUFFICES ASSUME IInv, [Next]_vars PROVE RInv'
  OBVIOUS
<1>1. /\ ArchTypeOK /\ CacheInv /\ priv \in {U, M} /\ U # M /\ pc \in Addr /\ bb \in Blocks
      /\ TInv /\ UInv /\ RInv /\ MachineInv /\ Mapped'
  BY MappedStays DEF IInv, TInv, TypeOK, ArchTypeOK, U, M, UInv
<1>2. ASSUME run_' \/ ctl' \notin {"lookup", "replay", "build"},
             run_' => /\ \A a \in DOMAIN table' : Block(entry'[table'[a]].page)
                      /\ ctl' = "replay" => Replaying'
                      /\ priv' = U /\ ctl' = "update" => Block(bb)'
                      /\ priv' = U /\ ctl' = "build" =>
                           Fetched(pc)'.op = "fence" \/ \A j \in DOMAIN bb' : MovesOn(bb'[j])
      PROVE  RInv'
  BY <1>1, <1>2 DEF RInv, Block
<1>3. ASSUME run_, UNCHANGED <<table, entry>>
      PROVE  \A a \in DOMAIN table' : Block(entry'[table'[a]].page)
  BY <1>1, <1>3 DEF RInv
<1>4. CASE Start
  <2>1. run_' /\ ctl' = "lookup" /\ DOMAIN table' = {}
    BY <1>1, <1>4 DEF Start, StartRun, cache, UInv
  <2>. QED BY <1>2, <2>1
<1>5. CASE LookupHit
  <2>1. /\ UNCHANGED <<entry, table>> /\ UNCHANGED arch /\ ctl = "lookup" /\ ctl' = "replay"
        /\ pc \in DOMAIN table /\ ret' = entry[table[pc]] /\ at' = 1 /\ fetched' = fetched
    BY <1>1, <1>5, HitKeeps DEF LookupHit, Cache!LookupHit
  <2>2. run_ /\ run_' /\ pc' = pc
    BY <1>1, <2>1 DEF RInv, arch
  <2>3. ret'.key = pc /\ Block(ret'.page) /\ Straight(pc, ret'.page)
    BY <1>1, <2>1, <2>2 DEF RInv, UInv, RunInv, CacheInv, CacheHoldsUserCode, Straight
  <2>4. pc' = (ret'.key + (at' - 1)) % AddrSpace
    <3>1. pc \in Nat /\ pc % AddrSpace = pc
      BY <1>1, AddrFacts
    <3>2. pc + (1 - 1) = pc
      BY <3>1
    <3>. QED BY <2>1, <2>2, <2>3, <3>1, <3>2
  <2>5. Replaying'
    BY <2>1, <2>2, <2>3, <2>4 DEF Replaying, Block, Straight
  <2>. QED BY <1>2, <1>3, <2>1, <2>2, <2>5
<1>6. CASE LookupMiss
  <2>1. /\ UNCHANGED <<entry, table>> /\ UNCHANGED arch /\ bb' = bb
        /\ ctl = "lookup" /\ ctl' = "build"
    BY <1>6 DEF LookupMiss, Cache!LookupMiss
  <2>2. run_ /\ run_' /\ priv' = priv
    BY <1>1, <2>1 DEF RInv, arch
  <2>3. priv = U => DOMAIN bb' = {}
    BY <1>1, <2>1, <2>2 DEF UInv, RunInv
  <2>. QED BY <1>2, <1>3, <2>1, <2>2, <2>3
<1>7. CASE Replay
  <2> DEFINE i == ret.page[at]
  <2>1. /\ i \in Instructions /\ ctl = "replay" /\ UNCHANGED <<table, entry, ret, bb>>
        /\ run_ /\ priv = U /\ Replaying /\ ret.key \in Nat
        /\ at \in 1 .. Len(ret.page) /\ Len(ret.page) \in Nat
        /\ ret.page \in Blocks
    BY <1>1, <1>7, ReplayedType, ReplayedFetched, AddrFacts
    DEF Replay, cache, Length, TInv, LoopInv, Cache!Pair
  <2>2. \/ /\ Completes(i)
           /\ \/ at = Len(ret.page) /\ BlockDone
              \/ at # Len(ret.page) /\ at' = at + 1 /\ ctl' = "replay"
        \/ Traps(i) /\ ctl' = "lookup"
        \/ ctl' = "thrown" /\ UNCHANGED arch
    BY <1>7, <2>1 DEF Replay
  <2>3. \A a \in DOMAIN table' : Block(entry'[table'[a]].page)
    BY <1>3, <2>1
  <2>4. CASE Completes(i) /\ at = Len(ret.page) /\ BlockDone
    BY <1>2, <2>3, <2>4 DEF BlockDone
  <2>5. CASE Completes(i) /\ at # Len(ret.page) /\ at' = at + 1 /\ ctl' = "replay"
    <3>1. at \in DOMAIN ret.page
      BY <2>1 DEF Blocks
    <3>2. MovesOn(i)
      BY <2>1, <2>5, <3>1 DEF Replaying, Block
    <3>3. run_' = run_ /\ pc' = next(pc)
      BY <1>1, <2>1, <2>5, <3>2, CompletesFacts DEF MovesOn, is_terminator
    <3>4. pc' = (ret'.key + (at' - 1)) % AddrSpace
      <4>1. pc = (ret.key + (at - 1)) % AddrSpace /\ ret.key + (at - 1) \in Nat
        BY <2>1 DEF Replaying
      <4>2. (ret.key + (at - 1)) + 1 = ret.key + ((at + 1) - 1)
        BY <2>1
      <4>3. ret' = ret /\ at' = at + 1
        BY <2>1, <2>5
      <4>. HIDE DEF i
      <4>. QED BY <3>3, <4>1, <4>2, <4>3, ModNext, HartAssumption DEF next
    <3>5. Straight(ret.key, ret.page)'
      <4>1. ret.key \in Addr
        BY <2>1, ReplayedFetched
      <4>. QED BY <1>1, <2>1, <4>1, GrowFetched, FetchedGrows DEF Replaying, Straight
    <3>6. Replaying'
      BY <2>1, <3>4, <3>5 DEF Replaying, Block
    <3>. QED BY <1>2, <2>1, <2>3, <2>5, <3>3, <3>6
  <2>6. CASE Traps(i) /\ ctl' = "lookup"
    <3>1. run_'
      BY <2>1, <2>6 DEF Traps, RaiseException
    <3>. QED BY <1>2, <2>3, <2>6, <3>1
  <2>7. CASE ctl' = "thrown"
    BY <1>2, <2>3, <2>7
  <2>. QED BY <2>2, <2>4, <2>5, <2>6, <2>7
<1>8. CASE BuildFetchFault
  <2>1. /\ RaiseException /\ ctl = "build" /\ ctl' = "lookup" /\ UNCHANGED <<table, entry>>
    BY <1>8 DEF BuildFetchFault, cache
  <2>2. run_ /\ run_'
    BY <1>1, <2>1 DEF RaiseException, RInv
  <2>. QED BY <1>2, <1>3, <2>1, <2>2
<1>9. CASE Build
  <2> DEFINE i == Fetched(pc)
  <2>1. /\ i \in Instructions /\ ctl = "build" /\ ~FetchFaults /\ run_
        /\ UNCHANGED <<table, entry>>
        /\ bb' = IF i.op \in {"bad", "none"} THEN bb ELSE Append(bb, i)
    BY <1>1, <1>9, FetchedType DEF Build, cache, RInv
  <2>2. \/ /\ Completes(i)
           /\ ctl' = IF is_terminator(i) THEN "update" ELSE "build"
        \/ Traps(i) /\ ctl' = "lookup"
        \/ ctl' = "thrown" /\ UNCHANGED arch
    BY <1>9 DEF Build
  <2>3. \A a \in DOMAIN table' : Block(entry'[table'[a]].page)
    BY <1>3, <2>1
  <2>4. CASE Traps(i) /\ ctl' = "lookup"
    <3>1. run_'
      BY <2>1, <2>4 DEF Traps, RaiseException
    <3>. HIDE DEF i
    <3>. QED BY <1>2, <2>3, <2>4, <3>1
  <2>5. CASE ctl' = "thrown"
    BY <1>2, <2>3, <2>5
  <2>6. CASE Completes(i) /\ ctl' = (IF is_terminator(i) THEN "update" ELSE "build")
    <3>1. ctl' = "build" => run_' /\ ~is_terminator(i)
      BY <1>1, <2>1, <2>6, CompletesFacts
    <3>2. CASE priv = M
      <4>1. priv' = M /\ (is_terminator(i) => run_' = FALSE)
        BY <1>1, <2>1, <2>6, <3>2, MachineStops
      <4>. HIDE DEF i
      <4>. QED BY <1>1, <1>2, <2>3, <2>6, <3>1, <4>1
    <3>3. CASE priv = U
      <4>1. i = code.virt[pc] /\ i.op \notin {"bad", "none"} /\ bb' = Append(bb, i)
        BY <1>1, <2>1, <2>6, <3>3, CompletesFacts DEF Fetched, Translated
      <4>2. CASE i.op = "fence"
        <5>1. ~is_terminator(i) /\ i.op \notin {"mret", "sret"}
          BY <4>2 DEF is_terminator, terminators
        <5>2. pc' = pc /\ code' = code /\ priv' = priv
          BY <1>1, <2>1, <2>6, <4>2, <5>1, CompletesFacts
        <5>3. Fetched(pc)'.op = "fence" /\ ctl' = "build"
          BY <2>6, <3>3, <4>1, <4>2, <5>1, <5>2 DEF Fetched, Translated
        <5>. HIDE DEF i
        <5>. QED BY <1>2, <2>3, <3>1, <5>3
      <4>3. CASE i.op # "fence"
        <5>1. \A j \in DOMAIN bb : MovesOn(bb[j])
          BY <1>1, <2>1, <3>3, <4>3 DEF RInv
        <5>. HIDE DEF i
        <5>2. /\ DOMAIN bb' = 1 .. Len(bb) + 1 /\ Len(bb') = Len(bb) + 1 /\ Len(bb) \in Nat
              /\ bb'[Len(bb) + 1] = i /\ DOMAIN bb = 1 .. Len(bb)
              /\ \A j \in 1 .. Len(bb) : bb'[j] = bb[j]
          BY <1>1, <2>1, <4>1 DEF Blocks
        <5>3. ~is_terminator(i) => MovesOn(i)
          BY <4>1, <4>3 DEF MovesOn, is_terminator
        <5>4. \A j \in DOMAIN bb' : j = Len(bb') \/ MovesOn(bb'[j])
          BY <5>1, <5>2
        <5>5. \A j \in DOMAIN bb' : bb'[j].op \notin {"fence", "bad", "none"}
          BY <4>1, <4>3, <5>2, <5>4 DEF MovesOn
        <5>6. Block(bb)'
          BY <5>4, <5>5 DEF Block
        <5>7. ~is_terminator(i) => \A j \in DOMAIN bb' : MovesOn(bb'[j])
          BY <5>2, <5>3, <5>4
        <5>. QED BY <1>2, <2>3, <2>6, <3>1, <5>6, <5>7
      <4>. QED BY <4>2, <4>3
    <3>. QED BY <1>1, <3>2, <3>3
  <2>. QED BY <2>2, <2>4, <2>5, <2>6
<1>10. CASE BuildNoMemory
  <2>1. UNCHANGED <<entry, table>> /\ UNCHANGED arch /\ run_' = run_ /\ ctl' = "nomem"
    BY <1>10 DEF BuildNoMemory, cache, arch
  <2>. QED BY <1>2, <1>3, <2>1
<1>11. CASE Update
  <2>1. /\ UNCHANGED arch /\ ctl = "update" /\ ctl' = (IF run_' THEN "lookup" ELSE "done")
    BY <1>11 DEF Update, BlockDone
  <2>2. /\ DOMAIN table' \subseteq DOMAIN table \cup {bb_pc}
        /\ entry'[table'[bb_pc]].page = bb
        /\ \A a \in DOMAIN table' : a # bb_pc => entry'[table'[a]] = entry[table[a]]
    BY <1>1, <1>11, UpdateKeeps DEF Update, TInv, LoopInv, TypeOK
  <2>3. run_ => Block(bb) /\ \A a \in DOMAIN table : Block(entry[table[a]].page)
    BY <1>1, <2>1 DEF RInv, UInv, RunInv
  <2>4. run_ => \A a \in DOMAIN table' : Block(entry'[table'[a]].page)
    <3>1. SUFFICES ASSUME run_, NEW a \in DOMAIN table' PROVE Block(entry'[table'[a]].page)
      OBVIOUS
    <3>2. CASE a = bb_pc
      BY <2>2, <2>3, <3>1, <3>2
    <3>3. CASE a # bb_pc
      <4>1. a \in DOMAIN table /\ entry'[table'[a]] = entry[table[a]]
        BY <2>2, <3>3
      <4>. QED BY <2>3, <3>1, <4>1
    <3>. QED BY <3>2, <3>3
  <2>5. run_' = run_
    BY <2>1 DEF arch
  <2>. QED BY <1>2, <2>1, <2>4, <2>5
<1>12. CASE UNCHANGED vars
  <2>1. /\ UNCHANGED arch /\ ctl' = ctl /\ bb' = bb /\ at' = at /\ ret' = ret
        /\ table' = table /\ entry' = entry /\ run_' = run_ /\ fetched' = fetched
        /\ pc' = pc /\ priv' = priv
    BY <1>12 DEF vars, loop, cache, arch
  <2>2. Fetched(pc)' = Fetched(pc)
    BY <2>1 DEF arch, Fetched, Translated
  <2>3. Replaying' = Replaying /\ Block(bb)' = Block(bb)
    BY <2>1 DEF Replaying, Block, Straight
  <2>. QED BY <1>1, <1>2, <2>1, <2>2, <2>3 DEF RInv
<1>. QED BY <1>4, <1>5, <1>6, <1>7, <1>8, <1>9, <1>10, <1>11, <1>12 DEF Next

LEMMA InitI == (\A c \in Images : HandlerExits(c)) /\ Init => IInv
BY InitT, InitU, InitR DEF IInv

LEMMA StepI == IInv /\ [Next]_vars => IInv'
BY StepT, StepU, StepR DEF IInv

\* With a handler that ends the run, a cached block is code user mode fetched at
\* its address and the ones after it: neither an instruction left over from
\* before a trap, nor the handler's, nor one out of order, although programs
\* store to their own code.
THEOREM UserCodeOnly ==
  ASSUME \A c \in Images : HandlerExits(c)
  PROVE  Spec => []CacheHoldsUserCode
PROOF
<1>1. IInv => CacheHoldsUserCode
  BY DEF IInv, UInv, RunInv, CacheHoldsUserCode
<1>. QED BY <1>1, InitI, StepI, PTL DEF Spec

\* With a handler that ends the run, blocks of any length are replayed whole and
\* in order: at each of its instructions pc_ is the address it was fetched from.
THEOREM WholeBlocks ==
  ASSUME \A c \in Images : HandlerExits(c)
  PROVE  Spec => []ReplayedInOrder
PROOF
<1>1. IInv => ReplayedInOrder
  BY ReplayedFetched DEF ReplayedInOrder, Replaying
<1>. QED BY <1>1, InitI, StepI, PTL DEF Spec

-----------------------------------------------------------------------------
(* Replaying is invisible as long as nothing that was fetched is overwritten,*)
(* and to programs that write code before they execute it: run implements    *)
(* RunSingle.                                                                *)

LEMMA InitF == Init => Fresh
BY DEF Init, Fresh

LEMMA StepF == IInv /\ Fresh /\ [Next /\ WritesFresh]_vars => Fresh'
PROOF
<1>. SUFFICES ASSUME IInv, Fresh, [Next /\ WritesFresh]_vars, NEW a \in Addr
              PROVE  fetched'[a] \subseteq {code'.virt[a]}
  BY DEF Fresh
<1>1. [Next]_vars /\ TInv /\ pc \in Addr
  BY DEF IInv, TInv, TypeOK, ArchTypeOK
<1>2. fetched'[a] \subseteq {code.virt[a]}
  BY <1>1, FetchedGrows DEF Fresh
<1>3. code'.virt[a] # code.virt[a] => fetched'[a] = {}
  BY DEF WritesFresh, vars, arch
<1>. QED BY <1>2, <1>3

\* RunSingle is instantiated with the variables of Hart: its instructions are
\* those of Hart.
LEMMA SameInstructions ==
  /\ Single!arch = arch /\ Single!FetchFaults = FetchFaults
  /\ Single!RaiseException = RaiseException /\ Single!Executed = Executed
  /\ Single!ArchInit = ArchInit /\ Single!StartRun = StartRun
  /\ Single!Fetched(pc) = Fetched(pc)
  /\ \A i : /\ Completes(i) => Single!Completes(i)
            /\ Traps(i) => Single!Traps(i)
            /\ Throws(i) => Single!Throws(i)
PROOF
<1>1. Single!M = M /\ Single!U = U /\ Single!arch = arch /\ Single!Addr = Addr
  BY DEF Single!M, M, Single!U, U, Single!arch, arch, Single!Addr, Addr
<1>2. Single!FetchFaults = FetchFaults /\ Single!Fetched(pc) = Fetched(pc)
  BY <1>1 DEF Single!FetchFaults, FetchFaults, Single!Translated, Translated, Single!Fetched, Fetched
<1>3. Single!RaiseException = RaiseException
  BY <1>1 DEF Single!RaiseException, RaiseException
<1>4. /\ Single!Executed = Executed /\ Single!ArchInit = ArchInit /\ Single!StartRun = StartRun
  BY <1>1 DEF Single!Executed, Executed, Single!ArchInit, ArchInit, Single!StartRun, StartRun
<1>5. ASSUME NEW i, Traps(i) PROVE Single!Traps(i)
  BY <1>1, <1>3, <1>5 DEF Traps, Single!Traps
<1>6. ASSUME NEW i, Throws(i) PROVE Single!Throws(i)
  BY <1>6 DEF Throws, Single!Throws, exec_wfi, Single!exec_wfi, exec_sfence_vma,
              Single!exec_sfence_vma
<1>7. ASSUME NEW i, Completes(i) PROVE Single!Completes(i)
  <2>1. \A a : (Continue(a) => Single!Continue(a)) /\ Single!next(a) = next(a)
    BY DEF Continue, Single!Continue, next, Single!next
  <2>2. Stop => Single!Stop
    BY DEF Stop, Single!Stop
  <2>3. exec_alu(i) => Single!exec_alu(i)
    BY <2>1 DEF exec_alu, Single!exec_alu
  <2>4. exec_load_store(i) => Single!exec_load_store(i)
    BY <2>1 DEF exec_load_store, Single!exec_load_store
  <2>5. exec_csr(i) => Single!exec_csr(i)
    BY <1>1, <2>1 DEF exec_csr, Single!exec_csr
  <2>6. exec_cond_branch(i) => Single!exec_cond_branch(i)
    BY <2>1 DEF exec_cond_branch, Single!exec_cond_branch
  <2>7. exec_jal(i) => Single!exec_jal(i)
    BY <2>1 DEF exec_jal, Single!exec_jal
  <2>8. exec_fence(i) => Single!exec_fence(i)
    BY <2>1 DEF exec_fence, Single!exec_fence
  <2>9. exec_ecall(i) => Single!exec_ecall(i)
    BY <2>1, <2>2 DEF exec_ecall, Single!exec_ecall
  <2>10. exec_ebreak(i) => Single!exec_ebreak(i)
    BY <2>2 DEF exec_ebreak, Single!exec_ebreak
  <2>11. exec_mret(i) => Single!exec_mret(i)
    BY <1>1 DEF exec_mret, Single!exec_mret
  <2>12. exec_sret(i) => Single!exec_sret(i)
    BY <1>1 DEF exec_sret, Single!exec_sret
  <2>13. exec_store(i) => Single!exec_store(i)
    BY <1>1, <2>1 DEF exec_store, Single!exec_store, Translated, Single!Translated
  <2>. QED
    BY <1>7, <2>3, <2>4, <2>5, <2>6, <2>7, <2>8, <2>9, <2>10, <2>11, <2>12, <2>13
    DEF Completes, Single!Completes
<1>. QED BY <1>1, <1>2, <1>3, <1>4, <1>5, <1>6, <1>7

\* One instruction of either loop of run is one call of run_single, when it is
\* the instruction memory holds.
LEMMA ExecuteRefines ==
  ASSUME run_, outcome = "running", ~FetchFaults,
         NEW i, i = Fetched(pc),
         \/ Completes(i) /\ Executed /\ outcome' = "running"
         \/ Traps(i) /\ outcome' = "running"
         \/ Throws(i) /\ outcome' = "thrown" /\ UNCHANGED arch
  PROVE  Single!Next
PROOF
<1>1. i = Single!Fetched(pc) /\ ~Single!FetchFaults
  BY SameInstructions
<1>2. \/ Single!Completes(i) /\ Single!Executed /\ outcome' = outcome
      \/ Single!Traps(i) /\ outcome' = outcome
      \/ Single!Throws(i) /\ outcome' = "thrown" /\ Single!arch' = Single!arch
  <2>1. CASE Completes(i) /\ Executed /\ outcome' = "running"
    BY <2>1, SameInstructions
  <2>2. CASE Traps(i) /\ outcome' = "running"
    BY <2>2, SameInstructions
  <2>3. CASE Throws(i) /\ outcome' = "thrown" /\ UNCHANGED arch
    <3>1. Single!arch' = Single!arch
      BY <2>3 DEF arch, Single!arch
    <3>. QED BY <2>3, <3>1, SameInstructions
  <2>. QED BY <2>1, <2>2, <2>3
<1>3. Single!Execute
  BY <1>1, <1>2 DEF Single!Execute
<1>. QED BY <1>3 DEF Single!Next

LEMMA InitRefines == Init => Single!Init
BY SameInstructions DEF Init, outcome, Single!Init

LEMMA StepRefines ==
  IInv /\ Fresh /\ [Next]_vars => [Single!Next]_<<Single!arch, outcome>>
PROOF
<1>. SUFFICES ASSUME IInv, Fresh, [Next]_vars
              PROVE  Single!Next \/ UNCHANGED <<Single!arch, outcome>>
  OBVIOUS
<1>1. ASSUME UNCHANGED arch, outcome' = outcome PROVE UNCHANGED <<Single!arch, outcome>>
  BY <1>1 DEF arch, Single!arch
<1>2. CASE Start
  <2>1. outcome = "idle" /\ outcome' = "running" /\ Single!StartRun
    BY <1>2, SameInstructions DEF Start, outcome
  <2>. QED BY <2>1 DEF Single!Next, Single!Start
<1>3. CASE LookupHit \/ LookupMiss \/ BuildNoMemory
  <2>1. UNCHANGED arch /\ outcome' = outcome
    BY <1>3 DEF LookupHit, LookupMiss, BuildNoMemory, outcome
  <2>. QED BY <1>1, <2>1
<1>4. CASE Replay
  <2> DEFINE i == ret.page[at]
  <2>1. /\ run_ /\ priv = U /\ i \in fetched[pc] /\ ~FetchFaults /\ ctl = "replay" /\ pc \in Addr
    BY <1>4, ReplayedFetched DEF Replay, IInv, TInv, TypeOK, ArchTypeOK
  <2>2. \/ Completes(i) /\ Executed /\ ctl' \in {"lookup", "done", "replay"}
        \/ Traps(i) /\ ctl' = "lookup"
        \/ Throws(i) /\ ctl' = "thrown" /\ UNCHANGED arch
    BY <1>4, <2>1 DEF Replay, BlockDone
  <2>3. outcome = "running" /\ priv # M
    BY <2>1 DEF outcome, U, M
  <2>. HIDE DEF i
  <2>4. i = Fetched(pc)
    BY <2>1, <2>3 DEF Fresh, Fetched, Translated
  <2>5. \/ Completes(i) /\ Executed /\ outcome' = "running"
        \/ Traps(i) /\ outcome' = "running"
        \/ Throws(i) /\ outcome' = "thrown" /\ UNCHANGED arch
    BY <2>2 DEF outcome
  <2>. QED BY <2>1, <2>3, <2>4, <2>5, ExecuteRefines
<1>5. CASE BuildFetchFault
  <2>1. run_ /\ outcome = "running" /\ outcome' = "running"
    BY <1>5 DEF BuildFetchFault, outcome, IInv, RInv
  <2>2. Single!FetchFaults /\ Single!RaiseException
    BY <1>5, SameInstructions DEF BuildFetchFault
  <2>. QED BY <2>1, <2>2 DEF Single!Next, Single!FetchFault
<1>6. CASE Build
  <2> DEFINE i == Fetched(pc)
  <2>1. run_ /\ ~FetchFaults /\ ctl = "build"
    BY <1>6 DEF Build, IInv, RInv
  <2>2. \/ Completes(i) /\ Executed /\ ctl' \in {"update", "build"}
        \/ Traps(i) /\ ctl' = "lookup"
        \/ Throws(i) /\ ctl' = "thrown" /\ UNCHANGED arch
    BY <1>6 DEF Build
  <2>3. i = Fetched(pc)
    OBVIOUS
  <2>. HIDE DEF i
  <2>4. \/ Completes(i) /\ Executed /\ outcome' = "running"
        \/ Traps(i) /\ outcome' = "running"
        \/ Throws(i) /\ outcome' = "thrown" /\ UNCHANGED arch
    BY <2>2 DEF outcome
  <2>5. outcome = "running"
    BY <2>1 DEF outcome
  <2>. QED BY <2>1, <2>3, <2>4, <2>5, ExecuteRefines
<1>7. CASE Update
  <2>1. UNCHANGED arch /\ ctl = "update" /\ ctl' \in {"lookup", "done"}
    BY <1>7 DEF Update, BlockDone
  <2>2. outcome' = outcome
    BY <2>1 DEF outcome
  <2>. QED BY <1>1, <2>1, <2>2
<1>8. CASE UNCHANGED vars
  <2>1. UNCHANGED arch /\ outcome' = outcome
    BY <1>8 DEF vars, loop, outcome
  <2>. QED BY <1>1, <2>1
<1>. QED BY <1>2, <1>3, <1>4, <1>5, <1>6, <1>7, <1>8 DEF Next

\* As long as nothing user mode has fetched is overwritten, each step of run is
\* one of run_single, in every program, or cannot be seen.
THEOREM StepsAsRunSingle ==
  ASSUME \A c \in Images : HandlerExits(c)
  PROVE  Spec => ImplementsRunSingle
PROOF
<1>1. IInv /\ [Next]_vars => [Fresh => [Single!Next]_<<Single!arch, outcome>>]_vars
  BY StepRefines
<1>. QED
  BY <1>1, InitI, StepI, InitRefines, PTL DEF Spec, ImplementsRunSingle

\* run executes every program that writes code only before it executes it as
\* run_single does from beginning to end, each instruction the one memory holds
\* at that moment, with the same traps and the same count: run implements
\* RunSingle, and the cache of blocks cannot be seen.
THEOREM RefinesRunSingle ==
  ASSUME \A c \in Images : HandlerExits(c)
  PROVE  FreshSpec => Single!Spec
PROOF
<1>1. [Next /\ WritesFresh]_vars => [Next]_vars
  OBVIOUS
<1>. QED
  BY <1>1, InitI, StepI, InitF, StepF, InitRefines, StepRefines, PTL
  DEF FreshSpec, Single!Spec
=============================================================================
