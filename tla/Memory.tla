------------------------------- MODULE Memory -------------------------------
(***************************************************************************)
(* The memory of the slots (OSTask/memory.c) on the translation tables of  *)
(* Mmu and the physical memory of RawMemory, from boot on.  Every function *)
(* changes its core's tables with interrupts disabled, and the shared ones *)
(* under mmu.lock or rawmemory.lock; a step is an exception, or what a     *)
(* core does between two locks at boot.  The OSTask executed by a core is  *)
(* one of the slot that is currently_mapped.  The pipes' part of a slot is *)
(* in Pipes.                                                               *)
(***************************************************************************)
EXTENDS Mmu

CONSTANTS
  Slots, FirstSlot,   \* shared.ostask.first
  AppPages,           \* app_memory_limit
  AppBase,            \* 0x8000
  ScratchVa, ScratchPages,  \* 0x4000, 4
  LogVa, LogPages,    \* log_pipe; half its size
  VectorsVa,          \* 0xffff0000
  TablesVa,           \* VMSAv6_Level2_Tables
  Pools,              \* <<[va, pages], ..>>, in the order of setup_pools
  Shared,             \* {[va, pages], ..}: what modules and the kernel's SWIs map
  Devices,            \* {[va, base], ..}: what modules map in their slots
  FreeBase,           \* top_of_boot_RAM
  FreeCounts,         \* how much memory there may be to be going on with
  Pages,              \* bound: the pages that tasks use
  Tops,               \* bound: the tops that tasks ask for
  MayShrink,          \* bound: a task may ask for less than it has
  MaxBlocks,          \* bound: of a slot, at most 30
  MaxCalls,           \* bound: the calls that tasks make
  None

ASSUME SlotsAssumption ==
  /\ FirstSlot \in Slots /\ IsFiniteSet(Slots)
  /\ section_aligned(AppPages) /\ AppBase < AppPages
  /\ \A count \in FreeCounts : FreeEnds(FreeBase, count)
  /\ None \notin Cores

VARIABLES
  raw, mmu,           \* see RawMemory and Mmu
  stage,              \* how far a core is in boot_with_stack, or how it stopped
  ostask_lock,        \* shared.ostask.lock during boot: a core or None
  pool,               \* shared.mmu.free: "0", "1" or "ready"
  vectors,            \* pages the exception vectors have been written in
  log,                \* each core's log pipe
  shared,             \* of Shared, what has been mapped
  app_mem,            \* per slot
  mapped,             \* currently_mapped
  scratch,            \* legacy_scratch_space: 0, or a page
  cleared,            \* the pages below had been cleared when the slot was mapped
  failed,             \* history: the slots that have a block from a failed claim
  calls               \* made by tasks

bootVars == <<ostask_lock, pool, vectors, log>>
slotVars == <<app_mem, mapped, scratch, cleared, failed>>
vars     == <<raw, mmu, stage, shared, calls, bootVars, slotVars>>

Stages == {"start", "vectors", "log", "tables", "making", "runs",
           "abort", "panic", "panic with mmu.lock", "panic with rawmemory.lock"}

Entry == [type : 0 .. 2, to : Nat \cup Tables \cup {Kernel, ask_slot, check_global_table}]
Block == [va : Nat, pages : Nat \ {0}, base : Nat, device : BOOLEAN]

\* Every variable is of its kind; the entries of the tables are handlers, tables
\* or memory.
TypeOK ==
  /\ raw.sections \subseteq FreeSections
  /\ raw.early \in [1 .. Entries -> [base : Nat, count : 0 .. PagesPerSection - 1]]
  /\ mmu.l1 \in [Cores -> [Sections -> Entry]]
  /\ mmu.kernel \in [Cores -> [Indices -> Entry]]
  /\ mmu.tables \in [Tables -> [Indices -> Entry]]
  /\ mmu.free \in Seq(Tables)
  /\ mmu.stop = "no"
  /\ stage \in [Cores -> Stages]
  /\ ostask_lock \in Cores \cup {None}
  /\ pool \in {"0", "1", "ready"}
  /\ vectors \subseteq Nat /\ log \in [Cores -> Nat] /\ scratch \in Nat
  /\ shared \subseteq Shared
  /\ app_mem \in [Slots -> Seq(Block)]
  /\ mapped \in [Cores -> Slots \cup {None}]
  /\ cleared \in [Cores -> Nat]
  /\ failed \subseteq Slots
  /\ calls \in 0 .. MaxCalls

Init ==
  /\ raw = NoMemory /\ mmu = DefaultTables
  /\ stage = [c \in Cores |-> "start"]
  /\ ostask_lock = None /\ pool = "0" /\ vectors = {}
  /\ log = [c \in Cores |-> 0]
  /\ shared = {}
  /\ app_mem = [s \in Slots |-> <<>>]
  /\ mapped = [c \in Cores |-> None]
  /\ scratch = 0
  /\ cleared = [c \in Cores |-> 0]
  /\ failed = {}
  /\ calls = 0

-----------------------------------------------------------------------------
End(b) == b.va + b.pages
InBlock(b, page) == page \in PagesOf(b.va, b.pages)

\* Where a block for page belongs in the slot's blocks.
find_block(blocks, page) ==
  1 + Max({0} \cup {n \in 1 .. Len(blocks) : \A i \in 1 .. n : blocks[i].va < page})

Insert(blocks, b) == InsertAt(blocks, find_block(blocks, b.va), b)

\* The end of the blocks that follow each other without a gap, from AppBase on.
\* A device below AppBase counts, and what follows it does not.
app_top(blocks) ==
  LET Follows(i) == blocks[i].va <= IF i = 1 THEN AppBase ELSE End(blocks[i - 1])
      n == Max({0} \cup {k \in 1 .. Len(blocks) : \A i \in 1 .. k : Follows(i)})
  IN IF n = 0 THEN AppBase ELSE End(blocks[n])

\* The blocks below new, the last one shortened.  What is above is not freed.
Shrunk(blocks, new) ==
  LET low(b) == b.va < new
      Cut(b) == [b EXCEPT !.pages = IF End(b) <= new THEN @ ELSE new - b.va]
      kept   == SelectSeq(blocks, low)
  IN [i \in 1 .. Len(kept) |-> Cut(kept[i])]

NoBlock == [va |-> 0, pages |-> 0, base |-> 0, device |-> FALSE]

block_containing(m, c, page) ==
  LET blocks == app_mem[mapped[c]]
      with   == {i \in 1 .. Len(blocks) : InBlock(blocks[i], page)}
      area   == walk_global_tree(m, c, page)
  IN CASE page >= AppPages -> [area EXCEPT !.va = @] @@ [device |-> FALSE]
       [] with = {}        -> NoBlock
       [] OTHER            -> blocks[Min(with)]

Mapping(base, pages, va, all_cores) ==
  [base |-> base, pages |-> pages, va |-> va, all_cores |-> all_cores, device |-> FALSE]

\* The whole block is mapped where it is in the slot.
AskSlot(m, c, page) ==
  LET b == block_containing(m, c, page)
  IN IF b.pages = 0 THEN [m EXCEPT !.stop = "abort"]
     ELSE map_memory(m, c, [Mapping(b.base, b.pages, b.va, FALSE)
                              EXCEPT !.device = b.device])

\* handle_data_abort, handle_prefetch_abort: the entry names the handler.
Fault(m, c, page) ==
  LET checked  == check_global(m, c, page)
      answered == [checked EXCEPT !.stop = "no"]
  IN CASE Lookup(m, c, page).to = ask_slot -> AskSlot(m, c, page)
       [] checked.stop = "other handler"   -> AskSlot(answered, c, page)
       [] OTHER                            -> checked

\* The core reads or writes, when that is no fault or has been dealt with.
Touch(m, c, page) ==
  IF m.stop # "no" \/ Translated(m, c, page) THEN m ELSE Fault(m, c, page)

\* A bug the code might have: the part of a section that is left is not cleared.
clear_app_virtual_memory_areaShort(m, c, blocks, base) ==
  map_memory(clear_sections(m, c, 0 .. SectionOf(app_top(blocks)) - 1, ask_slot),
             c, Mapping(base, ScratchPages, ScratchVa, TRUE))

\* The top is rounded up to a section, nearly.  The scratch space is the same for
\* all slots, and mapped again each time.
clear_app_virtual_memory_area(m, c, blocks, base) ==
  LET pages == app_top(blocks) + PagesPerSection - 1
      n     == clear_memory_region(m, c, 0, pages, ask_slot)
  IN IF n.stop # "no" THEN n
     ELSE map_memory(n, c, Mapping(base, ScratchPages, ScratchVa, TRUE))

-----------------------------------------------------------------------------
\* A task on core c makes a call.
Calls(c) == stage[c] = "runs" /\ calls < MaxCalls /\ calls' = calls + 1

\* What core c does leads to tables m, and unless it stops it is at stage next.
Leads(c, m, next) ==
  /\ mmu' = [m EXCEPT !.stop = "no"]
  /\ stage' = [stage EXCEPT ![c] = IF m.stop = "no" THEN next ELSE m.stop]

\* No core has stopped with the lock.
CanMap   == \A c \in Cores : stage[c] # "panic with mmu.lock"
CanClaim == \A c \in Cores : stage[c] # "panic with rawmemory.lock"

\* The memory and the tables after a claim of an area's pages and a mapping of
\* them for all cores, whether there were any or not; ..
ClaimAndMap(rm, c, area) ==
  LET got == claim_contiguous_memory(rm.raw, area.pages)
  IN [raw |-> got.raw,
      mmu |-> map_memory(rm.mmu, c, Mapping(got.base, area.pages, area.va, TRUE))]

\* .. and for what the kernel cannot do without.
ClaimOrPanic(rm, c, area) ==
  IF rm.mmu.stop # "no" THEN rm
  ELSE IF claim_contiguous_memory(rm.raw, area.pages).base = Unavailable
  THEN [rm EXCEPT !.mmu = Panic(@)]
  ELSE ClaimAndMap(rm, c, area)

\* forget_boot_low_memory_mapping, then with ostask.lock: the first core in sets
\* up the pools.  Each has its own page for the vectors, and maps it for all.
BootStart(c) ==
  LET forgotten == forget_boot_low_memory_mapping(mmu, c)
      first == mapped = [d \in Cores |-> None] /\ \A d \in Cores : stage[d] = "start"
      Make(rm, area) == ClaimOrPanic(rm, c, area)
      With(memory, areas) == FoldLeft(Make, [raw |-> memory, mmu |-> forgotten],
                                      areas \o <<[va |-> VectorsVa, pages |-> 1]>>)
      Starts(rm) == raw' = rm.raw /\ Leads(c, rm.mmu, "vectors")
  IN /\ stage[c] = "start" /\ ostask_lock = None
     /\ ostask_lock' = c
     /\ IF first
        THEN \E count \in FreeCounts :
               Starts(With(free_contiguous_memory(NoMemory, FreeBase, count), Pools))
        ELSE Starts(With(raw, <<>>))
     /\ UNCHANGED <<pool, vectors, log, shared, calls, slotVars>>

\* A bug the code might have: only the first core writes vectors.
BootVectorsOnce(c) ==
  /\ stage[c] = "vectors"
  /\ vectors' = IF vectors = {} THEN {Lookup(mmu, c, VectorsVa).to} ELSE vectors
  /\ ostask_lock' = None
  /\ stage' = [stage EXCEPT ![c] = "log"]
  /\ UNCHANGED <<raw, mmu, pool, log, shared, calls, slotVars>>

\* The rest of setup_processor_vectors, and release_ostask.
BootVectors(c) ==
  /\ stage[c] = "vectors"
  /\ vectors' = vectors \cup {Lookup(mmu, c, VectorsVa).to}
  /\ ostask_lock' = None
  /\ stage' = [stage EXCEPT ![c] = "log"]
  /\ UNCHANGED <<raw, mmu, pool, log, shared, calls, slotVars>>

\* create_log_pipe, for this core only and twice; map_first_slot.
BootLog(c) ==
  LET got   == claim_contiguous_memory(raw, LogPages)
      none  == got.base = Unavailable
      once  == map_memory(mmu, c, Mapping(got.base, LogPages, LogVa, FALSE))
      twice == map_memory(once, c, Mapping(got.base, LogPages, LogVa + LogPages, FALSE))
  IN /\ stage[c] = "log"
     /\ raw' = got.raw
     /\ log' = [log EXCEPT ![c] = got.base]
     /\ mapped' = [mapped EXCEPT ![c] = IF none THEN @ ELSE FirstSlot]
     /\ cleared' = [cleared EXCEPT ![c] = IF none THEN @ ELSE AppPages]
     /\ Leads(c, IF none THEN Panic(mmu)
                         ELSE clear_memory_region(twice, c, 0, AppPages, ask_slot), "tables")
     /\ UNCHANGED <<ostask_lock, pool, vectors, shared, calls, app_mem, scratch, failed>>

\* mmu_establish_resources: one core changes 0 to 1 ..
BootEstablish(c) ==
  /\ stage[c] = "tables" /\ pool = "0"
  /\ pool' = "1"
  /\ stage' = [stage EXCEPT ![c] = "making"]
  /\ UNCHANGED <<raw, mmu, ostask_lock, vectors, log, shared, calls, slotVars>>

\* .. and makes the pool; ..
BootMakePool(c) ==
  LET rm == ClaimOrPanic([raw |-> raw, mmu |-> mmu], c,
                         [va |-> TablesVa, pages |-> PagesPerSection])
  IN /\ stage[c] = "making"
     /\ raw' = rm.raw
     /\ pool' = IF rm.mmu.stop = "no" THEN "ready" ELSE pool
     /\ Leads(c, Touch([rm.mmu EXCEPT !.free = SetToSeq(Tables)], c, Pools[1].va), "runs")
     /\ UNCHANGED <<ostask_lock, vectors, log, shared, calls, slotVars>>

\* .. the others wait for it.  Then they touch the pools that fault handlers use.
BootWait(c) ==
  /\ stage[c] = "tables" /\ pool = "ready"
  /\ Leads(c, Touch(Touch(mmu, c, TablesVa), c, Pools[1].va), "runs")
  /\ UNCHANGED <<raw, shared, calls, bootVars, slotVars>>

\* A task uses a page that is not in its core's tables.
Access(c, page) ==
  /\ stage[c] = "runs" /\ CanMap
  /\ ~Translated(mmu, c, page)
  /\ Leads(c, Fault(mmu, c, page), "runs")
  /\ UNCHANGED <<raw, shared, calls, bootVars, slotVars>>

\* OSTask_MapDevicePages.
map_device_pages(c, d) ==
  LET s == mapped[c]
  IN /\ Calls(c)
     /\ \A i \in 1 .. Len(app_mem[s]) : app_mem[s][i].va # d.va
     /\ Len(app_mem[s]) < MaxBlocks
     /\ app_mem' = [app_mem EXCEPT ![s] =
          Insert(@, [va |-> d.va, pages |-> 1, base |-> d.base, device |-> TRUE])]
     /\ UNCHANGED <<raw, mmu, stage, shared, bootVars, mapped, scratch, cleared, failed>>

\* OSTask_AppMemoryTop with another top than the present one.  Nobody looks
\* whether the memory for it was available.
app_memory_grows(c, new) ==
  LET s   == mapped[c]
      top == app_top(app_mem[s])
      got == claim_contiguous_memory(raw, new - top)
      b   == [va |-> top, pages |-> new - top, base |-> got.base, device |-> FALSE]
  IN /\ Calls(c) /\ CanClaim /\ new > top /\ Len(app_mem[s]) < MaxBlocks
     /\ raw' = got.raw
     /\ IF got.base = Panics
        THEN /\ stage' = [stage EXCEPT ![c] = "panic with rawmemory.lock"]
             /\ UNCHANGED <<app_mem, failed>>
        ELSE /\ app_mem' = [app_mem EXCEPT ![s] = Insert(@, b)]
             /\ failed' = failed \cup (IF got.base = Unavailable THEN {s} ELSE {})
             /\ UNCHANGED stage
     /\ UNCHANGED <<mmu, shared, bootVars, mapped, scratch, cleared>>

app_memory_shrinks(c, new) ==
  LET s == mapped[c]
  IN /\ Calls(c) /\ MayShrink /\ new < app_top(app_mem[s])
     /\ app_mem' = [app_mem EXCEPT ![s] = Shrunk(@, new)]
     /\ UNCHANGED <<raw, mmu, stage, shared, bootVars, mapped, scratch, cleared, failed>>

\* A task of another slot is resumed: map_slot, with the new task already running.
map_slot(c, s) ==
  LET claimed == claim_contiguous_memory(raw, ScratchPages)
      base    == IF scratch = 0 THEN claimed.base ELSE scratch
      m       == clear_app_virtual_memory_area(mmu, c, app_mem[s], base)
      stopped == m.stop = "panic"  \* before the scratch space is looked at
  IN /\ Calls(c) /\ CanMap /\ (scratch = 0 => CanClaim)
     /\ mapped[c] # s
     /\ raw' = IF scratch = 0 /\ ~stopped THEN claimed.raw ELSE raw
     /\ scratch' = IF stopped THEN scratch ELSE base
     /\ mapped' = [mapped EXCEPT ![c] = IF m.stop = "no" THEN s ELSE @]
     /\ cleared' = [cleared EXCEPT ![c] =
          IF m.stop = "no" THEN app_top(app_mem[s]) + PagesPerSection - 1 ELSE @]
     /\ Leads(c, m, "runs")
     /\ UNCHANGED <<shared, bootVars, app_mem, failed>>

\* A module, or the kernel's SWIs, map memory for all cores.
MapShared(c, area) ==
  LET rm == ClaimAndMap([raw |-> raw, mmu |-> mmu], c, area)
  IN /\ Calls(c) /\ CanMap /\ CanClaim
     /\ area \notin shared
     /\ shared' = shared \cup {area}
     /\ raw' = rm.raw
     /\ Leads(c, rm.mmu, "runs")
     /\ UNCHANGED <<bootVars, slotVars>>

CoreNext(c) ==
  \/ BootStart(c) \/ BootVectors(c) \/ BootLog(c)
  \/ BootEstablish(c) \/ BootMakePool(c) \/ BootWait(c)
  \/ \E page \in Pages : Access(c, page)
  \/ \E d \in Devices : map_device_pages(c, d)
  \/ \E new \in Tops : app_memory_grows(c, new) \/ app_memory_shrinks(c, new)
  \/ \E s \in Slots : map_slot(c, s)
  \/ \E area \in Shared : MapShared(c, area)

Next == \E c \in Cores : CoreNext(c)
Spec == Init /\ [][Next]_vars

-----------------------------------------------------------------------------
\* Which cores have a table of the pool, in which section.
Uses == {cs \in Cores \X Sections :
           /\ mmu.l1[cs[1]][cs[2]].type = 1 /\ mmu.l1[cs[1]][cs[2]].to # Kernel}

\* A second level table is free or in use.  It is in use in one section, and for
\* one core, or for every core that shares the table in the global one.  (The
\* tables of whole sections are given back when a slot is unmapped, while other
\* cores, with other slots, take some, and modules make tables to be shared.)
TablesHaveOneUse ==
  LET TableOf(u) == mmu.l1[u[1]][u[2]].to
  IN /\ IsInjective(mmu.free)
     /\ \A u \in Uses : ~Contains(mmu.free, TableOf(u))
     /\ \A u, v \in Uses : TableOf(u) = TableOf(v) =>
          /\ u[2] = v[2]
          /\ u[1] = v[1] \/ Global(mmu, u[2]) = Table(TableOf(u))

\* What is mapped for all cores is the same memory on every core that has it in
\* its tables, whoever mapped it, and in whichever order the cores shared a
\* table, copied an entry or made the mapping.  (The page for the exception
\* vectors is not: each core maps its own for all.)
SharedIsTheSame ==
  LET own == (0 .. AppPages - 1) \cup {VectorsVa} \cup PagesOf(LogVa, 2 * LogPages)
  IN \A c \in Cores \ {Core0}, page \in VirtualPages \ own :
       Translated(mmu, c, page) => Lookup(mmu, c, page) = Lookup(mmu, Core0, page)

\* The memory a slot has been given (a block of its array may be a failed claim).
Own(s) == UNION {PagesOf(app_mem[s][i].base, app_mem[s][i].pages) :
                   i \in {j \in 1 .. Len(app_mem[s]) :
                           ~app_mem[s][j].device /\ app_mem[s][j].base # Unavailable}}

\* The memory of the kernel: vectors, log pipes, the scratch space, and what is
\* mapped above the slots' memory on any core (the pools, the second level tables,
\* what modules have mapped), but for areas that there was no memory for.
KernelPages ==
  LET Failed(c, area) == Lookup(mmu, c, area.va).to = Unavailable
      Has(c) == {page \in VirtualPages :
                   /\ page >= AppPages /\ Translated(mmu, c, page)
                   /\ \A area \in shared :
                        page \in PagesOf(area.va, area.pages) => ~Failed(c, area)}
  IN UNION {{Lookup(mmu, c, page).to : page \in Has(c)} : c \in Cores}
       \cup vectors \cup (({scratch} \cup {log[c] : c \in Cores}) \ {0, Unavailable})

\* No page is given twice: to two slots, or to a slot and the kernel; and what
\* has been given is not free, until and after the memory runs out.
MemoryGivenOnce ==
  /\ \A s \in Slots : \A r \in Slots \ {s} : Own(s) \cap Own(r) = {}
  /\ \A s \in Slots : Own(s) \cap KernelPages = {}
  /\ FreePages(raw) \cap (KernelPages \cup UNION {Own(s) : s \in Slots}) = {}

\* Below the pages that were cleared when a core's slot was mapped, no address
\* leads to the memory of another slot, whatever the slot, and others on other
\* cores, map, grow to and give up afterwards.  (A slot that was given memory that
\* there was not has the first pages of all the memory instead.)
NoOtherSlotsMemory ==
  \A c \in Cores : mapped[c] \notin failed \cup {None} =>
    LET others == UNION {Own(s) : s \in Slots \ {mapped[c]}}
    IN \A page \in 0 .. Min({cleared[c], AppPages}) - 1 :
         Translated(mmu, c, page) => Lookup(mmu, c, page).to \notin others

\* The vectors have been written in the page a core has for them, but for core 0
\* while another core sets up its own: that page is core 0's until the next.
VectorsAreWritten ==
  \A c \in Cores :
    /\ stage[c] \notin {"start", "vectors", "panic", "panic with mmu.lock"}
    /\ c # Core0 \/ ostask_lock = None
    => Lookup(mmu, c, VectorsVa).to \in vectors

=============================================================================
