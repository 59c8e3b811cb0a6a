--------------------------------- MODULE Mmu ---------------------------------
(***************************************************************************)
(* Translation tables (Processor/VMSAv6/mmu.c), as functions of            *)
(*                                                                         *)
(*   m = [l1:     each core's first level table, an entry per section,     *)
(*        kernel: each core's local_kernel_page_table, for the top section,*)
(*        tables: the second level tables in the shared pool,              *)
(*        free:   the ring shared.mmu.free of those that are not in use,   *)
(*        stop:   how the core that calls ended up, if it did]             *)
(*                                                                         *)
(* Addresses are page numbers.  An entry is [type, to]: a fault handler    *)
(* (0), a table (1) or memory (2).  The global tables are those of core 0, *)
(* whose workspace is the core0_workspace of                               *)
(* create_default_translation_tables.                                      *)
(*                                                                         *)
(* Whole sections and small pages are modelled with what they translate to;*)
(* cacheing, sharing and access bits are not.  All changes end with        *)
(* TLBIALL.  Regions to clear and blocks to map begin where the callers'   *)
(* do: the former at a section.                                            *)
(***************************************************************************)
EXTENDS RawMemory

CONSTANTS
  Cores, Core0,
  Sections,             \* of virtual memory, 0 .. n
  BootSections,         \* of memory, mapped where they are while a core starts
  Tables,               \* VMSAv6_Level2_Tables
  Kernel,               \* stands for each core's local_kernel_page_table
  ask_slot, check_global_table,  \* the handlers
  Frames                \* pages of physical memory, 2^20

ASSUME MmuAssumption ==
  /\ Core0 \in Cores /\ IsFiniteSet(Cores)
  /\ Sections \subseteq Nat
  /\ IsFiniteSet(Tables) /\ Kernel \notin Tables
  /\ ask_slot # check_global_table

PageIndex(page) == page % PagesPerSection
Indices == 0 .. PagesPerSection - 1
TopSection == Max(Sections)
VirtualPages == {s * PagesPerSection + i : s \in Sections, i \in Indices}

Handler(h)  == [type |-> 0, to |-> h]
Table(t)    == [type |-> 1, to |-> t]
Memory(p)   == [type |-> 2, to |-> p]

AllEntries(e) == [i \in Indices |-> e]

\* create_default_translation_tables for every core; the top section's pages
\* that it maps (its workspace), and the sections of the OS image, are left out.
DefaultTables ==
  [l1     |-> [c \in Cores |-> [s \in Sections |->
                 CASE s = TopSection   -> Table(Kernel)
                   [] s < BootSections -> Memory(s * PagesPerSection)
                   [] OTHER            -> Handler(check_global_table)]],
   kernel |-> [c \in Cores |-> AllEntries(Handler(check_global_table))],
   tables |-> [t \in Tables |-> AllEntries(Handler(check_global_table))],
   free   |-> <<>>,
   stop   |-> "no"]

Global(m, s) == m.l1[Core0][s]

\* What the second level table is that core c's entry e leads to.
mapped_table(m, c, e) == IF e.to = Kernel THEN m.kernel[c] ELSE m.tables[e.to]

\* The entry for a page.
Lookup(m, c, page) ==
  LET e == m.l1[c][SectionOf(page)]
  IN CASE e.type = 1 -> mapped_table(m, c, e)[PageIndex(page)]
       [] e.type = 2 -> Memory(e.to + PageIndex(page))
       [] OTHER      -> e

Translated(m, c, page) == Lookup(m, c, page).type = 2

Panic(m)         == [m EXCEPT !.stop = "panic"]
PanicWithLock(m) == [m EXCEPT !.stop = "panic with mmu.lock"]

-----------------------------------------------------------------------------
\* A bug the code might have: the table given stays in the ring.
get_free_tableNotTaken(m) ==
  IF Len(m.free) < 2 THEN [m |-> PanicWithLock(m), table |-> Kernel]
                     ELSE [m |-> m, table |-> m.free[2]]

\* The second of the ring, so that the head stays what it is; the last one is
\* never given.  [m, table]
get_free_table(m) ==
  IF Len(m.free) < 2 THEN [m |-> PanicWithLock(m), table |-> Kernel]
  ELSE [m |-> [m EXCEPT !.free = RemoveAt(@, 2)], table |-> m.free[2]]

\* The tables of whole sections go back to the pool, at its head.
clear_sections(m, c, sections, handler) ==
  LET used  == {s \in sections : m.l1[c][s].type = 1}
      freed == [i \in 1 .. Cardinality(used) |->
                  m.l1[c][SetToSortSeq(used, >)[i]].to]
  IN [m EXCEPT !.l1[c] = [s \in Sections |->
                            IF s \in sections THEN Handler(handler) ELSE @[s]],
               !.free = freed \o @]

\* The region ends inside section s, before its page n.
clear_part(m, c, s, n, handler) ==
  LET old == m.l1[c][s]
      new == get_free_table(m)
      Partly(rest) == [i \in Indices |-> IF i < n THEN Handler(handler) ELSE rest[i]]
  IN CASE old.type = 1 -> [m EXCEPT !.tables[old.to] = Partly(@)]
       [] old.type = 2 -> Panic(m)
       [] new.m.stop # "no" -> new.m
       [] OTHER -> [new.m EXCEPT !.l1[c][s] = Table(new.table),
                                 !.tables[new.table] = Partly(AllEntries(old))]

clear_memory_region(m, c, first, pages, handler) ==
  LET s       == SectionOf(first)
      last    == s + SectionOf(pages)
      cleared == clear_sections(m, c, s .. last - 1, handler)
  IN IF PageIndex(pages) = 0 THEN cleared
     ELSE clear_part(cleared, c, last, PageIndex(pages), handler)

forget_boot_low_memory_mapping(m, c) ==
  clear_memory_region(m, c, 0, BootSections * PagesPerSection, check_global_table)

-----------------------------------------------------------------------------
\* map = [base, pages, va, all_cores, device]

map_sections(m, c, map) ==
  LET start == SectionOf(map.va)
      mapped == start .. start + SectionOf(map.pages) - 1
      Entry(s) == Memory(map.base + (s - start) * PagesPerSection)
  IN [m EXCEPT !.l1 = [d \in Cores |-> [s \in Sections |->
        IF s \in mapped /\ (d = c \/ (d = Core0 /\ map.all_cores))
        THEN Entry(s) ELSE @[d][s]]]]

\* A bug the code might have: a core makes a table of its own where there is one
\* to share.
section_tableUnshared(m, c, s, all_cores) ==
  LET old == m.l1[c][s]
      own == get_free_table(m)
  IN CASE old.type # 0 -> m
       [] own.m.stop # "no" -> own.m
       [] OTHER -> [own.m EXCEPT !.l1[c][s] = Table(own.table),
                                 !.tables[own.table] = AllEntries(old)]

\* A section without a table gets one: the global one, if it is checked and
\* there is one, or a new one.  A page for this core alone in a section that is
\* checked leaves an empty table for the others.
section_table(m, c, s, all_cores) ==
  LET old    == m.l1[c][s]
      checked == old = Handler(check_global_table)
      own    == get_free_table(m)
      others == get_free_table(own.m)
      New(n) == [n EXCEPT !.l1[c][s] = Table(own.table),
                          !.tables[own.table] = AllEntries(old)]
  IN CASE old.type # 0 -> m
       [] checked /\ all_cores /\ Global(m, s).type = 1 ->
            [m EXCEPT !.l1[c][s] = Global(m, s)]
       [] own.m.stop # "no" -> own.m
       [] ~checked -> New(own.m)
       [] checked /\ all_cores /\ Global(m, s).type # 1 ->
            New([own.m EXCEPT !.l1[Core0][s] = Table(own.table)])
       [] others.m.stop # "no" -> others.m
       [] OTHER -> New([others.m EXCEPT !.l1[Core0][s] = Table(others.table),
                                        !.tables[others.table] = AllEntries(old)])

\* The index of a page in its table has eight bits: a block that does not end in
\* the section it begins in goes on at the beginning of the same table.
PageFor(map, i) ==
  LET n == {k \in 0 .. map.pages - 1 : PageIndex(map.va + k) = i}
  IN IF n = {} THEN {} ELSE {Memory((map.base + Max(n)) % Frames)}

fill_table(m, c, e, map) ==
  LET Filled(old) == [i \in Indices |->
        IF PageFor(map, i) = {} THEN old[i] ELSE CHOOSE x \in PageFor(map, i) : TRUE]
  IN IF e.to = Kernel THEN [m EXCEPT !.kernel[c] = Filled(@)]
                      ELSE [m EXCEPT !.tables[e.to] = Filled(@)]

map_pages(m, c, map) ==
  LET s   == SectionOf(map.va)
      old == m.l1[c][s]
      n   == section_table(m, c, s, map.all_cores)
      e   == n.l1[c][s]
      \* A section that had a table has one in the global table too.
      both == map.all_cores /\ old.type = 1
      local == fill_table(n, c, e, map)
  IN CASE n.stop # "no" -> n
       [] e.type # 1 -> PanicWithLock(n)
       [] both /\ Global(n, s).type # 1 -> PanicWithLock(n)
       [] map.device /\ map.pages > 1 -> PanicWithLock(n)
       [] both -> fill_table(local, Core0, Global(n, s), map)
       [] OTHER -> local

map_memory(m, c, map) ==
  IF section_aligned(map.base) /\ section_aligned(map.va) /\ section_aligned(map.pages)
  THEN map_sections(m, c, map)
  ELSE map_pages(m, c, map)

-----------------------------------------------------------------------------
\* The block of memory at a page, from the global table (but this core's own
\* second level table for the top section).  [page, base, pages]
walk_global_tree(m, c, page) ==
  LET l1 == Global(m, SectionOf(page))
      l2 == mapped_table(m, c, l1)[PageIndex(page)]
  IN CASE l1.type = 2 -> [va    |-> SectionOf(page) * PagesPerSection,
                          base  |-> l1.to, pages |-> PagesPerSection]
       [] l1.type = 1 /\ l2.type = 2 -> [va |-> page, base |-> l2.to, pages |-> 1]
       [] OTHER -> [va |-> 0, base |-> 0, pages |-> 0]

\* Level 1: copy the global entry, and try that.  Level 2: copy the page's entry,
\* in the top section; there is no such fault elsewhere that can be dealt with.
\* Or the entry there names the other handler, which is then to deal with it.
check_global(m, c, page) ==
  LET s      == SectionOf(page)
      i      == PageIndex(page)
      copied == [m EXCEPT !.l1[c][s] = Global(m, s)]
      entry  == m.kernel[Core0][i]
      Other(n) == [n EXCEPT !.stop = "other handler"]
  IN CASE m.l1[c][s].type = 0 /\ Global(m, s) = Handler(check_global_table) ->
            [copied EXCEPT !.stop = "abort"]
       [] m.l1[c][s].type = 0 /\ Global(m, s).type = 0 -> Other(copied)
       [] m.l1[c][s].type = 0 -> copied
       [] m.l1[c][s].to # Kernel -> Panic(m)
       [] entry = Handler(check_global_table) -> Panic(m)
       [] entry.type = 0 -> Other(m)
       [] OTHER -> [m EXCEPT !.kernel[c][i] = entry]
=============================================================================
