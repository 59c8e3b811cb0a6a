------------------------------ MODULE RawMemory ------------------------------
(***************************************************************************)
(* Physical memory (RawMemory/raw_memory_manager.c), in pages: a bit per   *)
(* section that is free as a whole, and a few free runs of pages inside    *)
(* sections that have been split.  The functions hold rawmemory.lock from  *)
(* their first to their last access, so each is a function of              *)
(*     raw = [sections: the free sections,  early: the runs]               *)
(***************************************************************************)
EXTENDS Integers, FiniteSets, FiniteSetsExt, Sequences, SequencesExt

CONSTANTS
  PagesPerSection,  \* 256
  BitsPerWord,      \* 32: free sections are looked for in one word at a time
  FreeSections,     \* the sections the array has bits for
  Entries,          \* the entries of early_released_pages
  Unavailable       \* contiguous_memory_unavailable, 0xffffffff

ASSUME RawAssumption ==
  /\ PagesPerSection \in Nat \ {0} /\ BitsPerWord \in Nat \ {0}
  /\ FreeSections \subseteq Nat /\ IsFiniteSet(FreeSections)
  /\ Entries \in Nat \ {0}
  /\ Unavailable \in Nat

Panics == -1

section_aligned(page) == page % PagesPerSection = 0
SectionOf(page) == page \div PagesPerSection

NoMemory == [sections |-> {}, early |-> [i \in 1 .. Entries |-> [base |-> 0, count |-> 0]]]

PagesOf(base, count) == base .. base + count - 1

FreePages(raw) ==
  UNION {PagesOf(s * PagesPerSection, PagesPerSection) : s \in raw.sections}
    \cup UNION {PagesOf(raw.early[i].base, raw.early[i].count) : i \in 1 .. Entries}

-----------------------------------------------------------------------------
\* A run that begins inside a section and reaches its end is split at the end of
\* the section: the first part is such a run again, and there is no end to it.
FreeEnds(base, pages) ==
  section_aligned(base) \/ SectionOf(base) = SectionOf(base + pages)

EmptyEntries(raw) == {i \in 1 .. Entries : raw.early[i].count = 0}

\* Whole sections first, what is left is a run of pages in one section.
free_contiguous_memory(raw, base, pages) ==
  LET whole == IF section_aligned(base) THEN SectionOf(pages) ELSE 0
      rest  == pages - whole * PagesPerSection
      freed == [raw EXCEPT !.sections =
                  @ \cup (SectionOf(base) .. SectionOf(base) + whole - 1)]
      entry == [base |-> base + whole * PagesPerSection, count |-> rest]
  IN IF rest = 0 THEN freed
     ELSE [freed EXCEPT !.early[Min(EmptyEntries(raw))] = entry]

\* Where the first n free sections in a row are, all of them in one word.
Fits(raw, n) ==
  {s \in raw.sections :
     /\ s .. s + n - 1 \subseteq raw.sections
     /\ s \div BitsPerWord = (s + n - 1) \div BitsPerWord}

claim_sections(raw, n) ==
  CASE n >= BitsPerWord    -> [raw |-> raw, base |-> Panics]
    [] Fits(raw, n) = {}   -> [raw |-> raw, base |-> Unavailable]
    [] OTHER               ->
         LET s == Min(Fits(raw, n))
         IN [raw  |-> [raw EXCEPT !.sections = @ \ (s .. s + n - 1)],
             base |-> s * PagesPerSection]

\* Found(raw, pages): the runs with that many pages.
Found(raw, pages) == {i \in 1 .. Entries : raw.early[i].count >= pages}

\* A bug the code might have: the run keeps the first of the pages it gives.
claim_from_runShort(raw, pages) ==
  LET i == Min(Found(raw, pages))
  IN [raw  |-> [raw EXCEPT !.early[i] =
                  [base |-> @.base + pages - 1, count |-> @.count - pages]],
      base |-> raw.early[i].base]

\* From the first run that is long enough.
claim_from_run(raw, pages) ==
  LET i == Min(Found(raw, pages))
  IN [raw  |-> [raw EXCEPT !.early[i] =
                  [base |-> @.base + pages, count |-> @.count - pages]],
      base |-> raw.early[i].base]

\* From a new section; its other pages become a run.
claim_from_section(raw, pages) ==
  LET section == claim_sections(raw, 1)
      i == Max(EmptyEntries(raw))
  IN IF EmptyEntries(raw) = {} \/ section.base = Unavailable
     THEN [raw |-> raw, base |-> Unavailable]
     ELSE [raw  |-> [section.raw EXCEPT !.early[i] =
                       [base |-> section.base + pages, count |-> PagesPerSection - pages]],
           base |-> section.base]

\* The page claimed, or Unavailable.
claim_contiguous_memory(raw, pages) ==
  CASE section_aligned(pages)   -> claim_sections(raw, SectionOf(pages))
    [] pages > PagesPerSection  -> [raw |-> raw, base |-> Panics]
    [] Found(raw, pages) # {}   -> claim_from_run(raw, pages)
    [] OTHER                    -> claim_from_section(raw, pages)
=============================================================================
