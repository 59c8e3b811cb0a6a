------------------------------ MODULE PipeMemory ------------------------------
(***************************************************************************)
(* The part of a slot's address space that pipes are mapped in             *)
(* (OSTask/pipes.c): slot->pipe_mem, an array of blocks that ends at the   *)
(* first one without pages.  A block here is a pipe, where it is mapped    *)
(* (in pages), and whether it may be written.  A pipe that owns its memory *)
(* is mapped twice, at consecutive addresses.                              *)
(***************************************************************************)
EXTENDS Naturals, SequencesExt

CONSTANTS
  PipesBase,      \* pipes_base, in pages
  PipesTop,       \* pipes_top
  PipeMemEntries, \* number_of( slot->pipe_mem )
  BlockPages      \* max_block_size, in pages

ASSUME PipeMemoryAssumption ==
  /\ PipesBase \in Nat \ {0}
  /\ PipesTop \in Nat
  /\ PipeMemEntries \in Nat
  /\ BlockPages \in Nat \ {0}

block(pipe, va, writable) == [pipe |-> pipe, va |-> va, writable |-> writable]

top_of(b) == b.va + BlockPages

pipe_map_size == 2 * BlockPages

\* Behind the last block, so the blocks are in ascending order.
gap_va(mem) == IF mem = <<>> THEN PipesBase ELSE top_of(Last(mem))

\* The PANICs: no address or no entry is left.
no_gap(mem) ==
  \/ \E i \in DOMAIN mem : top_of(mem[i]) + pipe_map_size >= PipesTop
  \/ Len(mem) + 1 >= PipeMemEntries

insert_pipe_in_gap(mem, pipe, writable) ==
  mem \o << block(pipe, gap_va(mem), writable),
            block(pipe, gap_va(mem) + BlockPages, writable) >>

\* The two blocks at va go.  An address that is not there is looked for up to
\* the end of the array, where nothing changes.
unmap_and_free(mem, va) ==
  LET found == {i \in DOMAIN mem : mem[i].va = va}
      first == CHOOSE i \in found : TRUE
  IN  IF found = {} THEN mem
      ELSE SubSeq(mem, 1, first - 1) \o SubSeq(mem, first + 2, Len(mem))

\* What the comment in insert_pipe_in_gap hopes for.
Ascending(mem) ==
  \A i \in 1 .. Len(mem) - 1 : top_of(mem[i]) <= mem[i + 1].va
===============================================================================
