------------------------------- MODULE BestFit --------------------------------
(***************************************************************************)
(* CP: class BestFitAllocator.  The memory is a doubly linked list of      *)
(* blocks, each behind its header; alloc takes the smallest free block     *)
(* that is large enough and splits it, free merges a block with its free   *)
(* neighbours.                                                             *)
(*                                                                         *)
(* A header is modelled where it lies: block maps the address of every     *)
(* header of the list to its fields.  What an absorbed header leaves in    *)
(* memory is data again.                                                   *)
(***************************************************************************)
EXTENDS Memory

CONSTANT HeaderSize    \* sizeof(BlockHeader)

\* The first header fits, and headers keep blocks aligned to words.
ASSUME BestFitAssumption ==
  /\ HeaderSize \in Nat \ {0} /\ HeaderSize % 8 = 0
  /\ memory_size > HeaderSize

BlockHeader == [size : Nat, is_free : BOOLEAN, next : Nat, prev : Nat]

VARIABLE block    \* block[h]: the header at h: size, is_free, next, prev

MINIMUM_BLOCK_SIZE == HeaderSize + 8

total_size == RoundUp(memory_size, 8)

head == memory

\* The constructor: one free block.
FreshBlock ==
  [h \in {head} |->
     [size |-> total_size, is_free |-> TRUE, next |-> Null, prev |-> Null]]

aligned_size(size) == RoundUp(size + HeaderSize, 8)

-----------------------------------------------------------------------------
\* Mutant: a block of exactly the right size is passed by.
LargerBlocks(size) ==
  {h \in DOMAIN block :
     block[h].is_free /\ block[h].size > aligned_size(size)}

\* The free blocks that are large enough.
SuitableBlocks(size) ==
  {h \in DOMAIN block :
     block[h].is_free /\ block[h].size >= aligned_size(size)}

\* Is the block at h the smallest of them, the first one of several?
IsBest(h, size) ==
  \A g \in SuitableBlocks(size) :
    \/ block[h].size < block[g].size
    \/ block[h].size = block[g].size /\ h <= g

\* Mutant: the block after the cut keeps its old link back.
SplitForgetsPrev(h, n) ==
  [g \in DOMAIN block \cup {h + n} |->
     CASE g = h + n -> [size |-> block[h].size - n, is_free |-> TRUE,
                        next |-> block[h].next, prev |-> h]
       [] g = h     -> [block[h] EXCEPT !.size = n, !.next = h + n,
                                        !.is_free = FALSE]
       [] OTHER     -> block[g]]

\* Cut the block at h after n bytes; what is left is a free block.
Split(h, n) ==
  [g \in DOMAIN block \cup {h + n} |->
     CASE g = h + n         -> [size |-> block[h].size - n, is_free |-> TRUE,
                                next |-> block[h].next, prev |-> h]
       [] g = h             -> [block[h] EXCEPT !.size = n, !.next = h + n,
                                                !.is_free = FALSE]
       [] g = block[h].next -> [block[g] EXCEPT !.prev = h + n]
       [] OTHER             -> block[g]]

BestFitAlloc(size, ptr) ==
  IF SuitableBlocks(size) = {}
  THEN ptr = Null /\ UNCHANGED block
  ELSE \E h \in SuitableBlocks(size) :
         /\ IsBest(h, size)
         /\ ptr = h + HeaderSize
         /\ IF block[h].size >= aligned_size(size) + MINIMUM_BLOCK_SIZE
            THEN block' = Split(h, aligned_size(size))
            ELSE block' = [block EXCEPT ![h].is_free = FALSE]

-----------------------------------------------------------------------------
\* In the list blk the block at h takes in the one after it.
Absorb(blk, h) ==
  LET n == blk[h].next
  IN  [g \in DOMAIN blk \ {n} |->
         CASE g = h           -> [blk[h] EXCEPT !.size = @ + blk[n].size,
                                                !.next = blk[n].next]
           [] g = blk[n].next -> [blk[g] EXCEPT !.prev = h]
           [] OTHER           -> blk[g]]

MergeNext(blk, h) ==
  LET n == blk[h].next
  IN  IF n # Null /\ blk[n].is_free THEN Absorb(blk, h) ELSE blk

\* Mutant: a block is not merged with the one before it.
MergePrevNever(blk, h) == blk

MergePrev(blk, h) ==
  LET p == blk[h].prev
  IN  IF p # Null /\ blk[p].is_free THEN Absorb(blk, p) ELSE blk

BestFitFree(ptr) ==
  LET h == ptr - HeaderSize
  IN  block' = MergePrev(MergeNext([block EXCEPT ![h].is_free = TRUE], h), h)

-----------------------------------------------------------------------------
\* The bytes behind the headers of the blocks that are not free.
Taken == {h \in DOMAIN block : ~ block[h].is_free}

BestFitInUse ==
  {[ptr |-> h + HeaderSize, size |-> block[h].size - HeaderSize] : h \in Taken}

\* The pointers alloc may return.
BestFitPointers == {Null} \cup {h + HeaderSize : h \in DOMAIN block}

\* The links of blk lead from each block to the one where it ends and back,
\* from the head to the end of the memory, and blocks do not overlap.
Linked(blk, h) ==
  /\ IF blk[h].next = Null
     THEN h + blk[h].size = head + total_size
     ELSE /\ blk[h].next \in DOMAIN blk
          /\ blk[h].next = h + blk[h].size
          /\ blk[blk[h].next].prev = h
  /\ IF h = head
     THEN blk[h].prev = Null
     ELSE /\ blk[h].prev \in DOMAIN blk
          /\ blk[blk[h].prev].next = h

Tiled(blk) ==
  /\ head \in DOMAIN blk
  /\ \A h \in DOMAIN blk :
       /\ head <= h
       /\ HeaderSize < blk[h].size
       /\ h + blk[h].size <= head + total_size
       /\ Linked(blk, h)
       /\ \A g \in DOMAIN blk : h < g => h + blk[h].size <= g
=============================================================================
