--------------------------- MODULE BenchmarkProofs ----------------------------
(***************************************************************************)
(* Proofs about both allocators and their caller, for every size of the    *)
(* memory, of its headers, pages and blocks, every plan's sizes and every  *)
(* number of operations.  The blocks of BestFitAllocator tile the memory,  *)
(* and no two neighbours are free; the pages of McKusickAllocator are      *)
(* free, cut or in one buffer; and both implement Allocator.               *)
(***************************************************************************)
EXTENDS Benchmark, FiniteSetTheorems, SequenceTheorems, WellFoundedInduction, TLAPS

-----------------------------------------------------------------------------
(***************************************************************************)
(* The inductive invariant.  Links, sizes and free marks of blk are as     *)
(* they should be:                                                         *)
(***************************************************************************)
WellFormed(blk) ==
  /\ blk \in [DOMAIN blk -> BlockHeader]
  /\ DOMAIN blk \subseteq Nat \ {Null}
  /\ Tiled(blk)

FreePair(blk, g) ==
  blk[g].is_free /\ blk[g].next # Null /\ blk[blk[g].next].is_free

FreeApart(blk) == \A g \in DOMAIN blk : ~ FreePair(blk, g)

(***************************************************************************)
(* and the caller has exactly one pointer to each block that is taken;     *)
(* otherwise a free might hit no header, or a block of another caller.     *)
(***************************************************************************)
Held ==
  /\ \A a \in active : a.ptr \in Nat /\ a.ptr - HeaderSize \in Taken
  /\ \A a, b \in active : a.ptr = b.ptr => a = b
  /\ \A h \in Taken : \E a \in active : a.ptr = h + HeaderSize

InPlan == program \in Program /\ test \in 1 .. Len(Plan(program))

BlocksInv ==
  /\ InPlan
  /\ allocator = "BestFit" => WellFormed(block) /\ FreeApart(block) /\ Held

-----------------------------------------------------------------------------
(***************************************************************************)
(* Sizes.                                                                  *)
(***************************************************************************)
LEMMA RoundUpBound == \A n \in Nat : RoundUp(n, 8) \in Nat /\ RoundUp(n, 8) >= n
BY DEF RoundUp

LEMMA SizeFacts ==
  /\ HeaderSize \in Nat \ {0}
  /\ head \in Nat \ {Null}
  /\ total_size \in Nat /\ total_size > HeaderSize
  /\ \A size \in Nat \ {0} :
       aligned_size(size) \in Nat /\ aligned_size(size) > HeaderSize
BY RoundUpBound, MemoryAssumption, BestFitAssumption
DEF head, total_size, aligned_size, Null

\* A new allocator has one block, which is the whole memory.
LEMMA FreshWell == WellFormed(FreshBlock) /\ FreeApart(FreshBlock)
<1>1. DOMAIN FreshBlock = {head}
  BY DEF FreshBlock
<1>2. FreshBlock[head] = [size |-> total_size, is_free |-> TRUE,
                          next |-> Null, prev |-> Null]
  BY DEF FreshBlock
<1>3. FreshBlock \in [{head} -> BlockHeader]
  BY <1>2, SizeFacts DEF FreshBlock, BlockHeader, Null
<1>4. Tiled(FreshBlock)
  BY <1>1, <1>2, SizeFacts DEF Tiled, Linked
<1> QED
  BY <1>1, <1>2, <1>3, <1>4, SizeFacts DEF WellFormed, FreeApart, FreePair

-----------------------------------------------------------------------------
(***************************************************************************)
(* Blocks of a well-formed list.                                           *)
(***************************************************************************)

\* The fields of a header.
LEMMA HeaderType ==
  ASSUME NEW blk, WellFormed(blk), NEW h \in DOMAIN blk
  PROVE  /\ h \in Nat /\ h # Null
         /\ blk[h].size \in Nat /\ blk[h].is_free \in BOOLEAN
         /\ blk[h].next \in Nat /\ blk[h].prev \in Nat
BY DEF WellFormed, BlockHeader

\* A mark changes no link and no size.
LEMMA MarkWell ==
  ASSUME NEW blk, WellFormed(blk), NEW h \in DOMAIN blk, NEW b \in BOOLEAN
  PROVE  WellFormed([blk EXCEPT ![h].is_free = b])
<1> DEFINE new == [blk EXCEPT ![h].is_free = b]
<1>1. DOMAIN new = DOMAIN blk
  OBVIOUS
<1>2. \A g \in DOMAIN blk : /\ new[g] \in BlockHeader
                            /\ new[g].size = blk[g].size
                            /\ new[g].next = blk[g].next
                            /\ new[g].prev = blk[g].prev
  BY DEF WellFormed, BlockHeader
<1>3. new \in [DOMAIN new -> BlockHeader]
  BY <1>1, <1>2
<1> HIDE DEF new
<1>4. Tiled(new)
  BY <1>1, <1>2 DEF WellFormed, Tiled, Linked
<1> QED
  BY <1>1, <1>3, <1>4 DEF WellFormed, new

\* Where the neighbours of a block are.
LEMMA Neighbours ==
  ASSUME NEW blk, WellFormed(blk), NEW h \in DOMAIN blk
  PROVE  /\ blk[h].next # Null =>
              /\ blk[h].next \in DOMAIN blk
              /\ blk[h].next = h + blk[h].size
              /\ h < blk[h].next
              /\ blk[blk[h].next].prev = h
         /\ blk[h].prev # Null =>
              /\ blk[h].prev \in DOMAIN blk
              /\ blk[blk[h].prev].next = h
<1>1. HeaderSize < blk[h].size /\ Linked(blk, h)
  BY DEF WellFormed, Tiled
<1> QED
  BY <1>1, HeaderType, SizeFacts DEF Linked

\* A block may take in the one after it.
LEMMA AbsorbWell ==
  ASSUME NEW blk, WellFormed(blk), NEW h \in DOMAIN blk, blk[h].next # Null
  PROVE  /\ WellFormed(Absorb(blk, h))
         /\ DOMAIN Absorb(blk, h) = DOMAIN blk \ {blk[h].next}
         /\ \A g \in DOMAIN blk \ {blk[h].next} :
              /\ Absorb(blk, h)[g].is_free <=> blk[g].is_free
              /\ g # h => Absorb(blk, h)[g].next = blk[g].next
         /\ Absorb(blk, h)[h].next = blk[blk[h].next].next
<1> DEFINE n == blk[h].next
           m == blk[n].next
           new == Absorb(blk, h)
<1>1. /\ n \in DOMAIN blk /\ n = h + blk[h].size /\ h < n /\ blk[n].prev = h
      /\ m # Null => m \in DOMAIN blk /\ m = n + blk[n].size /\ n < m
  BY Neighbours
<1>2. DOMAIN new = DOMAIN blk \ {n}
  BY DEF Absorb
<1>3. new[h] = [blk[h] EXCEPT !.size = @ + blk[n].size, !.next = m]
  BY <1>1, HeaderType DEF Absorb
<1>4. m # Null => new[m] = [blk[m] EXCEPT !.prev = h]
  BY <1>1, HeaderType DEF Absorb
<1>5. \A g \in DOMAIN blk \ {n} : g # h /\ g # m => new[g] = blk[g]
  BY DEF Absorb
<1>6. \A g \in DOMAIN blk : blk[g] \in BlockHeader
  BY DEF WellFormed
<1>7. /\ new[h].size = blk[h].size + blk[n].size /\ new[h].next = m
      /\ new[h].prev = blk[h].prev /\ new[h].is_free = blk[h].is_free
      /\ new[h] \in BlockHeader
  <2>1. blk[h] \in BlockHeader /\ blk[h].size + blk[n].size \in Nat /\ m \in Nat
    BY <1>1, <1>6, HeaderType
  <2> HIDE DEF new, n, m
  <2> QED
    BY <1>3, <2>1 DEF BlockHeader
<1>8. m # Null => /\ new[m].size = blk[m].size /\ new[m].next = blk[m].next
                  /\ new[m].prev = h /\ new[m].is_free = blk[m].is_free
                  /\ new[m] \in BlockHeader
  BY <1>1, <1>4, <1>6, HeaderType DEF BlockHeader
<1>9. new \in [DOMAIN new -> BlockHeader]
  <2>1. \A g \in DOMAIN new : new[g] \in BlockHeader
    BY <1>2, <1>5, <1>6, <1>7, <1>8, HeaderType
  <2>2. new = [g \in DOMAIN new |-> new[g]]
    BY DEF Absorb
  <2> QED
    BY <2>1, <2>2
<1> HIDE DEF new, n, m
<1>10. ASSUME NEW g \in DOMAIN new
       PROVE  /\ head <= g
              /\ HeaderSize < new[g].size
              /\ g + new[g].size <= head + total_size
              /\ \A f \in DOMAIN new : g < f => g + new[g].size <= f
  <2>1. \A f \in DOMAIN blk : /\ head <= f /\ HeaderSize < blk[f].size
                              /\ f + blk[f].size <= head + total_size
                              /\ \A e \in DOMAIN blk : f < e => f + blk[f].size <= e
    BY DEF WellFormed, Tiled
  <2>2. CASE g = h
    <3>1. h + new[h].size = n + blk[n].size
      BY <1>1, <1>7, HeaderType, Z3
    <3>2. \A f \in DOMAIN new : h < f => n < f
      BY <1>1, <1>2, <2>1, HeaderType
    <3> QED
      BY <1>1, <1>2, <1>7, <2>1, <2>2, <3>1, <3>2, HeaderType, SizeFacts
  <2>3. CASE g # h
    BY <1>2, <1>5, <1>8, <2>1, <2>3, HeaderType
  <2> QED
    BY <2>2, <2>3
<1>11. ASSUME NEW g \in DOMAIN new
       PROVE  Linked(new, g)
  <2>1. Linked(blk, g) /\ Linked(blk, n) /\ Linked(blk, h)
    BY <1>1, <1>2 DEF WellFormed, Tiled
  <2>2. CASE g = h
    BY <1>1, <1>2, <1>5, <1>7, <1>8, <2>1, <2>2, HeaderType DEF Linked, m, n
  <2>3. CASE g # h /\ g = m
    BY <1>1, <1>2, <1>5, <1>7, <1>8, <2>1, <2>3, HeaderType DEF Linked, m, n
  <2>4. CASE g # h /\ g # m
    BY <1>1, <1>2, <1>5, <1>7, <1>8, <2>1, <2>4, HeaderType DEF Linked, m, n
  <2> QED
    BY <2>2, <2>3, <2>4
<1>12. head \in DOMAIN new
  BY <1>1, <1>2, HeaderType, SizeFacts DEF WellFormed, Tiled
<1>13. WellFormed(new)
  BY <1>2, <1>9, <1>10, <1>11, <1>12 DEF WellFormed, Tiled
<1> QED
  BY <1>2, <1>5, <1>7, <1>8, <1>13, HeaderType DEF new, n, m

\* A block may be cut where room for a header is left.
LEMMA SplitWell ==
  ASSUME WellFormed(block), NEW h \in DOMAIN block, NEW n \in Nat,
         HeaderSize < n, n + HeaderSize < block[h].size
  PROVE  /\ WellFormed(Split(h, n))
         /\ h + n \notin DOMAIN block
         /\ DOMAIN Split(h, n) = DOMAIN block \cup {h + n}
         /\ ~ Split(h, n)[h].is_free /\ Split(h, n)[h + n].is_free
         /\ Split(h, n)[h].next = h + n /\ Split(h, n)[h + n].next = block[h].next
         /\ \A g \in DOMAIN block \ {h} : Split(h, n)[g].is_free <=> block[g].is_free
<1> DEFINE c == h + n
           m == block[h].next
           new == Split(h, n)
<1>1. \A f \in DOMAIN block : /\ head <= f /\ HeaderSize < block[f].size
                              /\ f + block[f].size <= head + total_size
                              /\ \A e \in DOMAIN block : f < e => f + block[f].size <= e
  BY DEF WellFormed, Tiled
<1>2. c \in Nat /\ h < c /\ c < h + block[h].size
  BY HeaderType, SizeFacts
<1>3. c \notin DOMAIN block
  BY <1>1, <1>2, HeaderType, SizeFacts
<1>4. m # Null => m \in DOMAIN block /\ m = h + block[h].size /\ c < m /\ h < m
  BY <1>2, Neighbours
<1>5. c # h /\ c # m /\ m # h /\ c # Null
  BY <1>2, <1>4, HeaderType, SizeFacts DEF Null
<1>6. DOMAIN new = DOMAIN block \cup {c}
  BY DEF Split
<1>7. new[c] = [size |-> block[h].size - n, is_free |-> TRUE, next |-> m, prev |-> h]
  BY <1>5 DEF Split
<1>8. new[h] = [block[h] EXCEPT !.size = n, !.next = c, !.is_free = FALSE]
  BY <1>5 DEF Split
<1>9. m # Null => new[m] = [block[m] EXCEPT !.prev = c]
  BY <1>5, <1>4 DEF Split
<1>10. \A g \in DOMAIN block : g # h /\ g # m => new[g] = block[g]
  BY <1>3 DEF Split
<1>11. \A g \in DOMAIN block : block[g] \in BlockHeader
  BY DEF WellFormed
<1>12. /\ new[c].size = block[h].size - n /\ new[c].next = m /\ new[c].prev = h
       /\ new[c].is_free = TRUE /\ new[c] \in BlockHeader
  <2>1. block[h].size - n \in Nat /\ m \in Nat /\ h \in Nat
    BY HeaderType, SizeFacts
  <2> HIDE DEF new, m, c
  <2> QED
    BY <1>7, <2>1 DEF BlockHeader
<1>13. /\ new[h].size = n /\ new[h].next = c /\ new[h].prev = block[h].prev
       /\ new[h].is_free = FALSE /\ new[h] \in BlockHeader
  <2>1. block[h] \in BlockHeader
    BY <1>11
  <2> HIDE DEF new, m, c
  <2> QED
    BY <1>2, <1>8, <2>1 DEF BlockHeader
<1>14. m # Null => /\ new[m].size = block[m].size /\ new[m].next = block[m].next
                   /\ new[m].prev = c /\ new[m].is_free = block[m].is_free
                   /\ new[m] \in BlockHeader
  <2>1. m # Null => block[m] \in BlockHeader
    BY <1>4, <1>11
  <2> HIDE DEF new, m, c
  <2> QED
    BY <1>2, <1>9, <2>1 DEF BlockHeader
<1>15. new \in [DOMAIN new -> BlockHeader]
  <2>1. \A g \in DOMAIN new : new[g] \in BlockHeader
    BY <1>6, <1>10, <1>11, <1>12, <1>13, <1>14, HeaderType
  <2>2. new = [g \in DOMAIN new |-> new[g]]
    BY DEF Split
  <2> QED
    BY <2>1, <2>2
<1> HIDE DEF new, m, c
<1>16. ASSUME NEW g \in DOMAIN new
       PROVE  /\ head <= g
              /\ HeaderSize < new[g].size
              /\ g + new[g].size <= head + total_size
              /\ \A f \in DOMAIN new : g < f => g + new[g].size <= f
  <2>1. CASE g = c
    <3>1. c + new[c].size = h + block[h].size
      BY <1>2, <1>12, HeaderType DEF c
    <3>2. \A f \in DOMAIN new : c < f => h + block[h].size <= f
      BY <1>1, <1>2, <1>6, HeaderType
    <3>3. HeaderSize < new[c].size
      BY <1>12, HeaderType, SizeFacts
    <3> QED
      BY <1>1, <1>2, <2>1, <3>1, <3>2, <3>3, HeaderType, SizeFacts
  <2>2. CASE g = h
    <3>1. h + new[h].size = c
      BY <1>13 DEF c
    <3>2. \A f \in DOMAIN new : h < f => c <= f
      BY <1>1, <1>2, <1>6, HeaderType
    <3> QED
      BY <1>1, <1>2, <1>13, <2>2, <3>1, <3>2, HeaderType, SizeFacts
  <2>3. CASE g # h /\ g # c
    <3>1. g \in DOMAIN block /\ new[g].size = block[g].size
      BY <1>6, <1>10, <1>14, <2>3, HeaderType
    <3>2. g < c => g + block[g].size <= c
      BY <1>1, <1>2, <2>3, <3>1, HeaderType
    <3> QED
      BY <1>1, <1>6, <3>1, <3>2
  <2> QED
    BY <2>1, <2>2, <2>3
<1>17. ASSUME NEW g \in DOMAIN new
       PROVE  Linked(new, g)
  <2>0. \A f \in DOMAIN block : Linked(block, f)
    BY DEF WellFormed, Tiled
  <2>1. CASE g = c
    <3>1. c + new[c].size = h + block[h].size /\ c # head
      BY <1>1, <1>2, <1>12, HeaderType, SizeFacts DEF c
    <3> QED
      BY <1>2, <1>4, <1>6, <1>12, <1>13, <1>14, <2>0, <2>1, <3>1 DEF Linked, m
  <2>2. CASE g = h
    <3>1. c # Null /\ c = h + n
      BY <1>2, HeaderType, SizeFacts DEF c, Null
    <3>2. h # head => /\ block[h].prev \in DOMAIN block \ {h}
                      /\ block[block[h].prev].next = h
                      /\ new[block[h].prev].next = h
      <4>1. h # head => /\ block[h].prev \in DOMAIN block
                        /\ block[block[h].prev].next = h
        BY <2>0 DEF Linked
      <4>2. h # head => block[h].prev # h /\ (m # Null => block[h].prev # m)
        BY <1>4, <4>1, HeaderType, Neighbours DEF m
      <4>3. h # head => block[h].prev # Null
        BY <4>1, HeaderType
      <4> QED
        BY <1>10, <4>1, <4>2, <4>3
    <3> QED
      BY <1>6, <1>12, <1>13, <2>0, <2>2, <3>1, <3>2 DEF Linked
  <2>3. CASE g # h /\ g # c /\ g = m
    <3>1. g \in DOMAIN block /\ m # Null
      BY <1>6, <2>3, HeaderType
    <3>2. block[m].next # h /\ block[m].next # m
      BY <1>4, <3>1, HeaderType, Neighbours
    <3>3. block[m].next # Null => new[block[m].next].prev = m
      BY <1>10, <2>0, <2>3, <3>1, <3>2, Neighbours
    <3>4. m # head
      BY <1>1, <1>4, <3>1, HeaderType, SizeFacts
    <3> QED
      BY <1>6, <1>12, <1>14, <2>0, <2>3, <3>1, <3>3, <3>4 DEF Linked
  <2>4. CASE g # h /\ g # c /\ g # m
    <3>1. g \in DOMAIN block /\ new[g] = block[g]
      BY <1>6, <1>10, <2>4
    <3>2. block[g].next # Null => /\ block[g].next # m
                                  /\ new[block[g].next].prev = g
      <4>1. block[g].next # Null =>
              block[g].next \in DOMAIN block /\ block[block[g].next].prev = g
        BY <3>1, Neighbours
      <4>2. m # Null => block[m].prev = h
        BY Neighbours DEF m
      <4> QED
        BY <1>10, <1>13, <2>4, <4>1, <4>2
    <3>3. g # head => /\ block[g].prev \in DOMAIN block /\ block[g].prev # h
                      /\ new[block[g].prev].next = g
      <4>1. g # head => block[g].prev \in DOMAIN block /\ block[block[g].prev].next = g
        BY <2>0, <3>1 DEF Linked
      <4>2. g # head => block[g].prev # h
        BY <2>4, <4>1 DEF m
      <4> QED
        BY <1>10, <1>14, <4>1, <4>2, HeaderType
    <3> QED
      BY <1>6, <2>0, <3>1, <3>2, <3>3, Neighbours DEF Linked
  <2> QED
    BY <2>1, <2>2, <2>3, <2>4
<1>18. head \in DOMAIN new
  BY <1>6 DEF WellFormed, Tiled
<1>19. DOMAIN new \subseteq Nat \ {Null}
  BY <1>2, <1>6, HeaderType, SizeFacts DEF Null
<1>20. WellFormed(new)
  BY <1>15, <1>16, <1>17, <1>18, <1>19 DEF WellFormed, Tiled
<1> QED
  BY <1>3, <1>6, <1>10, <1>12, <1>13, <1>14, <1>20, HeaderType DEF new, m, c

-----------------------------------------------------------------------------
(***************************************************************************)
(* alloc.                                                                  *)
(***************************************************************************)
TakenIn(blk) == {h \in DOMAIN blk : ~ blk[h].is_free}

\* What alloc does to the list: a free block is taken, and what is left of
\* it has no free neighbour.
LEMMA AllocKeepsBlocks ==
  ASSUME WellFormed(block), FreeApart(block), NEW size \in Nat \ {0}, NEW ptr,
         BestFitAlloc(size, ptr), ptr # Null
  PROVE  /\ WellFormed(block') /\ FreeApart(block')
         /\ \E h \in DOMAIN block : /\ ptr = h + HeaderSize
                                    /\ h \notin Taken
                                    /\ Taken' = Taken \cup {h}
<1> DEFINE n == aligned_size(size)
<1>1. PICK h \in SuitableBlocks(size) :
        /\ ptr = h + HeaderSize
        /\ IF block[h].size >= n + MINIMUM_BLOCK_SIZE
           THEN block' = Split(h, n)
           ELSE block' = [block EXCEPT ![h].is_free = FALSE]
  BY DEF BestFitAlloc
<1>2. h \in DOMAIN block /\ block[h].is_free /\ h \notin Taken
  BY DEF SuitableBlocks, Taken
<1>3. n \in Nat /\ HeaderSize < n
  BY SizeFacts
<1> HIDE DEF n
<1>4. block[h].next # Null => /\ block[h].next \in DOMAIN block
                              /\ ~ block[block[h].next].is_free
  BY <1>2, Neighbours DEF FreeApart, FreePair
<1>5. CASE block' = Split(h, n) /\ block[h].size >= n + MINIMUM_BLOCK_SIZE
  <2>1. n + HeaderSize < block[h].size
    BY <1>2, <1>3, <1>5, HeaderType, SizeFacts DEF MINIMUM_BLOCK_SIZE
  <2>2. /\ WellFormed(block')
        /\ h + n \notin DOMAIN block
        /\ DOMAIN block' = DOMAIN block \cup {h + n}
        /\ ~ block'[h].is_free /\ block'[h + n].is_free
        /\ block'[h].next = h + n /\ block'[h + n].next = block[h].next
        /\ \A g \in DOMAIN block \ {h} :
             /\ (block'[g].is_free <=> block[g].is_free)
             /\ block'[g].next = block[g].next
    <3> DEFINE new == Split(h, n)
    <3>1. WellFormed(new)
      BY <1>2, <1>3, <2>1, SplitWell
    <3>2. h + n \notin DOMAIN block
      BY <1>2, <1>3, <2>1, SplitWell
    <3>3. DOMAIN new = DOMAIN block \cup {h + n}
      BY <1>2, <1>3, <2>1, SplitWell
    <3>4. ~ new[h].is_free
      BY <1>2, <1>3, <2>1, SplitWell
    <3>5. new[h + n].is_free
      BY <1>2, <1>3, <2>1, SplitWell
    <3>6. new[h].next = h + n /\ new[h + n].next = block[h].next
      BY <1>2, <1>3, <2>1, SplitWell
    <3>7. \A g \in DOMAIN block \ {h} : new[g].next = block[g].next
      <4>1. ASSUME NEW g \in DOMAIN block \ {h}
            PROVE  new[g] \in {block[g], [block[g] EXCEPT !.prev = h + n]}
        BY <3>2 DEF Split
      <4>2. \A g \in DOMAIN block : block[g] \in BlockHeader
        BY DEF WellFormed
      <4> HIDE DEF new
      <4> QED
        BY <4>1, <4>2 DEF BlockHeader
    <3>8. \A g \in DOMAIN block \ {h} : new[g].is_free <=> block[g].is_free
      BY <1>2, <1>3, <2>1, SplitWell
    <3> HIDE DEF new
    <3>9. block' = new
      BY <1>5 DEF new
    <3> QED
      BY <3>1, <3>2, <3>3, <3>4, <3>5, <3>6, <3>7, <3>8, <3>9
  <2>3. h \notin {block[h].next, h + n}
    BY <1>2, <1>3, HeaderType, Neighbours, SizeFacts
  <2>4. FreeApart(block')
    <3> SUFFICES ASSUME NEW g \in DOMAIN block', FreePair(block', g)
                 PROVE  FALSE
      BY DEF FreeApart
    <3>1. g # h
      BY <2>2 DEF FreePair
    <3>2. g # h + n
      BY <1>4, <2>2, <2>3 DEF FreePair
    <3>3. g \in DOMAIN block /\ block'[g].next \in DOMAIN block
      BY <2>2, <3>1, <3>2, Neighbours DEF FreePair
    <3>4. FreePair(block, g)
      BY <2>2, <3>1, <3>3 DEF FreePair
    <3> QED
      BY <3>3, <3>4 DEF FreeApart
  <2>5. Taken' = Taken \cup {h}
    BY <1>2, <2>2 DEF Taken
  <2> QED
    BY <1>1, <1>2, <2>2, <2>4, <2>5
<1>6. CASE block' = [block EXCEPT ![h].is_free = FALSE]
  <2>1. WellFormed(block')
    BY <1>2, <1>6, MarkWell
  <2>2. /\ DOMAIN block' = DOMAIN block
        /\ \A g \in DOMAIN block : /\ block'[g].next = block[g].next
                                   /\ g # h => (block'[g].is_free <=> block[g].is_free)
        /\ ~ block'[h].is_free
    BY <1>2, <1>6 DEF WellFormed, BlockHeader
  <2>3. FreeApart(block')
    BY <2>2, Neighbours DEF FreeApart, FreePair
  <2>4. Taken' = Taken \cup {h}
    BY <1>2, <2>2 DEF Taken
  <2> QED
    BY <1>1, <1>2, <2>1, <2>3, <2>4
<1> QED
  BY <1>1, <1>5, <1>6

-----------------------------------------------------------------------------
(***************************************************************************)
(* free.                                                                   *)
(***************************************************************************)

\* The only free pair there may be is that of a block and the one before it.
PairedOnlyBefore(blk, h) == \A g \in DOMAIN blk : FreePair(blk, g) => blk[g].next = h

\* The first merge: the block and the one after it.
LEMMA MergeNextKeepsBlocks ==
  ASSUME NEW blk, WellFormed(blk), NEW h \in DOMAIN blk, blk[h].is_free,
         \A g \in DOMAIN blk : FreePair(blk, g) => g = h \/ blk[g].next = h
  PROVE  /\ WellFormed(MergeNext(blk, h))
         /\ h \in DOMAIN MergeNext(blk, h)
         /\ MergeNext(blk, h)[h].is_free
         /\ PairedOnlyBefore(MergeNext(blk, h), h)
         /\ TakenIn(MergeNext(blk, h)) = TakenIn(blk)
<1> DEFINE n == blk[h].next
<1>1. CASE ~ (n # Null /\ blk[n].is_free)
  BY <1>1 DEF MergeNext, PairedOnlyBefore, FreePair
<1>2. CASE n # Null /\ blk[n].is_free
  <2> DEFINE new == Absorb(blk, h)
  <2>1. MergeNext(blk, h) = new
    BY <1>2 DEF MergeNext
  <2>2. n \in DOMAIN blk /\ n # h
    BY <1>2, HeaderType, Neighbours
  <2>3. /\ WellFormed(new) /\ DOMAIN new = DOMAIN blk \ {n}
        /\ \A g \in DOMAIN blk \ {n} : /\ (new[g].is_free <=> blk[g].is_free)
                                       /\ g # h => new[g].next = blk[g].next
        /\ new[h].next = blk[n].next
    BY <1>2, AbsorbWell
  <2> HIDE DEF new
  <2>4. blk[n].next # Null => ~ blk[blk[n].next].is_free
    <3>1. blk[n].next # h
      BY <1>2, <2>2, HeaderType, Neighbours
    <3> QED
      BY <1>2, <2>2, <3>1 DEF FreePair
  <2>5. PairedOnlyBefore(new, h)
    <3> SUFFICES ASSUME NEW g \in DOMAIN new, FreePair(new, g), new[g].next # h
                 PROVE  FALSE
      BY DEF PairedOnlyBefore
    <3>1. new[g].next \in DOMAIN blk \ {n}
      BY <2>3, Neighbours DEF FreePair
    <3>2. g # h
      BY <2>3, <2>4, <3>1 DEF FreePair
    <3>3. FreePair(blk, g) /\ blk[g].next = new[g].next
      BY <2>3, <3>1, <3>2 DEF FreePair
    <3> QED
      BY <2>3, <3>2, <3>3
  <2>6. TakenIn(new) = TakenIn(blk)
    BY <1>2, <2>3 DEF TakenIn
  <2> QED
    BY <2>1, <2>2, <2>3, <2>5, <2>6
<1> QED
  BY <1>1, <1>2

\* The second merge: the block before and the block.
LEMMA MergePrevKeepsBlocks ==
  ASSUME NEW blk, WellFormed(blk), NEW h \in DOMAIN blk, blk[h].is_free,
         PairedOnlyBefore(blk, h)
  PROVE  /\ WellFormed(MergePrev(blk, h)) /\ FreeApart(MergePrev(blk, h))
         /\ TakenIn(MergePrev(blk, h)) = TakenIn(blk)
<1> DEFINE p == blk[h].prev
<1>0. \A g \in DOMAIN blk : blk[g].next = h => g = p
  BY HeaderType, Neighbours
<1>1. CASE ~ (p # Null /\ blk[p].is_free)
  <2>1. FreeApart(blk)
    BY <1>0, <1>1, HeaderType DEF FreeApart, PairedOnlyBefore, FreePair
  <2> QED
    BY <1>1, <2>1 DEF MergePrev
<1>2. CASE p # Null /\ blk[p].is_free
  <2> DEFINE new == Absorb(blk, p)
  <2>1. MergePrev(blk, h) = new
    BY <1>2 DEF MergePrev
  <2>2. p \in DOMAIN blk /\ blk[p].next = h /\ p # h /\ h # Null
    BY <1>2, HeaderType, Neighbours
  <2>3. /\ WellFormed(new) /\ DOMAIN new = DOMAIN blk \ {h}
        /\ \A g \in DOMAIN blk \ {h} : /\ (new[g].is_free <=> blk[g].is_free)
                                       /\ g # p => new[g].next = blk[g].next
        /\ new[p].next = blk[h].next
    BY <2>2, AbsorbWell
  <2> HIDE DEF new
  <2>4. blk[h].next # Null => ~ blk[blk[h].next].is_free
    <3>1. blk[h].next # h
      BY HeaderType, Neighbours
    <3> QED
      BY <3>1 DEF PairedOnlyBefore, FreePair
  <2>5. FreeApart(new)
    <3> SUFFICES ASSUME NEW g \in DOMAIN new, FreePair(new, g)
                 PROVE  FALSE
      BY DEF FreeApart
    <3>1. new[g].next \in DOMAIN blk \ {h}
      BY <2>3, Neighbours DEF FreePair
    <3>2. g # p
      BY <2>3, <2>4, <3>1 DEF FreePair
    <3>3. FreePair(blk, g) /\ blk[g].next = new[g].next
      BY <2>3, <3>1, <3>2 DEF FreePair
    <3> QED
      BY <2>3, <3>1, <3>3 DEF PairedOnlyBefore
  <2>6. TakenIn(new) = TakenIn(blk)
    BY <2>3 DEF TakenIn
  <2> QED
    BY <2>1, <2>3, <2>5, <2>6
<1> QED
  BY <1>1, <1>2

\* What free does to the list: one block is not taken any more.
LEMMA FreeKeepsBlocks ==
  ASSUME WellFormed(block), FreeApart(block), NEW ptr,
         ptr - HeaderSize \in Taken, BestFitFree(ptr)
  PROVE  /\ WellFormed(block') /\ FreeApart(block')
         /\ Taken' = Taken \ {ptr - HeaderSize}
<1> DEFINE h == ptr - HeaderSize
           marked == [block EXCEPT ![h].is_free = TRUE]
<1>1. h \in DOMAIN block
  BY DEF Taken
<1>2. /\ DOMAIN marked = DOMAIN block
      /\ \A g \in DOMAIN block : /\ marked[g].next = block[g].next
                                 /\ g # h => (marked[g].is_free <=> block[g].is_free)
      /\ marked[h].is_free
  BY <1>1 DEF WellFormed, BlockHeader
<1>3. WellFormed(marked)
  BY <1>1, MarkWell
<1>4. block' = MergePrev(MergeNext(marked, h), h)
  BY DEF BestFitFree
<1> HIDE DEF h, marked
<1>5. \A g \in DOMAIN marked : FreePair(marked, g) => g = h \/ marked[g].next = h
  BY <1>2, <1>3, Neighbours DEF FreeApart, FreePair
<1>6. TakenIn(marked) = Taken \ {h}
  BY <1>1, <1>2 DEF Taken, TakenIn
<1> DEFINE merged == MergeNext(marked, h)
<1>7. /\ WellFormed(merged) /\ h \in DOMAIN merged /\ merged[h].is_free
      /\ PairedOnlyBefore(merged, h) /\ TakenIn(merged) = TakenIn(marked)
  BY <1>1, <1>2, <1>3, <1>5, MergeNextKeepsBlocks
<1> HIDE DEF merged
<1>8. /\ WellFormed(block') /\ FreeApart(block') /\ TakenIn(block') = TakenIn(merged)
  BY <1>4, <1>7, MergePrevKeepsBlocks DEF merged
<1>9. Taken' = TakenIn(block')
  BY DEF Taken, TakenIn
<1> QED
  BY <1>6, <1>7, <1>8, <1>9 DEF h

-----------------------------------------------------------------------------
(***************************************************************************)
(* The plans.                                                              *)
(***************************************************************************)
LEMMA PlanFacts ==
  ASSUME NEW p \in Program
  PROVE  /\ Len(Plan(p)) \in Nat \ {0}
         /\ \A t \in 1 .. Len(Plan(p)) :
              /\ Plan(p)[t].sizes \subseteq Nat \ {0}
              /\ t > 1 /\ ~ Plan(p)[t].fresh
                   => Plan(p)[t].allocator = Plan(p)[t - 1].allocator
<1>1. CASE p = "usage_factor"
  <2>1. Plan(p) = UsagePlan
    BY <1>1 DEF Plan
  <2> QED
    BY <2>1, BenchmarkAssumption DEF UsagePlan, Test, Sizes
<1>2. CASE p = "cock"
  <2>1. Plan(p) = TimingPlan
    BY <1>2 DEF Plan
  <2> QED
    BY <2>1, BenchmarkAssumption DEF TimingPlan, Test, Sizes
<1>3. CASE p = "client"
  <2>1. Plan(p) = ClientPlan
    BY <1>3 DEF Plan
  <2> QED
    BY <2>1, BenchmarkAssumption DEF ClientPlan, Test, Sizes
<1> QED
  BY <1>1, <1>2, <1>3 DEF Program

\* A new allocator, of which the caller holds nothing.
LEMMA FreshHeld == block = FreshBlock /\ active = {} => Held
BY DEF Held, Taken, FreshBlock

-----------------------------------------------------------------------------
(***************************************************************************)
(* The invariant holds at first, and every step preserves it.              *)
(***************************************************************************)
LEMMA InitInv == Init => BlocksInv
<1> SUFFICES ASSUME Init
             PROVE  BlocksInv
  OBVIOUS
<1>1. InPlan
  BY PlanFacts DEF Init, InPlan
<1>2. allocator = "BestFit" => block = FreshBlock
  BY DEF Init, Construct
<1> QED
  BY <1>1, <1>2, FreshWell, FreshHeld DEF Init, BlocksInv

LEMMA AskInv ==
  ASSUME BlocksInv, NEW size \in Current.sizes, NEW ptr, Ask(size, ptr)
  PROVE  BlocksInv'
<1>1. InPlan' /\ (allocator' = allocator)
  BY DEF BlocksInv, InPlan, Ask, allocator, Current
<1>2. CASE allocator # "BestFit"
  BY <1>1, <1>2 DEF BlocksInv
<1>3. CASE allocator = "BestFit" /\ ptr = Null
  <2>1. BestFitAlloc(size, ptr) /\ active' = active
    BY <1>3 DEF Ask, Remember
  <2>2. UNCHANGED block
    <3>1. \A h \in SuitableBlocks(size) : h + HeaderSize # Null
      BY <1>3, HeaderType, SizeFacts DEF BlocksInv, SuitableBlocks, Null
    <3> QED
      BY <1>3, <2>1, <3>1 DEF BestFitAlloc
  <2> QED
    BY <1>1, <1>3, <2>1, <2>2
    DEF BlocksInv, WellFormed, Tiled, Linked, FreeApart, FreePair, Held, Taken
<1>4. CASE allocator = "BestFit" /\ ptr # Null
  <2>1. size \in Nat \ {0}
    BY PlanFacts DEF BlocksInv, InPlan, Current
  <2>2. /\ BestFitAlloc(size, ptr)
        /\ active' = active \cup {[ptr |-> ptr, size |-> size]}
    BY <1>4 DEF Ask, Remember
  <2>3. WellFormed(block) /\ FreeApart(block) /\ Held
    BY <1>4 DEF BlocksInv
  <2>4. PICK h \in DOMAIN block : /\ ptr = h + HeaderSize
                                  /\ h \notin Taken
                                  /\ Taken' = Taken \cup {h}
    BY <1>4, <2>1, <2>2, <2>3, AllocKeepsBlocks
  <2>5. WellFormed(block') /\ FreeApart(block')
    BY <1>4, <2>1, <2>2, <2>3, AllocKeepsBlocks
  <2> DEFINE new == [ptr |-> ptr, size |-> size]
  <2>6. new.ptr \in Nat /\ new.ptr - HeaderSize = h /\ new.ptr = h + HeaderSize
    BY <2>3, <2>4, HeaderType, SizeFacts
  <2>7. \A a \in active : a.ptr # new.ptr
    BY <2>3, <2>4, <2>6 DEF Held
  <2>8. active' = active \cup {new}
    BY <2>2
  <2> HIDE DEF new
  <2>9. Held'
    <3>1. \A a \in active' : a.ptr \in Nat /\ a.ptr - HeaderSize \in Taken'
      BY <2>3, <2>4, <2>6, <2>8 DEF Held
    <3>2. \A a, b \in active' : a.ptr = b.ptr => a = b
      BY <2>3, <2>7, <2>8 DEF Held
    <3>3. \A g \in Taken' : \E a \in active' : a.ptr = g + HeaderSize
      BY <2>3, <2>4, <2>6, <2>8 DEF Held
    <3> QED
      BY <3>1, <3>2, <3>3 DEF Held
  <2> QED
    BY <1>1, <2>5, <2>9 DEF BlocksInv
<1> QED
  BY <1>2, <1>3, <1>4

LEMMA FreeInv ==
  ASSUME BlocksInv, NEW a \in active, Free(a)
  PROVE  BlocksInv'
<1>1. InPlan' /\ (allocator' = allocator)
  BY DEF BlocksInv, InPlan, Free, allocator, Current
<1>2. CASE allocator # "BestFit"
  BY <1>1, <1>2 DEF BlocksInv
<1>3. CASE allocator = "BestFit"
  <2>1. BestFitFree(a.ptr) /\ active' = active \ {a}
    BY <1>3 DEF Free
  <2>2. WellFormed(block) /\ FreeApart(block) /\ Held
    BY <1>3 DEF BlocksInv
  <2>3. a.ptr \in Nat /\ a.ptr - HeaderSize \in Taken
    BY <2>2 DEF Held
  <2>4. WellFormed(block') /\ FreeApart(block')
    BY <2>1, <2>2, <2>3, FreeKeepsBlocks
  <2>5. Taken' = Taken \ {a.ptr - HeaderSize}
    BY <2>1, <2>2, <2>3, FreeKeepsBlocks
  <2>6. Held'
    <3>1. \A b \in active' : b.ptr \in Nat /\ b.ptr - HeaderSize \in Taken
      BY <2>1, <2>2 DEF Held
    <3>2. \A b \in active' : b.ptr # a.ptr
      BY <2>1, <2>2 DEF Held
    <3>3. \A b \in active' : b.ptr - HeaderSize # a.ptr - HeaderSize
      BY <2>3, <3>1, <3>2, SizeFacts
    <3>4. \A b, c \in active' : b.ptr = c.ptr => b = c
      BY <2>1, <2>2 DEF Held
    <3>5. \A h \in Taken' : \E b \in active' : b.ptr = h + HeaderSize
      <4> SUFFICES ASSUME NEW h \in Taken'
                   PROVE  \E b \in active' : b.ptr = h + HeaderSize
        OBVIOUS
      <4>1. h \in Taken /\ h # a.ptr - HeaderSize /\ h \in Nat
        BY <2>2, <2>5, HeaderType DEF Taken
      <4>2. h + HeaderSize # a.ptr
        BY <2>3, <4>1, SizeFacts
      <4> QED
        BY <2>1, <2>2, <4>1, <4>2 DEF Held
    <3> QED
      BY <2>5, <3>1, <3>3, <3>4, <3>5 DEF Held
  <2> QED
    BY <1>1, <2>4, <2>6 DEF BlocksInv
<1> QED
  BY <1>2, <1>3

LEMMA NextTestInv ==
  ASSUME BlocksInv, NextTest
  PROVE  BlocksInv'
<1>1. InPlan' /\ active' = {}
  BY PlanFacts DEF BlocksInv, InPlan, NextTest
<1>2. Current' = Plan(program)[test + 1]
  BY DEF NextTest, Current
<1>3. CASE Plan(program)[test + 1].fresh
  <2>1. allocator' = "BestFit" => block' = FreshBlock
    BY <1>2, <1>3 DEF NextTest, Construct, allocator
  <2>2. block' = FreshBlock => WellFormed(block') /\ FreeApart(block')
    BY FreshWell
  <2>3. block' = FreshBlock => Held'
    BY <1>1 DEF Held, Taken, FreshBlock, head
  <2> QED
    BY <1>1, <2>1, <2>2, <2>3 DEF BlocksInv
<1>4. CASE ~ Plan(program)[test + 1].fresh
  <2>1. block' = block /\ active' = active
    BY <1>4 DEF NextTest
  <2>2. test + 1 \in 1 .. Len(Plan(program)) /\ test + 1 > 1 /\ test + 1 - 1 = test
    BY <1>1, PlanFacts DEF BlocksInv, InPlan, NextTest
  <2>3. Plan(program)[test + 1].allocator = Plan(program)[test].allocator
    BY <1>4, <2>2, PlanFacts DEF BlocksInv, InPlan
  <2>4. allocator' = allocator
    BY <1>2, <2>3 DEF allocator, Current
  <2> QED
    BY <1>1, <2>1, <2>4
    DEF BlocksInv, WellFormed, Tiled, Linked, FreeApart, FreePair, Held, Taken
<1> QED
  BY <1>3, <1>4

LEMMA NextInv == BlocksInv /\ [Next]_vars => BlocksInv'
<1> SUFFICES ASSUME BlocksInv, [Next]_vars
             PROVE  BlocksInv'
  OBVIOUS
<1>1. ASSUME NEW size \in Current.sizes, NEW ptr \in Pointers, Ask(size, ptr)
      PROVE  BlocksInv'
  BY <1>1, AskInv
<1>2. ASSUME NEW a \in active, FreeOne(a) \/ FreeRest(a)
      PROVE  BlocksInv'
  BY <1>2, FreeInv DEF FreeOne, FreeRest
<1>3. CASE NextTest
  BY <1>3, NextTestInv
<1>4. CASE UNCHANGED vars
  BY <1>4 DEF vars, BlocksInv, InPlan, allocator, Current,
              WellFormed, Tiled, Linked, FreeApart, FreePair, Held, Taken
<1> QED
  BY <1>1, <1>2, <1>3, <1>4 DEF Next

LEMMA SpecInv == Spec => []BlocksInv
BY InitInv, NextInv, PTL DEF Spec

-----------------------------------------------------------------------------
(***************************************************************************)
(* The blocks of BestFitAllocator always tile its memory                   *)
(* (list_of_free_blocks.cpp:70-87, 102-118).                               *)
(***************************************************************************)
THEOREM BlocksAlwaysTile == Spec => []BlocksTile
<1>1. BlocksInv => BlocksTile
  BY DEF BlocksInv, WellFormed, BlocksTile
<1> QED
  BY <1>1, SpecInv, PTL

(***************************************************************************)
(* No two neighbours are ever free, and when the caller holds nothing the  *)
(* memory is one block, as the constructor left it                         *)
(* (list_of_free_blocks.cpp:102-118).                                      *)
(***************************************************************************)
THEOREM NeverFreeNeighbours == Spec => []NoFreeNeighbours
<1>1. ASSUME BlocksInv, allocator = "BestFit"
      PROVE  \A h \in DOMAIN block :
               block[h].is_free /\ block[h].next # Null
                 => ~ block[block[h].next].is_free
  BY <1>1 DEF BlocksInv, FreeApart, FreePair
<1>2. ASSUME BlocksInv, allocator = "BestFit", active = {}
      PROVE  block = FreshBlock
  <2>1. WellFormed(block) /\ FreeApart(block)
    BY <1>2 DEF BlocksInv
  <2>2. \A h \in DOMAIN block : block[h].is_free
    BY <1>2 DEF BlocksInv, Held, Taken
  <2>3. \A h \in DOMAIN block : block[h].next = Null
    BY <2>1, <2>2, Neighbours DEF FreeApart, FreePair
  <2>4. /\ head \in DOMAIN block
        /\ \A h \in DOMAIN block : h # head => /\ block[h].prev \in DOMAIN block
                                               /\ block[block[h].prev].next = h
        /\ block[head].prev = Null
        /\ head + block[head].size = head + total_size
    BY <2>1, <2>3 DEF WellFormed, Tiled, Linked
  <2>5. DOMAIN block = {head}
    BY <2>1, <2>3, <2>4, HeaderType
  <2>6. block[head].size = total_size
    BY <2>1, <2>4, HeaderType, SizeFacts
  <2>7. block[head] \in BlockHeader /\ block[head].is_free = TRUE
    BY <2>1, <2>2, <2>4 DEF WellFormed, BlockHeader
  <2>8. block[head] = [size |-> total_size, is_free |-> TRUE,
                       next |-> Null, prev |-> Null]
    BY <2>3, <2>4, <2>6, <2>7 DEF BlockHeader
  <2>9. block = [h \in DOMAIN block |-> block[h]]
    BY <2>1 DEF WellFormed
  <2> QED
    BY <2>5, <2>8, <2>9 DEF FreshBlock
<1>3. BlocksInv => NoFreeNeighbours
  BY <1>1, <1>2 DEF NoFreeNeighbours
<1> QED
  BY <1>3, SpecInv, PTL

-----------------------------------------------------------------------------
(***************************************************************************)
(* Numbers.  The sizes of the buckets are powers of 2, and 2^n is the      *)
(* number of subsets of a set of n.  What would be an induction is done by *)
(* picking the least number that breaks the claim.                         *)
(***************************************************************************)

\* Division leaves a remainder less than the divisor.
LEMMA DivMod ==
  ASSUME NEW a \in Int, NEW b \in Nat \ {0}
  PROVE  /\ a \div b \in Int /\ a % b \in 0 .. b - 1
         /\ a = b * (a \div b) + (a % b)
OBVIOUS

\* The quotient is the only one that does.
LEMMA DivUnique ==
  ASSUME NEW b \in Nat \ {0}, NEW q \in Int, NEW r \in 0 .. b - 1
  PROVE  (q * b + r) \div b = q
<1> DEFINE a == q * b + r
           d == a \div b
           m == a % b
<1>1. a \in Int /\ d \in Int /\ m \in 0 .. b - 1 /\ a = b * d + m
  BY DivMod
<1>2. b * (d - q) = r - m
  BY <1>1
<1>3. d - q >= 1 => b * (d - q) >= b
  BY <1>1
<1>4. d - q <= -1 => b * (d - q) <= -b
  BY <1>1
<1> QED BY <1>1, <1>2, <1>3, <1>4

\* Products grow with their factors.
LEMMA Times ==
  ASSUME NEW a \in Int, NEW b \in Int, NEW c \in Nat, a <= b
  PROVE  a * c <= b * c
OBVIOUS

\* There are 2^n subsets of 1 .. n, at least one.
LEMMA PowerType ==
  ASSUME NEW n \in Nat
  PROVE  2^n = Cardinality(SUBSET (1 .. n)) /\ 2^n \in Nat \ {0}
<1>1. IsFiniteSet(1 .. n) /\ Cardinality(1 .. n) = n
  BY FS_Interval
<1>2. IsFiniteSet(SUBSET (1 .. n)) /\ Cardinality(SUBSET (1 .. n)) = 2^n
  BY <1>1, FS_SUBSET
<1>3. SUBSET (1 .. n) # {}
  OBVIOUS
<1>4. Cardinality(SUBSET (1 .. n)) \in Nat
  BY <1>2, FS_CardinalityType
<1>5. Cardinality(SUBSET (1 .. n)) # 0
  BY <1>2, <1>3, FS_EmptySet
<1> QED BY <1>2, <1>4, <1>5

\* A larger set has more subsets.
LEMMA PowerGrows ==
  ASSUME NEW m \in Nat, NEW n \in Nat, m < n
  PROVE  2^m < 2^n
<1> DEFINE S == SUBSET (1 .. m)
           T == SUBSET (1 .. n)
<1>1. IsFiniteSet(S) /\ IsFiniteSet(T)
  <2>1. IsFiniteSet(1 .. m) /\ IsFiniteSet(1 .. n)
    BY FS_Interval
  <2> QED
    BY <2>1, FS_SUBSET
<1>2. S \subseteq T /\ {n} \in T /\ {n} \notin S
  OBVIOUS
<1>3. S \in SUBSET T /\ S # T
  BY <1>2
<1>4. Cardinality(S) <= Cardinality(T) /\ Cardinality(S) # Cardinality(T)
  BY <1>1, <1>3, FS_Subset
<1> QED
  BY <1>4, PowerType

\* A set of numbers has a least one.
LEMMA Least ==
  ASSUME NEW T, T \subseteq Nat, T # {}
  PROVE  \E x \in T : \A y \in T : x <= y
<1>1. \E x \in T : \A y \in T : ~ (<<y, x>> \in OpToRel(<, Nat))
  BY NatLessThanWellFounded, WFMin, Zenon
<1>2. \E x \in T : \A y \in T : ~ (<<y, x>> \in {ss \in Nat \X Nat : ss[1] < ss[2]})
  BY <1>1 DEF OpToRel
<1>3. \E x \in T : \A y \in T : ~ (y < x)
  BY <1>2
<1> QED BY <1>3

-----------------------------------------------------------------------------
(***************************************************************************)
(* Sizes of buckets, and where the pages of McKusickAllocator and the      *)
(* blocks of a cut page lie.                                               *)
(***************************************************************************)

\* Multiples of a multiple of 8.
LEMMA EightTimes ==
  ASSUME NEW a \in Int, NEW b \in Int, a % 8 = 0
  PROVE  (a * b) % 8 = 0
<1>1. PICK k \in Int : a = 8 * k
  BY DivMod
<1>2. a * b = 8 * (k * b) /\ k * b \in Int
  BY <1>1
<1>3. \A x \in Int : (8 * x) % 8 = 0
  OBVIOUS
<1> QED
  BY <1>2, <1>3

\* Block sizes are multiples of 8 that grow up to the page size.
LEMMA BucketSizes ==
  ASSUME NEW b \in Bucket
  PROVE  /\ BlockSize(b) \in Nat \ {0}
         /\ BlockSize(b) % 8 = 0
         /\ BlockSize(b) <= PAGE_SIZE
         /\ \A c \in Bucket : b < c => BlockSize(b) < BlockSize(c)
<1>1. \A c \in Bucket : c \in Nat /\ 2^c \in Nat \ {0}
  <2>1. Bucket \subseteq Nat
    BY McKusickAssumption DEF Bucket
  <2> QED
    BY <2>1, PowerType
<1>2. \A c \in Bucket : b < c => 2^b < 2^c
  BY <1>1, PowerGrows
<1>3. \A x, y \in Nat : x < y => MIN_BLOCK_SIZE * x < MIN_BLOCK_SIZE * y
  BY McKusickAssumption
<1>4. \A c \in Bucket : b < c => BlockSize(b) < BlockSize(c)
  BY <1>1, <1>2, <1>3 DEF BlockSize
<1>5. BlockSize(b) \in Nat \ {0}
  BY <1>1, McKusickAssumption DEF BlockSize
<1>6. BlockSize(b) % 8 = 0
  BY <1>1, EightTimes, McKusickAssumption DEF BlockSize
<1>7. BUCKET_COUNT - 1 \in Bucket /\ b <= BUCKET_COUNT - 1
  BY McKusickAssumption DEF Bucket
<1>8. BlockSize(b) <= PAGE_SIZE
  <2>1. BlockSize(BUCKET_COUNT - 1) = PAGE_SIZE
    BY McKusickAssumption DEF MAX_BLOCK_SIZE
  <2>2. b = BUCKET_COUNT - 1 \/ b < BUCKET_COUNT - 1
    BY <1>7, McKusickAssumption DEF Bucket
  <2> QED
    BY <1>4, <1>5, <1>7, <2>1, <2>2, MemoryAssumption
<1> QED
  BY <1>4, <1>5, <1>6, <1>8

\* A size of at most a page has a bucket of blocks that are large enough.
LEMMA BucketIndex ==
  ASSUME NEW size \in 1 .. PAGE_SIZE
  PROVE  /\ get_bucket_index(size) \in Bucket
         /\ size <= BlockSize(get_bucket_index(size))
<1> DEFINE T == {b \in Bucket : size <= BlockSize(b)}
<1>1. T \subseteq Nat /\ BUCKET_COUNT - 1 \in T
  BY McKusickAssumption, MemoryAssumption DEF Bucket, MAX_BLOCK_SIZE
<1>2. PICK b \in T : \A c \in T : b <= c
  BY <1>1, Least
<1> QED
  BY <1>2 DEF get_bucket_index

\* The bucket of a block of bucket b is b.
LEMMA BucketOfBlock ==
  ASSUME NEW b \in Bucket
  PROVE  get_bucket_index(BlockSize(b)) = b
<1> DEFINE g == get_bucket_index(BlockSize(b))
<1>1. BlockSize(b) \in 1 .. PAGE_SIZE
  BY BucketSizes, MemoryAssumption
<1>2. b \in Bucket /\ BlockSize(b) <= BlockSize(b)
      /\ \A c \in Bucket : BlockSize(b) <= BlockSize(c) => b <= c
  BY BucketSizes DEF Bucket
<1>3. g \in Bucket /\ BlockSize(b) <= BlockSize(g)
      /\ \A c \in Bucket : BlockSize(b) <= BlockSize(c) => g <= c
  BY <1>2 DEF get_bucket_index
<1> QED
  BY <1>2, <1>3 DEF Bucket

\* All pages are pages of metadata or pages of memory.
LEMMA PageSums ==
  /\ total_pages \in Nat /\ total_meta_pages \in Nat
  /\ total_pages * PAGE_SIZE = RoundUp(memory_size, PAGE_SIZE)
  /\ PageCount \in Nat \ {0}
  /\ total_meta_pages + PageCount = total_pages
  /\ initial_memory = memory + total_meta_pages * PAGE_SIZE
  /\ initial_memory \in Nat
<1>1. \A n \in Nat : RoundUp(n, PAGE_SIZE) \div PAGE_SIZE
                       = (n + PAGE_SIZE - 1) \div PAGE_SIZE
  <2> TAKE n \in Nat
  <2> DEFINE k == (n + PAGE_SIZE - 1) \div PAGE_SIZE
  <2>1. k \in Int
    BY DivMod, MemoryAssumption
  <2>2. (k * PAGE_SIZE + 0) \div PAGE_SIZE = k
    BY <2>1, DivUnique, MemoryAssumption
  <2> QED
    BY <2>1, <2>2, MemoryAssumption DEF RoundUp
<1>2. \A n \in Nat : (n + PAGE_SIZE - 1) \div PAGE_SIZE \in Nat
  BY DivMod, MemoryAssumption
<1>3. total_pages \in Nat /\ total_pages = (memory_size + PAGE_SIZE - 1) \div PAGE_SIZE
  BY <1>1, <1>2, MemoryAssumption DEF total_pages
<1>4. total_pages * PageInfoSize \in Nat
  BY <1>3, McKusickAssumption
<1>5. total_meta_pages \in Nat
  BY <1>1, <1>2, <1>4 DEF total_meta_pages
<1> QED
  BY <1>3, <1>5, McKusickAssumption, MemoryAssumption
  DEF PageCount, initial_memory, RoundUp

\* A page lies inside of the memory, aligned, behind the pages before it;
\* page_info is found again from any address in it.
LEMMA PagePlaces ==
  ASSUME NEW p \in Page
  PROVE  /\ page_addr(p) \in Nat \ {Null}
         /\ page_addr(p) % 8 = 0
         /\ memory <= page_addr(p)
         /\ page_addr(p) + PAGE_SIZE <= memory + RoundUp(memory_size, PAGE_SIZE)
         /\ \A q \in Page : p < q => page_addr(p) + PAGE_SIZE <= page_addr(q)
         /\ \A r \in 0 .. PAGE_SIZE - 1 : find_page_info(page_addr(p) + r) = p
<1> DEFINE t == total_meta_pages
<1>1. p \in Nat /\ p + 1 <= PageCount /\ t \in Nat
  BY PageSums DEF Page
<1>2. page_addr(p) = memory + (t + p) * PAGE_SIZE
  BY <1>1, PageSums, MemoryAssumption DEF page_addr
<1>3. memory \in Nat \ {Null} /\ PAGE_SIZE \in Nat \ {0}
  BY MemoryAssumption DEF Null
<1>4. PICK m \in Int : memory = m * PAGE_SIZE
  <2>1. /\ memory \div PAGE_SIZE \in Int
        /\ memory = PAGE_SIZE * (memory \div PAGE_SIZE) + (memory % PAGE_SIZE)
    BY DivMod, <1>3
  <2>2. memory = (memory \div PAGE_SIZE) * PAGE_SIZE
    BY <1>3, <2>1, MemoryAssumption
  <2> QED
    BY <2>1, <2>2
<1> HIDE DEF t
<1>5. (t + p + 1) * PAGE_SIZE <= total_pages * PAGE_SIZE
  <2>1. t + p + 1 <= total_pages
    BY <1>1, PageSums DEF t
  <2> QED
    BY <1>1, <1>3, <2>1, Times, PageSums
<1>6. page_addr(p) % 8 = 0
  <2> DEFINE k == m + t + p
  <2>1. PAGE_SIZE * k = page_addr(p) /\ k \in Int
    BY <1>1, <1>2, <1>3, <1>4
  <2> HIDE DEF k
  <2>2. PAGE_SIZE \in Int /\ PAGE_SIZE % 8 = 0 /\ k \in Int
    BY <2>1, MemoryAssumption
  <2>3. (PAGE_SIZE * k) % 8 = 0
    BY ONLY <2>2, EightTimes, Zenon
  <2> QED
    BY <2>1, <2>3
<1>7. ASSUME NEW q \in Page, p < q
      PROVE  page_addr(p) + PAGE_SIZE <= page_addr(q)
  <2>1. page_addr(q) = memory + (t + q) * PAGE_SIZE /\ q \in Nat
    BY <1>1, PageSums, MemoryAssumption DEF page_addr, Page, t
  <2>2. (t + p + 1) * PAGE_SIZE <= (t + q) * PAGE_SIZE
    BY <1>1, <1>3, <1>7, <2>1, Times
  <2> QED
    BY <1>1, <1>2, <1>3, <2>1, <2>2
<1>8. ASSUME NEW r \in 0 .. PAGE_SIZE - 1
      PROVE  find_page_info(page_addr(p) + r) = p
  <2>1. page_addr(p) + r = (m + t + p) * PAGE_SIZE + r /\ m + t + p \in Int
    BY <1>1, <1>2, <1>3, <1>4
  <2>2. (page_addr(p) + r) \div PAGE_SIZE = m + t + p
    BY <1>3, <2>1, DivUnique
  <2>3. (m + t + p) * PAGE_SIZE - initial_memory = p * PAGE_SIZE + 0
    BY <1>1, <1>3, <1>4, PageSums DEF t
  <2>4. (p * PAGE_SIZE + 0) \div PAGE_SIZE = p
    BY <1>1, <1>3, DivUnique
  <2> QED
    BY <2>2, <2>3, <2>4 DEF find_page_info
<1>9. (t + p) * PAGE_SIZE \in Nat /\ (t + p + 1) * PAGE_SIZE = (t + p) * PAGE_SIZE + PAGE_SIZE
  BY <1>1, <1>3
<1>10. total_pages * PAGE_SIZE = RoundUp(memory_size, PAGE_SIZE)
  BY PageSums
<1>11. RoundUp(memory_size, PAGE_SIZE) \in Int
  BY <1>3, <1>10, PageSums
<1>12. /\ page_addr(p) \in Nat \ {Null}
       /\ memory <= page_addr(p)
       /\ page_addr(p) + PAGE_SIZE <= memory + RoundUp(memory_size, PAGE_SIZE)
  BY <1>2, <1>3, <1>5, <1>9, <1>10, <1>11 DEF Null
<1> QED
  BY <1>6, <1>7, <1>8, <1>12

\* The blocks of a page lie inside of it, aligned and one behind the other.
LEMMA BlockPlaces ==
  ASSUME NEW p \in Page, NEW b \in Bucket
  PROVE  LET s == BlockSize(b)
             n == PAGE_SIZE \div s
             B == BlocksOf(p, s)
         IN  /\ n \in Nat \ {0}
             /\ B \in Seq(Nat \ {Null}) /\ Len(B) = n /\ B[1] = page_addr(p)
             /\ \A i \in 1 .. n :
                  /\ B[i] % 8 = 0
                  /\ page_addr(p) <= B[i]
                  /\ B[i] + s <= page_addr(p) + PAGE_SIZE
                  /\ find_page_info(B[i]) = p
             /\ \A i, j \in 1 .. n : i < j => B[i] + s <= B[j]
<1> DEFINE s == BlockSize(b)
           n == PAGE_SIZE \div s
           B == BlocksOf(p, s)
<1>1. s \in Nat \ {0} /\ s <= PAGE_SIZE /\ s % 8 = 0
  BY BucketSizes
<1>2. page_addr(p) \in Nat \ {0} /\ page_addr(p) % 8 = 0
  BY PagePlaces DEF Null
<1> HIDE DEF s
<1>3. n \in Int /\ n * s <= PAGE_SIZE /\ PAGE_SIZE < (n + 1) * s
  BY <1>1, DivMod, MemoryAssumption
<1>4. n \in Nat \ {0}
  <2>1. n + 1 <= 1 => (n + 1) * s <= 1 * s
    BY <1>1, <1>3, Times
  <2> QED
    BY <1>1, <1>3, <2>1, MemoryAssumption
<1>5. B = [i \in 1 .. n |-> page_addr(p) + (i - 1) * s]
  BY DEF BlocksOf
<1> HIDE DEF n, B
<1>6. ASSUME NEW i \in 1 .. n
      PROVE  /\ B[i] \in Nat \ {Null}
             /\ B[i] % 8 = 0
             /\ page_addr(p) <= B[i]
             /\ B[i] + s <= page_addr(p) + PAGE_SIZE
             /\ find_page_info(B[i]) = p
  <2>1. B[i] = page_addr(p) + (i - 1) * s /\ i - 1 \in Nat
    BY <1>4, <1>5
  <2>2. i * s <= n * s
    BY <1>1, <1>4, Times
  <2>3. (i - 1) * s \in Nat /\ i * s = (i - 1) * s + s
    BY <1>1, <2>1
  <2>4. (s * (i - 1)) % 8 = 0 /\ s * (i - 1) = (i - 1) * s
    BY <1>1, <2>1, EightTimes
  <2>5. B[i] % 8 = 0
    BY <1>2, <2>1, <2>3, <2>4
  <2>6. (i - 1) * s \in 0 .. PAGE_SIZE - 1
    BY <1>1, <1>3, <2>2, <2>3, MemoryAssumption
  <2>7. find_page_info(B[i]) = p
    BY <2>1, <2>6, PagePlaces
  <2> QED
    BY <1>1, <1>2, <1>3, <2>1, <2>2, <2>3, <2>5, <2>7, MemoryAssumption DEF Null
<1>7. ASSUME NEW i \in 1 .. n, NEW j \in 1 .. n, i < j
      PROVE  B[i] + s <= B[j]
  <2>1. i * s <= (j - 1) * s
    BY <1>1, <1>4, <1>7, Times
  <2>2. i * s = (i - 1) * s + s /\ (i - 1) * s \in Int /\ (j - 1) * s \in Int
    BY <1>1, <1>4
  <2>3. B[i] = page_addr(p) + (i - 1) * s /\ B[j] = page_addr(p) + (j - 1) * s
    BY <1>5
  <2> QED
    BY <1>1, <1>2, <2>1, <2>2, <2>3
<1>8. B \in Seq(Nat \ {Null}) /\ Len(B) = n
  <2>1. \A i \in 1 .. n : page_addr(p) + (i - 1) * s \in Nat \ {Null}
    BY <1>5, <1>6
  <2> QED
    BY <1>4, <1>5, <2>1
<1>9. B[1] = page_addr(p)
  BY <1>1, <1>2, <1>4, <1>5
<1> QED
  BY <1>4, <1>6, <1>7, <1>8, <1>9 DEF s, n, B

\* A buffer has the least number of pages that hold its size: one of them is
\* enough for a size of at most a page.
LEMMA RequiredPages ==
  ASSUME NEW size \in Nat \ {0}
  PROVE  /\ get_required_pages(size) \in Nat \ {0}
         /\ size <= get_required_pages(size) * PAGE_SIZE
         /\ size <= PAGE_SIZE => get_required_pages(size) = 1
<1> DEFINE k == (size + PAGE_SIZE - 1) \div PAGE_SIZE
<1>1. PAGE_SIZE \in Nat \ {0}
  BY MemoryAssumption
<1>2. k \in Int /\ k * PAGE_SIZE <= size + PAGE_SIZE - 1
      /\ size + PAGE_SIZE - 1 < (k + 1) * PAGE_SIZE
  BY <1>1, DivMod
<1>3. (k * PAGE_SIZE + 0) \div PAGE_SIZE = k
  BY <1>1, <1>2, DivUnique
<1>4. get_required_pages(size) = k
  BY <1>1, <1>2, <1>3 DEF get_required_pages, RoundUp
<1> HIDE DEF k
<1>5. (k + 1) * PAGE_SIZE = k * PAGE_SIZE + PAGE_SIZE
  BY <1>1, <1>2
<1>6. k >= 1
  <2>1. k <= 0 => k * PAGE_SIZE <= 0 * PAGE_SIZE
    BY <1>1, <1>2, Times
  <2> QED
    BY <1>1, <1>2, <1>5, <2>1
<1>7. size <= PAGE_SIZE => k <= 1
  <2>1. k >= 2 => 2 * PAGE_SIZE <= k * PAGE_SIZE
    BY <1>1, <1>2, Times
  <2> QED
    BY <1>1, <1>2, <2>1
<1> QED
  BY <1>1, <1>2, <1>4, <1>5, <1>6, <1>7

-----------------------------------------------------------------------------
(***************************************************************************)
(* Lists of pages.  insert_sorted keeps a list sorted and adds one page to *)
(* it; free inserts the pages of a buffer one after the other.             *)
(***************************************************************************)

\* What is known of the elements of a list of pages.
LEMMA PageList ==
  ASSUME NEW list \in Seq(Page)
  PROVE  /\ Len(list) \in Nat /\ DOMAIN list = 1 .. Len(list)
         /\ \A i \in 1 .. Len(list) : list[i] \in Page /\ list[i] \in Nat
<1>1. Page \subseteq Nat
  BY PageSums DEF Page
<1> QED
  BY <1>1, LenProperties, ElementOfSeq

Sorted(list) ==
  \A i, j \in 1 .. Len(list) : i < j => list[i] < list[j]

\* A page has a place in a sorted list.
LEMMA CutPoint ==
  ASSUME NEW list \in Seq(Page), NEW p \in Page, Sorted(list)
  PROVE  \E n \in 0 .. Len(list) : /\ \A i \in 1 .. n : list[i] <= p
                                   /\ n < Len(list) => p < list[n + 1]
<1> DEFINE T == {i \in 1 .. Len(list) : p < list[i]}
<1>1. Len(list) \in Nat /\ p \in Nat /\ \A i \in 1 .. Len(list) : list[i] \in Nat
  BY PageList, PageSums DEF Page
<1>2. CASE T = {}
  <2>1. \A i \in 1 .. Len(list) : list[i] <= p
    BY <1>1, <1>2
  <2> WITNESS Len(list) \in 0 .. Len(list)
  <2> QED
    BY <1>1, <2>1
<1>3. CASE T # {}
  <2>0. T \subseteq Nat
    OBVIOUS
  <2>1. PICK m \in T : \A i \in T : m <= i
    BY <1>3, <2>0, Least
  <2>2. m \in 1 .. Len(list) /\ p < list[m]
    BY <2>1
  <2>3. \A i \in 1 .. m - 1 : list[i] <= p
    BY <1>1, <2>1, <2>2
  <2>4. m - 1 \in 0 .. Len(list) /\ m - 1 + 1 = m
    BY <1>1, <2>2
  <2> WITNESS m - 1 \in 0 .. Len(list)
  <2> QED
    BY <2>2, <2>3, <2>4
<1> QED
  BY <1>2, <1>3

\* It is put there.
LEMMA InsertSorted ==
  ASSUME NEW list \in Seq(Page), Sorted(list), NEW p \in Page, p \notin Range(list)
  PROVE  /\ insert_sorted(list, p) \in Seq(Page)
         /\ Sorted(insert_sorted(list, p))
         /\ Range(insert_sorted(list, p)) = Range(list) \cup {p}
<1>1. PICK n \in 0 .. Len(list) :
        /\ \A i \in 1 .. n : list[i] <= p
        /\ n < Len(list) => p < list[n + 1]
        /\ insert_sorted(list, p)
             = SubSeq(list, 1, n) \o <<p>> \o SubSeq(list, n + 1, Len(list))
  <2> DEFINE C(n) == /\ \A i \in 1 .. n : list[i] <= p
                     /\ n < Len(list) => p < list[n + 1]
             n == CHOOSE n \in 0 .. Len(list) : C(n)
  <2>1. n \in 0 .. Len(list) /\ C(n)
    BY CutPoint
  <2> QED
    BY <2>1 DEF insert_sorted
<1> DEFINE L == Len(list)
           new == insert_sorted(list, p)
<1>2. L \in Nat /\ p \in Nat /\ \A i \in 1 .. L : list[i] \in Nat /\ list[i] \in Page
  BY PageList, PageSums DEF Page
<1>3. \A i \in 1 .. L : list[i] # p
  BY <1>2 DEF Range
<1>4. /\ new \in Seq(Page) /\ Len(new) = L + 1
      /\ \A i \in 1 .. L + 1 :
           new[i] = IF i <= n THEN list[i] ELSE IF i = n + 1 THEN p ELSE list[i - 1]
  <2> DEFINE a == SubSeq(list, 1, n)
             c == SubSeq(list, n + 1, L)
  <2>1. /\ a \in Seq(Page) /\ Len(a) = n
        /\ \A i \in 1 .. n : a[i] = list[i]
    BY <1>2, SubSeqProperties
  <2>2. /\ c \in Seq(Page) /\ Len(c) = L - n
        /\ \A i \in 1 .. L - n : c[i] = list[n + i]
    <3>1. \A i \in n + 1 .. L : list[i] \in Page
      BY <1>2
    <3>2. \A i \in 1 .. L - n : n + 1 + i - 1 = n + i
      BY <1>2
    <3>3. L - (n + 1) + 1 = L - n /\ n + 1 \in Int /\ L \in Int
      BY <1>2
    <3>4. /\ c \in Seq(Page) /\ Len(c) = IF n + 1 <= L THEN L - (n + 1) + 1 ELSE 0
          /\ \A i \in 1 .. L - (n + 1) + 1 : c[i] = list[n + 1 + i - 1]
      BY <3>1, <3>3, SubSeqProperties
    <3>5. \A i \in 1 .. L - n : c[i] = list[n + i]
      BY <3>2, <3>3, <3>4
    <3>6. Len(c) = L - n
      BY <1>2, <3>4
    <3> HIDE DEF c
    <3> QED
      BY <3>4, <3>5, <3>6
  <2> HIDE DEF a, c
  <2>3. <<p>> \in Seq(Page) /\ Len(<<p>>) = 1 /\ <<p>>[1] = p
    OBVIOUS
  <2> DEFINE ap == a \o <<p>>
  <2>4. /\ ap \in Seq(Page) /\ Len(ap) = n + 1
        /\ \A i \in 1 .. n + 1 : ap[i] = IF i <= n THEN list[i] ELSE p
    BY <2>1, <2>3, ConcatProperties
  <2>5. new = ap \o c
    BY <1>1 DEF a, c
  <2> HIDE DEF ap, new
  <2>6. /\ new \in Seq(Page) /\ Len(new) = L + 1
        /\ \A i \in 1 .. L + 1 : new[i] = IF i <= n + 1 THEN ap[i] ELSE c[i - (n + 1)]
    <3>1. /\ ap \o c \in Seq(Page)
          /\ Len(ap \o c) = Len(ap) + Len(c)
          /\ \A i \in 1 .. Len(ap) + Len(c) :
               (ap \o c)[i] = IF i <= Len(ap) THEN ap[i] ELSE c[i - Len(ap)]
      BY <2>2, <2>4, ConcatProperties
    <3>2. Len(ap) = n + 1 /\ Len(ap) + Len(c) = L + 1
      BY <1>2, <2>2, <2>4
    <3> QED
      BY <2>5, <3>1, <3>2
  <2>7. \A i \in 1 .. L + 1 :
           new[i] = IF i <= n THEN list[i] ELSE IF i = n + 1 THEN p ELSE list[i - 1]
    <3> TAKE i \in 1 .. L + 1
    <3>1. i > n + 1 => i - (n + 1) \in 1 .. L - n /\ n + (i - (n + 1)) = i - 1
      BY <1>2
    <3>2. CASE i <= n + 1
      BY <1>2, <2>4, <2>6, <3>2
    <3>3. CASE i > n + 1
      <4>1. new[i] = c[i - (n + 1)]
        BY <1>2, <2>6, <3>3
      <4>2. c[i - (n + 1)] = list[n + (i - (n + 1))]
        BY <2>2, <3>1, <3>3
      <4> QED
        BY <1>2, <3>1, <3>3, <4>1, <4>2
    <3> QED
      BY <1>2, <3>2, <3>3
  <2> QED
    BY <2>6, <2>7
<1> HIDE DEF new
<1>5. Sorted(new)
  <2> SUFFICES ASSUME NEW i \in 1 .. L + 1, NEW j \in 1 .. L + 1, i < j
               PROVE  new[i] < new[j]
    BY <1>4 DEF Sorted
  <2>1. \A k \in 1 .. n : list[k] < p
    BY <1>1, <1>2, <1>3
  <2>2. \A k \in n + 1 .. L : p < list[k]
    BY <1>1, <1>2 DEF Sorted
  <2>3. CASE j <= n
    <3>1. i \in 1 .. L /\ j \in 1 .. L /\ new[i] = list[i] /\ new[j] = list[j]
      BY <1>2, <1>4, <2>3
    <3> QED
      BY <3>1 DEF Sorted
  <2>4. CASE j = n + 1
    BY <1>2, <1>4, <2>1, <2>4
  <2>5. CASE j > n + 1 /\ i <= n
    <3>1. i \in 1 .. L /\ j - 1 \in 1 .. L /\ i < j - 1 /\ new[i] = list[i] /\ new[j] = list[j - 1]
      BY <1>2, <1>4, <2>5
    <3> QED
      BY <3>1 DEF Sorted
  <2>6. CASE j > n + 1 /\ i = n + 1
    <3>1. j - 1 \in n + 1 .. L /\ new[i] = p /\ new[j] = list[j - 1]
      BY <1>2, <1>4, <2>6
    <3> QED
      BY <2>2, <3>1
  <2>7. CASE j > n + 1 /\ i > n + 1
    <3>1. /\ i - 1 \in 1 .. L /\ j - 1 \in 1 .. L /\ i - 1 < j - 1
          /\ new[i] = list[i - 1] /\ new[j] = list[j - 1]
      BY <1>2, <1>4, <2>7
    <3> QED
      BY <3>1 DEF Sorted
  <2> QED
    BY <1>2, <2>3, <2>4, <2>5, <2>6, <2>7
<1>6. Range(new) = Range(list) \cup {p}
  <2>1. \A i \in 1 .. L + 1 : new[i] \in Range(list) \cup {p}
    BY <1>2, <1>4 DEF Range
  <2>2. new[n + 1] = p /\ n + 1 \in DOMAIN new
    BY <1>2, <1>4
  <2>3. \A i \in 1 .. L : \E j \in 1 .. L + 1 : new[j] = list[i]
    <3> TAKE i \in 1 .. L
    <3>1. i <= n => i \in 1 .. L + 1 /\ new[i] = list[i]
      BY <1>2, <1>4
    <3>2. i > n => i + 1 \in 1 .. L + 1 /\ new[i + 1] = list[i]
      BY <1>2, <1>4
    <3> QED
      BY <1>2, <3>1, <3>2
  <2>4. DOMAIN new = 1 .. L + 1 /\ DOMAIN list = 1 .. L
    BY <1>4
  <2> QED
    BY <2>1, <2>2, <2>3, <2>4 DEF Range
<1> QED
  BY <1>4, <1>5, <1>6 DEF new

\* The largest number of a finite set.
LEMMA Largest ==
  ASSUME NEW n \in Nat, NEW T \in SUBSET (1 .. n), T # {}
  PROVE  Max(T) \in T /\ \A x \in T : x <= Max(T)
<1> DEFINE D == {d \in 0 .. n : n - d \in T}
<1>1. D \subseteq Nat /\ D # {}
  <2>1. PICK x \in T : TRUE
    OBVIOUS
  <2>2. x \in 1 .. n /\ n - (n - x) = x
    OBVIOUS
  <2>3. n - x \in D
    BY <2>1, <2>2
  <2>4. D \subseteq Nat
    OBVIOUS
  <2> HIDE DEF D
  <2> QED
    BY <2>3, <2>4
<1>2. PICK d \in D : \A e \in D : d <= e
  BY <1>1, Least
<1>3. n - d \in T /\ \A x \in T : n - d >= x
  <2> SUFFICES ASSUME NEW x \in T
               PROVE  n - d >= x
    BY <1>2
  <2>1. n - x \in D
    OBVIOUS
  <2> QED
    BY <1>2, <2>1
<1> QED
  BY <1>3 DEF Max

\* The pages are inserted one after the other.
Inserted(list, pages) == FoldLeft(insert_sorted, list, pages)

\* g[k] is the list after the first k pages.
Inserting(g, n, list, pages) ==
  /\ g[0] = list
  /\ \A k \in 1 .. n : g[k] = insert_sorted(g[k - 1], pages[k])
  /\ Inserted(list, pages) = g[n]

\* The fold goes through the pages from the first to the last: it is a
\* function on the subsets of 1 .. n, defined by their size.
LEMMA FoldSteps ==
  ASSUME NEW n \in Nat, NEW list, NEW pages, DOMAIN pages = 1 .. n
  PROVE  \E g : Inserting(g, n, list, pages)
<1> DEFINE S == 1 .. n
           Small(m) == {s \in SUBSET S : Cardinality(s) <= m}
           Step(f, s) == IF s = {} THEN list
                         ELSE insert_sorted(f[s \ {Max(s)}], pages[Max(s)])
           T == {m \in Nat : ~ \E f : f = [s \in Small(m) |-> Step(f, s)]}
<1>1. \A s \in SUBSET S : IsFiniteSet(s) /\ Cardinality(s) \in Nat /\ Cardinality(s) <= n
  <2>1. IsFiniteSet(S) /\ Cardinality(S) = n
    BY FS_Interval
  <2> QED
    BY <2>1, FS_Subset, FS_CardinalityType
<1>2. \A s \in SUBSET S : s # {} =>
        /\ Max(s) \in s /\ s \ {Max(s)} \in SUBSET S
        /\ Cardinality(s \ {Max(s)}) = Cardinality(s) - 1
  BY <1>1, Largest, FS_RemoveElement
<1>3. 0 \notin T
  <2>1. \A s \in Small(0) : s = {}
    BY <1>1, FS_EmptySet
  <2> DEFINE f == [s \in Small(0) |-> list]
  <2>2. f = [s \in Small(0) |-> Step(f, s)]
    BY <2>1
  <2> QED
    BY <2>2
<1>4. ASSUME NEW m \in Nat, m \notin T
      PROVE  m + 1 \notin T
  <2>1. PICK f : f = [s \in Small(m) |-> Step(f, s)]
    BY <1>4
  <2> DEFINE h == [s \in Small(m + 1) |-> IF s \in Small(m) THEN f[s] ELSE Step(f, s)]
  <2>2. \A s \in Small(m) : s \in Small(m + 1) /\ h[s] = f[s]
    BY <1>1
  <2>3. ASSUME NEW s \in Small(m + 1), s # {}
        PROVE  s \ {Max(s)} \in Small(m)
    <3>1. s \in SUBSET S /\ Cardinality(s) \in Nat /\ Cardinality(s) <= m + 1
      BY <1>1
    <3>2. s \ {Max(s)} \in SUBSET S /\ Cardinality(s \ {Max(s)}) = Cardinality(s) - 1
      BY <1>2, <2>3, <3>1
    <3> QED
      BY <3>1, <3>2
  <2>4. \A s \in Small(m + 1) : h[s] = Step(h, s)
    BY <2>1, <2>2, <2>3
  <2>5. h = [s \in Small(m + 1) |-> Step(h, s)]
    BY <2>4
  <2> QED
    BY <2>5
<1>5. T = {}
  <2> SUFFICES ASSUME T # {}
               PROVE  FALSE
    OBVIOUS
  <2>0. T \subseteq Nat
    OBVIOUS
  <2> HIDE DEF T
  <2>1. PICK m \in T : \A x \in T : m <= x
    BY <2>0, Least
  <2>2. m - 1 \in Nat /\ m - 1 \notin T /\ m - 1 + 1 = m
    BY <1>3, <2>0, <2>1
  <2>3. m - 1 + 1 \notin T
    BY <1>4, <2>2
  <2> QED
    BY <2>1, <2>2, <2>3
<1>6. Small(n) = SUBSET S
  BY <1>1
<1>7. \E f : f = [s \in SUBSET S |-> Step(f, s)]
  <2>1. n \notin T
    BY <1>5
  <2>2. \E f : f = [s \in Small(n) |-> Step(f, s)]
    BY <2>1
  <2> HIDE DEF Small, Step
  <2> QED
    BY <1>6, <2>2
<1> DEFINE iter == CHOOSE it : it = [s \in SUBSET S |-> Step(it, s)]
<1>8. iter = [s \in SUBSET S |-> Step(iter, s)]
  BY <1>7
<1>9. Inserted(list, pages) = iter[S]
  BY Zenon DEF Inserted, FoldLeft, MapThenFoldSet
<1> HIDE DEF iter
<1> DEFINE g == [k \in 0 .. n |-> iter[1 .. k]]
<1>10. g[0] = list
  <2>1. 1 .. 0 = {} /\ {} \in SUBSET S
    OBVIOUS
  <2> QED
    BY <1>8, <2>1
<1>11. ASSUME NEW k \in 1 .. n
       PROVE  g[k] = insert_sorted(g[k - 1], pages[k])
  <2>1. 1 .. k \in SUBSET S /\ 1 .. k # {} /\ k \in 1 .. k
    <3>1. k \in 1 .. k
      OBVIOUS
    <3> QED
      BY <3>1
  <2>2. Max(1 .. k) = k
    <3>1. Max(1 .. k) \in 1 .. k /\ k <= Max(1 .. k)
      <4>1. k \in Nat /\ 1 .. k \in SUBSET (1 .. k)
        OBVIOUS
      <4> QED
        BY <2>1, <4>1, Largest
    <3> QED
      BY <3>1
  <2>3. (1 .. k) \ {k} = 1 .. k - 1 /\ k - 1 \in 0 .. n
    OBVIOUS
  <2>4. iter[1 .. k] = insert_sorted(iter[1 .. k - 1], pages[k])
    BY <1>8, <2>1, <2>2, <2>3
  <2> QED
    BY <2>3, <2>4
<1>12. g[n] = iter[S]
  OBVIOUS
<1> HIDE DEF g
<1>13. Inserting(g, n, list, pages)
  BY <1>9, <1>10, <1>11, <1>12 DEF Inserting
<1> QED
  BY <1>13

\* A run of pages comes into a sorted list that has none of them.
LEMMA InsertAll ==
  ASSUME NEW list \in Seq(Page), Sorted(list), NEW p \in Page, NEW n \in Nat,
         p .. p + n - 1 \subseteq Page, (p .. p + n - 1) \cap Range(list) = {},
         NEW pages, pages = [i \in 1 .. n |-> p + i - 1]
  PROVE  LET new == Inserted(list, pages)
         IN  /\ new \in Seq(Page) /\ Sorted(new)
             /\ Range(new) = Range(list) \cup (p .. p + n - 1)
<1>1. p \in Nat
  BY PageSums DEF Page
<1>0. DOMAIN pages = 1 .. n
  OBVIOUS
<1>2. PICK g : Inserting(g, n, list, pages)
  BY <1>0, FoldSteps
<1> DEFINE Good(k) == /\ g[k] \in Seq(Page) /\ Sorted(g[k])
                      /\ Range(g[k]) = Range(list) \cup (p .. p + k - 1)
           T == {k \in 0 .. n : ~ Good(k)}
<1>3. Good(0)
  <2>1. p .. p + 0 - 1 = {}
    BY <1>1
  <2> QED
    BY <1>2, <2>1 DEF Inserting
<1>4. ASSUME NEW k \in 1 .. n, Good(k - 1)
      PROVE  Good(k)
  <2>1. pages[k] = p + k - 1 /\ p + k - 1 \in p .. p + n - 1
    BY <1>1
  <2>2. p + k - 1 \in Page /\ p + k - 1 \notin Range(list)
    BY <2>1
  <2>3. p + k - 1 \notin p .. p + (k - 1) - 1
    BY <1>1
  <2>4. p + k - 1 \notin Range(g[k - 1])
    BY <1>4, <2>2, <2>3
  <2>5. g[k] = insert_sorted(g[k - 1], p + k - 1)
    BY <1>2, <2>1 DEF Inserting
  <2>6. /\ g[k] \in Seq(Page) /\ Sorted(g[k])
        /\ Range(g[k]) = Range(g[k - 1]) \cup {p + k - 1}
    BY <1>4, <2>2, <2>4, <2>5, InsertSorted
  <2>7. (p .. p + (k - 1) - 1) \cup {p + k - 1} = p .. p + k - 1
    BY <1>1
  <2> QED
    BY <1>4, <2>6, <2>7
<1>5. T = {}
  <2> SUFFICES ASSUME T # {}
               PROVE  FALSE
    OBVIOUS
  <2>1. T \subseteq Nat /\ \A k \in T : k \in 0 .. n /\ ~ Good(k)
    OBVIOUS
  <2>2. \A k \in 0 .. n : k \notin T => Good(k)
    OBVIOUS
  <2> HIDE DEF T, Good
  <2>3. PICK m \in T : \A x \in T : m <= x
    BY <2>1, Least
  <2>4. m \in 1 .. n /\ m - 1 \in 0 .. n /\ m - 1 \notin T
    BY <1>3, <2>1, <2>3
  <2> QED
    BY <1>4, <2>1, <2>2, <2>3, <2>4
<1>6. Good(n)
  BY <1>5
<1> QED
  BY <1>2, <1>6 DEF Inserting

\* Pages i to i + n - 1 of a sorted list are taken out.
LEMMA CutOut ==
  ASSUME NEW list \in Seq(Page), Sorted(list), NEW n \in Nat \ {0},
         NEW i \in 1 .. Len(list) - n + 1,
         \A k \in 1 .. n - 1 : list[i + k] = list[i] + k
  PROVE  LET new == SubSeq(list, 1, i - 1) \o SubSeq(list, i + n, Len(list))
             run == list[i] .. list[i] + n - 1
         IN  /\ new \in Seq(Page) /\ Sorted(new)
             /\ run \subseteq Range(list)
             /\ Range(new) = Range(list) \ run
<1> DEFINE L == Len(list)
           a == SubSeq(list, 1, i - 1)
           c == SubSeq(list, i + n, L)
           new == a \o c
           p == list[i]
           run == p .. p + n - 1
<1>1. /\ L \in Nat /\ DOMAIN list = 1 .. L
      /\ \A j \in 1 .. L : list[j] \in Page /\ list[j] \in Nat
  BY PageList
<1>2. i \in 1 .. L /\ i + n - 1 \in 1 .. L /\ p \in Nat
  BY <1>1
<1>3. /\ a \in Seq(Page) /\ Len(a) = i - 1
      /\ \A j \in 1 .. i - 1 : a[j] = list[j]
  <2>1. i - 1 \in Int /\ \A j \in 1 .. i - 1 : list[j] \in Page /\ 1 + j - 1 = j
    BY <1>1, <1>2
  <2>2. /\ a \in Seq(Page) /\ Len(a) = IF 1 <= i - 1 THEN i - 1 - 1 + 1 ELSE 0
        /\ \A j \in 1 .. i - 1 - 1 + 1 : a[j] = list[1 + j - 1]
    BY <2>1, SubSeqProperties
  <2> HIDE DEF a
  <2> QED
    BY <1>2, <2>1, <2>2
<1>4. /\ c \in Seq(Page) /\ Len(c) = L - n - i + 1
      /\ \A j \in 1 .. L - n - i + 1 : c[j] = list[i + n + j - 1]
  <2>1. i + n \in Int /\ L \in Int /\ \A j \in i + n .. L : list[j] \in Page
    BY <1>1, <1>2
  <2>2. /\ c \in Seq(Page) /\ Len(c) = IF i + n <= L THEN L - (i + n) + 1 ELSE 0
        /\ \A j \in 1 .. L - (i + n) + 1 : c[j] = list[i + n + j - 1]
    BY <2>1, SubSeqProperties
  <2>3. L - (i + n) + 1 = L - n - i + 1 /\ (i + n > L => L - n - i + 1 = 0)
    BY <1>1, <1>2
  <2> HIDE DEF c
  <2>4. Len(c) = L - n - i + 1
    BY <1>1, <1>2, <2>2, <2>3
  <2>5. \A j \in 1 .. L - n - i + 1 : c[j] = list[i + n + j - 1]
    BY <2>2, <2>3
  <2> QED
    BY <2>2, <2>4, <2>5
<1> HIDE DEF a, c
<1>5. /\ new \in Seq(Page) /\ Len(new) = L - n /\ DOMAIN new = 1 .. L - n
      /\ \A j \in 1 .. L - n : new[j] = IF j < i THEN list[j] ELSE list[j + n]
  <2>1. /\ new \in Seq(Page)
        /\ Len(new) = Len(a) + Len(c)
        /\ \A j \in 1 .. Len(a) + Len(c) :
             new[j] = IF j <= Len(a) THEN a[j] ELSE c[j - Len(a)]
    BY <1>3, <1>4, ConcatProperties
  <2>2. Len(a) + Len(c) = L - n
    BY <1>1, <1>2, <1>3, <1>4
  <2> HIDE DEF new
  <2>3. ASSUME NEW j \in 1 .. L - n
        PROVE  new[j] = IF j < i THEN list[j] ELSE list[j + n]
    <3>1. CASE j < i
      BY <1>2, <1>3, <2>1, <2>2, <3>1
    <3>2. CASE ~ (j < i)
      <4>1. j - (i - 1) \in 1 .. L - n - i + 1 /\ i + n + (j - (i - 1)) - 1 = j + n
        BY <1>1, <1>2, <3>2
      <4>2. new[j] = c[j - (i - 1)]
        <5>1. ~ (j <= Len(a)) /\ j \in 1 .. Len(a) + Len(c) /\ Len(a) = i - 1
          BY <1>2, <1>3, <2>2, <3>2
        <5> QED
          BY <2>1, <5>1
      <4>3. c[j - (i - 1)] = list[i + n + (j - (i - 1)) - 1]
        BY <1>4, <4>1
      <4> QED
        BY <3>2, <4>1, <4>2, <4>3
    <3> QED
      BY <3>1, <3>2
  <2>4. DOMAIN new = 1 .. L - n
    BY <2>1, <2>2, LenProperties
  <2> QED
    BY <2>1, <2>2, <2>3, <2>4
<1> HIDE DEF new
<1>6. Sorted(new)
  <2> SUFFICES ASSUME NEW j \in 1 .. L - n, NEW k \in 1 .. L - n, j < k
               PROVE  new[j] < new[k]
    BY <1>5 DEF Sorted
  <2>1. \A x, y \in 1 .. L : x < y => list[x] < list[y]
    BY DEF Sorted
  <2>2. CASE k < i
    BY <1>1, <1>2, <1>5, <2>1, <2>2
  <2>3. CASE j < i /\ ~ (k < i)
    <3>1. j \in 1 .. L /\ k + n \in 1 .. L /\ j < k + n /\ new[j] = list[j] /\ new[k] = list[k + n]
      BY <1>1, <1>2, <1>5, <2>3
    <3> QED
      BY <2>1, <3>1
  <2>4. CASE ~ (j < i)
    <3>1. /\ j + n \in 1 .. L /\ k + n \in 1 .. L /\ j + n < k + n
          /\ new[j] = list[j + n] /\ new[k] = list[k + n]
      BY <1>1, <1>2, <1>5, <2>4
    <3> QED
      BY <2>1, <3>1
  <2> QED
    BY <1>1, <1>2, <2>2, <2>3, <2>4
<1>7. ASSUME NEW k \in 0 .. n - 1
      PROVE  i + k \in 1 .. L /\ list[i + k] = p + k
  <2>1. i + k \in 1 .. L
    BY <1>1, <1>2
  <2>2. CASE k = 0
    <3>1. i + k = i /\ p + k = p
      BY <1>2, <2>2
    <3> QED
      BY <2>1, <3>1
  <2>3. CASE k # 0
    BY <2>1, <2>3
  <2> QED
    BY <2>2, <2>3
<1>8. run \subseteq Range(list)
  <2> SUFFICES ASSUME NEW x \in run
               PROVE  x \in Range(list)
    OBVIOUS
  <2>1. x - p \in 0 .. n - 1 /\ p + (x - p) = x
    BY <1>2
  <2> QED
    BY <1>1, <1>7, <2>1 DEF Range
<1>9. \A j \in 1 .. L : list[j] \in run <=> j \in i .. i + n - 1
  <2> TAKE j \in 1 .. L
  <2>1. \A x, y \in 1 .. L : x < y => list[x] < list[y]
    BY DEF Sorted
  <2>2. CASE j \in i .. i + n - 1
    <3>1. j - i \in 0 .. n - 1 /\ i + (j - i) = j
      BY <1>2, <2>2
    <3>2. list[j] = p + (j - i)
      BY <1>7, <3>1
    <3> QED
      BY <1>2, <2>2, <3>1, <3>2
  <2>3. CASE j < i
    <3>1. list[j] < p
      BY <1>2, <2>1, <2>3
    <3> QED
      BY <1>1, <1>2, <2>3, <3>1
  <2>4. CASE j > i + n - 1
    <3>1. list[i + n - 1] < list[j]
      BY <1>2, <2>1, <2>4
    <3>2. n - 1 \in 0 .. n - 1 /\ i + (n - 1) = i + n - 1
      BY <1>2
    <3>3. list[i + n - 1] = p + (n - 1)
      BY <1>7, <3>2
    <3> QED
      BY <1>1, <1>2, <2>4, <3>1, <3>3
  <2> QED
    BY <1>2, <2>2, <2>3, <2>4
<1> HIDE DEF run
<1>10. Range(new) \subseteq Range(list) \ run
  <2> SUFFICES ASSUME NEW j \in 1 .. L - n
               PROVE  new[j] \in Range(list) \ run
    BY <1>5 DEF Range
  <2>1. CASE j < i
    <3>1. j \in 1 .. L /\ j \notin i .. i + n - 1 /\ new[j] = list[j]
      BY <1>1, <1>2, <1>5, <2>1
    <3> QED
      BY <1>1, <1>9, <3>1 DEF Range
  <2>2. CASE ~ (j < i)
    <3>1. j + n \in 1 .. L /\ j + n \notin i .. i + n - 1 /\ new[j] = list[j + n]
      BY <1>1, <1>2, <1>5, <2>2
    <3> QED
      BY <1>1, <1>9, <3>1 DEF Range
  <2> QED
    BY <2>1, <2>2
<1>11. Range(list) \ run \subseteq Range(new)
  <2> SUFFICES ASSUME NEW j \in 1 .. L, list[j] \notin run
               PROVE  \E k \in 1 .. L - n : new[k] = list[j]
    <3>1. \A x \in Range(list) : \E j \in 1 .. L : x = list[j]
      BY <1>1 DEF Range
    <3>2. \A k \in 1 .. L - n : new[k] \in Range(new)
      BY <1>5 DEF Range
    <3> QED
      BY <3>1, <3>2
  <2>1. CASE j < i
    <3>1. j \in 1 .. L - n /\ new[j] = list[j]
      BY <1>1, <1>2, <1>5, <2>1
    <3> QED
      BY <3>1
  <2>2. CASE ~ (j < i)
    <3>1. j \notin i .. i + n - 1
      BY <1>9
    <3>2. j - n \in 1 .. L - n /\ ~ (j - n < i) /\ j - n + n = j
      BY <1>1, <1>2, <2>2, <3>1
    <3>3. new[j - n] = list[j]
      BY <1>5, <3>2
    <3> QED
      BY <3>2, <3>3
  <2> QED
    BY <2>1, <2>2
<1> QED
  BY <1>5, <1>6, <1>8, <1>10, <1>11 DEF new, a, c, run

\* The run that alloc takes is the first of those there are.
LEMMA FirstOfRuns ==
  ASSUME NEW n \in Nat \ {0}, free_page_info \in Seq(Page), RunStarts(n) # {}
  PROVE  /\ FirstRun(n) \in 1 .. Len(free_page_info) - n + 1
         /\ \A k \in 1 .. n - 1 :
              free_page_info[FirstRun(n) + k] = free_page_info[FirstRun(n)] + k
<1>1. Len(free_page_info) \in Nat
  BY PageList
<1>2. RunStarts(n) \subseteq Nat
  BY <1>1 DEF RunStarts
<1>3. \E i \in RunStarts(n) : \A j \in RunStarts(n) : i <= j
  BY <1>2, Least
<1>4. FirstRun(n) \in RunStarts(n)
  BY <1>3 DEF FirstRun
<1> QED
  BY <1>4 DEF RunStarts

\* Pages that are all free stand in a row in the sorted list.
LEMMA RunIsFound ==
  ASSUME NEW n \in Nat \ {0}, free_page_info \in Seq(Page), Sorted(free_page_info),
         NEW p \in Page, p .. p + n - 1 \subseteq Range(free_page_info)
  PROVE  RunStarts(n) # {}
<1> DEFINE list == free_page_info
           L == Len(free_page_info)
<1>1. /\ L \in Nat /\ DOMAIN list = 1 .. L
      /\ \A j \in 1 .. L : list[j] \in Nat
  BY PageList
<1>2. p \in Nat
  BY PageSums DEF Page
<1>3. PICK i \in 1 .. L : list[i] = p
  <2>1. p \in p .. p + n - 1
    BY <1>2
  <2> QED
    BY <1>1, <2>1 DEF Range
<1> DEFINE Good(k) == i + k <= L /\ list[i + k] = p + k
           T == {k \in 0 .. n - 1 : ~ Good(k)}
<1>4. Good(0)
  BY <1>1, <1>3
<1>5. ASSUME NEW k \in 1 .. n - 1, Good(k - 1)
      PROVE  Good(k)
  <2>1. p + k \in p .. p + n - 1
    BY <1>2
  <2>2. PICK j \in 1 .. L : list[j] = p + k
    BY <1>1, <2>1 DEF Range
  <2>3. \A x, y \in 1 .. L : x < y => list[x] < list[y]
    BY DEF Sorted
  <2>4. i + (k - 1) \in 1 .. L /\ list[i + (k - 1)] = p + (k - 1)
    BY <1>1, <1>5
  <2>5. j > i + (k - 1)
    <3>1. j = i + (k - 1) => FALSE
      BY <1>2, <2>2, <2>4
    <3>2. j < i + (k - 1) => FALSE
      BY <1>1, <1>2, <2>2, <2>3, <2>4
    <3> QED
      BY <1>1, <3>1, <3>2
  <2>6. i + k \in 1 .. L /\ i + (k - 1) < i + k
    BY <1>1, <2>4, <2>5
  <2>7. p + (k - 1) < list[i + k]
    BY <2>3, <2>4, <2>6
  <2>8. j = i + k
    <3>1. i + k < j => list[i + k] < p + k
      BY <2>2, <2>3, <2>6
    <3> QED
      BY <1>1, <1>2, <2>5, <2>6, <2>7, <3>1
  <2> QED
    BY <1>1, <2>2, <2>6, <2>8
<1>6. T = {}
  <2> SUFFICES ASSUME T # {}
               PROVE  FALSE
    OBVIOUS
  <2>1. T \subseteq Nat /\ \A k \in T : k \in 0 .. n - 1 /\ ~ Good(k)
    OBVIOUS
  <2>2. \A k \in 0 .. n - 1 : k \notin T => Good(k)
    OBVIOUS
  <2> HIDE DEF T, Good
  <2>3. PICK m \in T : \A x \in T : m <= x
    BY <2>1, Least
  <2>4. m \in 1 .. n - 1 /\ m - 1 \in 0 .. n - 1 /\ m - 1 \notin T
    BY <1>4, <2>1, <2>3
  <2> QED
    BY <1>5, <2>1, <2>2, <2>3, <2>4
<1>7. \A k \in 0 .. n - 1 : Good(k)
  BY <1>6
<1>8. i + (n - 1) <= L
  <2>1. n - 1 \in 0 .. n - 1
    OBVIOUS
  <2> QED
    BY <1>7, <2>1
<1>9. i \in 1 .. L - n + 1
  BY <1>1, <1>8
<1>10. \A k \in 1 .. n - 1 : list[i + k] = list[i] + k
  BY <1>3, <1>7
<1> QED
  BY <1>9, <1>10 DEF RunStarts

-----------------------------------------------------------------------------
(***************************************************************************)
(* The invariant of McKusickAllocator, of any lists of blocks, list of     *)
(* pages and array of page_info: PagesAccounted, and what else the code    *)
(* relies on when it finds a block or a buffer again.                      *)
(***************************************************************************)
Cut(info)       == {p \in Page : info[p].size \in 1 .. MAX_BLOCK_SIZE}
Starts(info)    == {p \in Page : info[p].size > MAX_BLOCK_SIZE}
Buffer(info, p) == p .. p + get_required_pages(info[p].size) - 1
Blocks(info, p) == Range(BlocksOf(p, info[p].size))
FreeIn(lists)   == UNION {Range(lists[b]) : b \in Bucket}

BlockUse(info, p, a) == [ptr |-> a, size |-> info[p].size]
BufferUse(info, p) ==
  [ptr |-> page_addr(p), size |-> Cardinality(Buffer(info, p)) * PAGE_SIZE]

InUseIn(lists, info) ==
  (UNION {{BlockUse(info, p, a) : a \in Blocks(info, p) \ FreeIn(lists)} :
          p \in Cut(info)})
  \cup {BufferUse(info, p) : p \in Starts(info)}

PageTypes(lists, pages, info) ==
  /\ lists \in [Bucket -> Seq(Nat \ {Null})]
  /\ pages \in Seq(Page)
  /\ info \in [Page -> PageInfo]

PagesKnown(pages, info) ==
  /\ Sorted(pages)
  /\ \A p \in Cut(info) : \E b \in Bucket : info[p].size = BlockSize(b)
  /\ \A p \in Starts(info) :
       info[p].is_start_of_buffer /\ Buffer(info, p) \subseteq Page

PagesApart(pages, info) ==
  /\ \A p \in Page : \/ p \in Cut(info) \/ p \in Range(pages)
                     \/ \E q \in Starts(info) : p \in Buffer(info, q)
  /\ Cut(info) \cap Range(pages) = {}
  /\ \A q \in Starts(info) : /\ Buffer(info, q) \cap Cut(info) = {}
                             /\ Buffer(info, q) \cap Range(pages) = {}
  /\ \A q, r \in Starts(info) :
       q # r => Buffer(info, q) \cap Buffer(info, r) = {}

BlocksListed(lists, info) ==
  \A b \in Bucket :
    /\ IsInjective(lists[b])
    /\ \A a \in Range(lists[b]) :
         \E p \in Cut(info) : info[p].size = BlockSize(b) /\ a \in Blocks(info, p)

WellPaged(lists, pages, info) ==
  /\ PageTypes(lists, pages, info) /\ PagesKnown(pages, info)
  /\ PagesApart(pages, info) /\ BlocksListed(lists, info)

\* What is in use.
LEMMA UsedWhere ==
  ASSUME NEW lists, NEW info, NEW u
  PROVE  u \in InUseIn(lists, info) <=>
           \/ \E p \in Cut(info) : \E a \in Blocks(info, p) :
                a \notin FreeIn(lists) /\ u = BlockUse(info, p, a)
           \/ \E p \in Starts(info) : u = BufferUse(info, p)
<1> DEFINE Of(p) == {BlockUse(info, p, a) : a \in Blocks(info, p) \ FreeIn(lists)}
           X == UNION {Of(p) : p \in Cut(info)}
           Y == {BufferUse(info, p) : p \in Starts(info)}
<1>1. InUseIn(lists, info) = X \cup Y
  BY DEF InUseIn
<1>2. \A p : u \in Of(p) <=>
        \E a \in Blocks(info, p) : a \notin FreeIn(lists) /\ u = BlockUse(info, p, a)
  OBVIOUS
<1>3. u \in Y <=> \E p \in Starts(info) : u = BufferUse(info, p)
  OBVIOUS
<1> HIDE DEF Of
<1>4. u \in X <=> \E p \in Cut(info) : u \in Of(p)
  OBVIOUS
<1> HIDE DEF X, Y
<1> QED
  BY <1>1, <1>2, <1>3, <1>4

\* What is known of a cut page, of its blocks, and of a buffer.
LEMMA CutPage ==
  ASSUME NEW lists, NEW pages, NEW info, WellPaged(lists, pages, info),
         NEW p \in Cut(info)
  PROVE  /\ p \in Page
         /\ \E b \in Bucket :
              /\ info[p].size = BlockSize(b) /\ get_bucket_index(info[p].size) = b
              /\ Blocks(info, p) = Range(BlocksOf(p, BlockSize(b)))
BY BucketOfBlock DEF Cut, WellPaged, PagesKnown, Blocks

\* A block of it.
LEMMA CutBlock ==
  ASSUME NEW lists, NEW pages, NEW info, WellPaged(lists, pages, info),
         NEW p \in Cut(info), NEW a \in Blocks(info, p)
  PROVE  /\ a \in Nat \ {Null} /\ a % 8 = 0
         /\ info[p].size \in Nat \ {0}
         /\ page_addr(p) <= a /\ a + info[p].size <= page_addr(p) + PAGE_SIZE
         /\ find_page_info(a) = p
         /\ \A c \in Blocks(info, p) :
              a = c \/ a + info[p].size <= c \/ c + info[p].size <= a
<1>1. PICK b \in Bucket : /\ p \in Page /\ info[p].size = BlockSize(b)
                          /\ Blocks(info, p) = Range(BlocksOf(p, BlockSize(b)))
  BY CutPage
<1> DEFINE s == BlockSize(b)
           n == PAGE_SIZE \div s
           B == BlocksOf(p, s)
<1>2. /\ n \in Nat \ {0}
      /\ B \in Seq(Nat \ {Null}) /\ Len(B) = n /\ B[1] = page_addr(p)
      /\ \A i \in 1 .. n :
           /\ B[i] % 8 = 0
           /\ page_addr(p) <= B[i]
           /\ B[i] + s <= page_addr(p) + PAGE_SIZE
           /\ find_page_info(B[i]) = p
      /\ \A i, j \in 1 .. n : i < j => B[i] + s <= B[j]
  BY <1>1, BlockPlaces
<1> HIDE DEF s, n, B
<1>3. DOMAIN B = 1 .. n /\ \A i \in 1 .. n : B[i] \in Nat \ {Null}
  BY <1>2, LenProperties, ElementOfSeq
<1>4. \A c \in Blocks(info, p) : \E i \in 1 .. n : c = B[i]
  BY <1>1, <1>3 DEF Range, B, s
<1>5. PICK i \in 1 .. n : a = B[i]
  BY <1>4
<1>6. ASSUME NEW c \in Blocks(info, p)
      PROVE  a = c \/ a + s <= c \/ c + s <= a
  <2>1. PICK j \in 1 .. n : c = B[j]
    BY <1>4
  <2>2. i = j \/ i < j \/ j < i
    BY <1>2
  <2> QED
    BY <1>2, <1>5, <2>1, <2>2
<1>7. s \in Nat \ {0} /\ info[p].size = s
  BY <1>1, BucketSizes DEF s
<1> QED
  BY <1>2, <1>3, <1>5, <1>6, <1>7

\* A buffer.
LEMMA BufferPlaces ==
  ASSUME NEW lists, NEW pages, NEW info, WellPaged(lists, pages, info),
         NEW p \in Starts(info)
  PROVE  LET n == get_required_pages(info[p].size)
         IN  /\ p \in Page /\ p \in Nat /\ n \in Nat \ {0}
             /\ info[p].size \in Nat \ {0}
             /\ Buffer(info, p) = p .. p + n - 1
             /\ p \in Buffer(info, p) /\ p + n - 1 \in Page
             /\ Cardinality(Buffer(info, p)) = n
             /\ n * PAGE_SIZE \in Nat \ {0}
             /\ page_addr(p) + n * PAGE_SIZE = page_addr(p + n - 1) + PAGE_SIZE
<1> DEFINE n == get_required_pages(info[p].size)
<1>1. p \in Page /\ info[p].size \in Nat \ {0}
  <2>1. p \in Page /\ info[p].size \in Nat /\ info[p].size > PAGE_SIZE
    BY McKusickAssumption DEF Starts, WellPaged, PageTypes, PageInfo
  <2> QED
    BY <2>1, MemoryAssumption
<1>2. n \in Nat \ {0}
  BY <1>1, RequiredPages
<1>3. p \in Nat
  BY <1>1, PageSums DEF Page
<1>4. Buffer(info, p) = p .. p + n - 1
  BY DEF Buffer
<1> HIDE DEF n
<1>5. p \in Buffer(info, p) /\ p + n - 1 \in Page
  <2>1. Buffer(info, p) \subseteq Page
    BY DEF WellPaged, PagesKnown
  <2>2. p + n - 1 \in p .. p + n - 1 /\ p \in p .. p + n - 1
    BY <1>2, <1>3
  <2> QED
    BY <1>4, <2>1, <2>2
<1>6. Cardinality(Buffer(info, p)) = n
  <2>1. Cardinality(p .. p + n - 1)
          = IF p > p + n - 1 THEN 0 ELSE p + n - 1 - p + 1
    BY <1>2, <1>3, FS_Interval
  <2> QED
    BY <1>2, <1>3, <1>4, <2>1
<1>7. PAGE_SIZE \in Nat \ {0} /\ initial_memory \in Nat
  BY MemoryAssumption, PageSums
<1>8. n * PAGE_SIZE \in Nat \ {0}
  BY <1>2, <1>7
<1>9. (p + n - 1) * PAGE_SIZE + PAGE_SIZE = p * PAGE_SIZE + n * PAGE_SIZE
  BY <1>2, <1>3, <1>7
<1>10. page_addr(p) + n * PAGE_SIZE = page_addr(p + n - 1) + PAGE_SIZE
  <2>1. p * PAGE_SIZE \in Int /\ (p + n - 1) * PAGE_SIZE \in Int
    BY <1>2, <1>3, <1>7
  <2> QED
    BY <1>7, <1>8, <1>9, <2>1 DEF page_addr
<1> QED
  BY <1>1, <1>2, <1>3, <1>4, <1>5, <1>6, <1>8, <1>10 DEF n

\* A block of one page is no block of another one.
LEMMA BlockOfOnePage ==
  ASSUME NEW lists, NEW pages, NEW info, WellPaged(lists, pages, info),
         NEW p \in Cut(info), NEW q \in Cut(info),
         NEW a \in Blocks(info, p), a \in Blocks(info, q)
  PROVE  p = q
BY CutBlock

\* No two buckets have blocks of the same size.
LEMMA BlockSizeOnce ==
  ASSUME NEW b \in Bucket, NEW c \in Bucket, BlockSize(b) = BlockSize(c)
  PROVE  b = c
BY BucketOfBlock

\* A free block is in the list of the size of its page.
LEMMA FreeBlockWhere ==
  ASSUME NEW lists, NEW pages, NEW info, WellPaged(lists, pages, info),
         NEW b \in Bucket, NEW a \in Range(lists[b])
  PROVE  /\ \E p \in Cut(info) : info[p].size = BlockSize(b) /\ a \in Blocks(info, p)
         /\ \A c \in Bucket : a \in Range(lists[c]) => c = b
<1>1. PICK p \in Cut(info) : info[p].size = BlockSize(b) /\ a \in Blocks(info, p)
  BY DEF WellPaged, BlocksListed
<1>2. ASSUME NEW c \in Bucket, a \in Range(lists[c])
      PROVE  c = b
  <2>1. PICK q \in Cut(info) : info[q].size = BlockSize(c) /\ a \in Blocks(info, q)
    BY <1>2 DEF WellPaged, BlocksListed
  <2> QED
    BY <1>1, <2>1, BlockOfOnePage, BlockSizeOnce
<1> QED
  BY <1>1, <1>2

\* Every block in use lies in pages of its own, and aligned.
LEMMA UsedHome ==
  ASSUME NEW lists, NEW pages, NEW info, WellPaged(lists, pages, info),
         NEW u \in InUseIn(lists, info)
  PROVE  /\ u.ptr \in Nat \ {Null} /\ u.size \in Nat \ {0} /\ u.ptr % 8 = 0
         /\ \E lo, hi \in Page : /\ page_addr(lo) <= u.ptr
                                 /\ u.ptr + u.size <= page_addr(hi) + PAGE_SIZE
<1>1. ASSUME NEW p \in Cut(info), NEW a \in Blocks(info, p), u = BlockUse(info, p, a)
      PROVE  /\ u.ptr \in Nat \ {Null} /\ u.size \in Nat \ {0} /\ u.ptr % 8 = 0
             /\ page_addr(p) <= u.ptr /\ u.ptr + u.size <= page_addr(p) + PAGE_SIZE
             /\ p \in Page
  BY <1>1, CutBlock, CutPage DEF BlockUse
<1>2. ASSUME NEW p \in Starts(info), u = BufferUse(info, p)
      PROVE  /\ u.ptr \in Nat \ {Null} /\ u.size \in Nat \ {0} /\ u.ptr % 8 = 0
             /\ p \in Page
             /\ \E hi \in Page : /\ page_addr(p) <= u.ptr
                                 /\ u.ptr + u.size <= page_addr(hi) + PAGE_SIZE
  <2> DEFINE n == get_required_pages(info[p].size)
  <2>1. /\ p \in Page /\ p + n - 1 \in Page
        /\ Cardinality(Buffer(info, p)) = n
        /\ n * PAGE_SIZE \in Nat \ {0}
        /\ page_addr(p) + n * PAGE_SIZE = page_addr(p + n - 1) + PAGE_SIZE
    BY BufferPlaces
  <2> HIDE DEF n
  <2>2. u.ptr = page_addr(p) /\ u.size = n * PAGE_SIZE
    BY <1>2, <2>1 DEF BufferUse
  <2>3. page_addr(p) \in Nat \ {Null} /\ page_addr(p) % 8 = 0
    BY <2>1, PagePlaces
  <2>4. page_addr(p) <= u.ptr /\ u.ptr + u.size <= page_addr(p + n - 1) + PAGE_SIZE
    <3>1. \A q \in Page : page_addr(q) + PAGE_SIZE \in Nat
      <4> TAKE q \in Page
      <4>1. page_addr(q) \in Nat
        BY PagePlaces
      <4> QED
        BY <4>1, MemoryAssumption
    <3> QED
      BY <2>1, <2>2, <2>3, <3>1
  <2> QED
    BY <2>1, <2>2, <2>3, <2>4
<1>3. \/ \E p \in Cut(info) : \E a \in Blocks(info, p) : u = BlockUse(info, p, a)
      \/ \E p \in Starts(info) : u = BufferUse(info, p)
  BY UsedWhere
<1> QED
  BY <1>1, <1>2, <1>3

\* A page lies before those with larger numbers.
LEMMA PagesInOrder ==
  ASSUME NEW p \in Page, NEW q \in Page, p < q
  PROVE  /\ page_addr(p) \in Nat /\ page_addr(q) \in Nat /\ PAGE_SIZE \in Nat
         /\ page_addr(p) + PAGE_SIZE <= page_addr(q)
<1>1. page_addr(p) \in Nat /\ page_addr(q) \in Nat /\ PAGE_SIZE \in Nat
  BY PagePlaces, MemoryAssumption
<1>2. page_addr(p) + PAGE_SIZE <= page_addr(q)
  BY PagePlaces
<1> QED
  BY <1>1, <1>2

\* A block of a cut page is in no buffer, two buffers share no page, and two
\* blocks of a page share no byte.
LEMMA UsedApart ==
  ASSUME NEW lists, NEW pages, NEW info, WellPaged(lists, pages, info),
         NEW u \in InUseIn(lists, info), NEW v \in InUseIn(lists, info), u # v
  PROVE  u.ptr + u.size <= v.ptr \/ v.ptr + v.size <= u.ptr
<1>1. ASSUME NEW p \in Cut(info), NEW a \in Blocks(info, p), u = BlockUse(info, p, a),
             NEW q \in Cut(info), NEW c \in Blocks(info, q), v = BlockUse(info, q, c)
      PROVE  u.ptr + u.size <= v.ptr \/ v.ptr + v.size <= u.ptr
  <2>1. /\ u.ptr = a /\ u.size = info[p].size /\ v.ptr = c /\ v.size = info[q].size
    BY <1>1 DEF BlockUse
  <2>2. /\ a \in Nat /\ info[p].size \in Nat /\ c \in Nat /\ info[q].size \in Nat
        /\ page_addr(p) <= a /\ a + info[p].size <= page_addr(p) + PAGE_SIZE
        /\ page_addr(q) <= c /\ c + info[q].size <= page_addr(q) + PAGE_SIZE
    BY CutBlock
  <2>3. p \in Page /\ q \in Page /\ (p = q \/ p < q \/ q < p)
    BY CutPage, PageSums DEF Page
  <2>4. CASE p = q
    <3>1. a # c
      BY <1>1, <2>4
    <3> QED
      BY <2>1, <2>4, <3>1, CutBlock
  <2>5. CASE p < q
    BY <2>1, <2>2, <2>3, <2>5, PagesInOrder
  <2>6. CASE q < p
    BY <2>1, <2>2, <2>3, <2>6, PagesInOrder
  <2> QED
    BY <2>3, <2>4, <2>5, <2>6
<1>2. ASSUME NEW p \in Cut(info), NEW a \in Blocks(info, p), NEW q \in Starts(info)
      PROVE  LET x == BlockUse(info, p, a)
                 y == BufferUse(info, q)
             IN  x.ptr + x.size <= y.ptr \/ y.ptr + y.size <= x.ptr
  <2> DEFINE n == get_required_pages(info[q].size)
             x == BlockUse(info, p, a)
             y == BufferUse(info, q)
  <2>1. /\ q \in Page /\ q \in Nat /\ n \in Nat \ {0}
        /\ Buffer(info, q) = q .. q + n - 1
        /\ q + n - 1 \in Page
        /\ Cardinality(Buffer(info, q)) = n
        /\ n * PAGE_SIZE \in Nat \ {0}
        /\ page_addr(q) + n * PAGE_SIZE = page_addr(q + n - 1) + PAGE_SIZE
    BY BufferPlaces
  <2> HIDE DEF n
  <2>2. /\ x.ptr = a /\ x.size = info[p].size
        /\ y.ptr = page_addr(q) /\ y.size = n * PAGE_SIZE
    BY <2>1 DEF BlockUse, BufferUse
  <2> HIDE DEF x, y
  <2>3. /\ a \in Nat /\ info[p].size \in Nat
        /\ page_addr(p) <= a /\ a + info[p].size <= page_addr(p) + PAGE_SIZE
    BY CutBlock
  <2>4. p \in Page /\ p \in Nat
    BY CutPage, PageSums DEF Page
  <2>5. p \notin q .. q + n - 1
    BY <2>1 DEF WellPaged, PagesApart
  <2>6. p < q \/ q + n - 1 < p
    BY <2>1, <2>4, <2>5
  <2>7. ASSUME p < q
        PROVE  x.ptr + x.size <= y.ptr
    BY <2>1, <2>2, <2>3, <2>4, <2>7, PagesInOrder
  <2>8. ASSUME q + n - 1 < p
        PROVE  y.ptr + y.size <= x.ptr
    <3> DEFINE e == q + n - 1
    <3>1. /\ page_addr(e) \in Nat /\ page_addr(p) \in Nat /\ PAGE_SIZE \in Nat
          /\ page_addr(e) + PAGE_SIZE <= page_addr(p)
      BY <2>1, <2>4, <2>8, PagesInOrder
    <3>2. y.ptr + y.size = page_addr(e) + PAGE_SIZE
      BY <2>1, <2>2
    <3> HIDE DEF e
    <3> QED
      BY <2>2, <2>3, <3>1, <3>2
  <2> QED
    BY <2>6, <2>7, <2>8 DEF x, y
<1>3. ASSUME NEW p \in Starts(info), NEW q \in Starts(info), p < q
      PROVE  LET x == BufferUse(info, p)
                 y == BufferUse(info, q)
             IN  x.ptr + x.size <= y.ptr
  <2> DEFINE n == get_required_pages(info[p].size)
             e == p + n - 1
             x == BufferUse(info, p)
             y == BufferUse(info, q)
  <2>1. /\ p \in Nat /\ n \in Nat \ {0}
        /\ Buffer(info, p) = p .. p + n - 1
        /\ e \in Page
        /\ Cardinality(Buffer(info, p)) = n
        /\ page_addr(p) + n * PAGE_SIZE = page_addr(e) + PAGE_SIZE
    BY BufferPlaces
  <2>2. q \in Page /\ q \in Nat /\ q \in Buffer(info, q)
    BY BufferPlaces
  <2>3. Buffer(info, p) \cap Buffer(info, q) = {}
    BY <1>3, <2>1, <2>2 DEF WellPaged, PagesApart
  <2> HIDE DEF n
  <2>4. e < q
    BY <1>3, <2>1, <2>2, <2>3
  <2> HIDE DEF e
  <2>5. page_addr(e) + PAGE_SIZE <= page_addr(q)
    BY <2>1, <2>2, <2>4, PagesInOrder
  <2>6. x.ptr = page_addr(p) /\ x.size = n * PAGE_SIZE /\ y.ptr = page_addr(q)
    BY <2>1 DEF BufferUse
  <2> QED
    BY <2>1, <2>5, <2>6
<1>4. \A w \in InUseIn(lists, info) :
        \/ \E p \in Cut(info) : \E a \in Blocks(info, p) : w = BlockUse(info, p, a)
        \/ \E p \in Starts(info) : w = BufferUse(info, p)
  BY UsedWhere
<1>5. ASSUME NEW p \in Starts(info), u = BufferUse(info, p),
             NEW q \in Starts(info), v = BufferUse(info, q)
      PROVE  u.ptr + u.size <= v.ptr \/ v.ptr + v.size <= u.ptr
  <2>1. p # q
    BY <1>5
  <2>2. p < q \/ q < p
    <3>1. p \in Nat /\ q \in Nat
      BY BufferPlaces
    <3> QED
      BY <2>1, <3>1
  <2> QED
    BY <1>3, <1>5, <2>2
<1>6. CASE \E p \in Cut(info) : \E a \in Blocks(info, p) : u = BlockUse(info, p, a)
  BY <1>1, <1>2, <1>4, <1>6
<1>7. CASE \E p \in Starts(info) : u = BufferUse(info, p)
  BY <1>2, <1>4, <1>5, <1>7
<1> QED
  BY <1>4, <1>6, <1>7

\* Pointers name what is in use.
LEMMA UsedOnce ==
  ASSUME NEW lists, NEW pages, NEW info, WellPaged(lists, pages, info),
         NEW u \in InUseIn(lists, info), NEW v \in InUseIn(lists, info), u.ptr = v.ptr
  PROVE  u = v
<1>1. u.ptr \in Nat /\ u.size \in Nat \ {0} /\ v.ptr \in Nat /\ v.size \in Nat \ {0}
  BY UsedHome
<1> QED
  BY <1>1, UsedApart

\* A new allocator: all pages are free.
LEMMA FreshPaged ==
  /\ WellPaged(FreshLists, FreshPages, FreshPageInfo)
  /\ InUseIn(FreshLists, FreshPageInfo) = {}
<1>1. PageCount \in Nat \ {0} /\ Page = 0 .. PageCount - 1
  BY PageSums DEF Page
<1>2. /\ Cut(FreshPageInfo) = {} /\ Starts(FreshPageInfo) = {}
  <2>1. MAX_BLOCK_SIZE \in Nat
    BY McKusickAssumption, MemoryAssumption
  <2> QED
    BY <2>1 DEF Cut, Starts, FreshPageInfo
<1>3. FreshPages \in Seq(Page) /\ Len(FreshPages) = PageCount
      /\ \A i \in 1 .. PageCount : FreshPages[i] = i - 1
  BY <1>1 DEF FreshPages
<1>4. Sorted(FreshPages)
  BY <1>1, <1>3 DEF Sorted
<1>5. Range(FreshPages) = Page
  <2>1. DOMAIN FreshPages = 1 .. PageCount
    BY <1>1 DEF FreshPages
  <2>2. \A p \in Page : p + 1 \in 1 .. PageCount /\ FreshPages[p + 1] = p
    BY <1>1, <1>3
  <2>3. \A i \in 1 .. PageCount : FreshPages[i] \in Page
    BY <1>1, <1>3
  <2> QED
    BY <2>1, <2>2, <2>3 DEF Range
<1>6. PageTypes(FreshLists, FreshPages, FreshPageInfo)
  <2>1. FreshLists \in [Bucket -> Seq(Nat \ {Null})]
    BY DEF FreshLists
  <2>2. FreshPageInfo \in [Page -> PageInfo]
    BY DEF FreshPageInfo, PageInfo
  <2> QED
    BY <1>3, <2>1, <2>2 DEF PageTypes
<1>7. BlocksListed(FreshLists, FreshPageInfo)
  BY DEF BlocksListed, FreshLists, IsInjective, Range
<1>8. InUseIn(FreshLists, FreshPageInfo) = {}
  BY <1>2, UsedWhere
<1> QED
  BY <1>2, <1>4, <1>5, <1>6, <1>7, <1>8 DEF WellPaged, PagesKnown, PagesApart

-----------------------------------------------------------------------------
(***************************************************************************)
(* What alloc and free do to the lists of blocks and of pages, each on any *)
(* that are WellPaged.                                                     *)
(***************************************************************************)

\* No page is both cut and the start of a buffer.
LEMMA CutOrStart ==
  ASSUME NEW info, NEW p \in Cut(info)
  PROVE  p \notin Starts(info)
<1>1. MAX_BLOCK_SIZE \in Nat
  BY McKusickAssumption, MemoryAssumption
<1> QED
  BY <1>1 DEF Cut, Starts

\* A buffer is found again from the address of its first page.
LEMMA FirstByteOf ==
  ASSUME NEW p \in Page
  PROVE  find_page_info(page_addr(p)) = p
<1>1. 0 \in 0 .. PAGE_SIZE - 1 /\ page_addr(p) \in Nat
  BY MemoryAssumption, PagePlaces
<1>2. find_page_info(page_addr(p) + 0) = p
  BY <1>1, PagePlaces
<1>3. page_addr(p) + 0 = page_addr(p)
  BY <1>1
<1> QED
  BY <1>2, <1>3

\* Of the free blocks in lists only a is not free in new.
OneLess(new, lists, a) ==
  a \in FreeIn(lists) /\ FreeIn(new) = FreeIn(lists) \ {a}

\* A block leaves the lists: it is in use now, and nothing else changes.
LEMMA OneMoreBlock ==
  ASSUME NEW lists, NEW pages, NEW info, WellPaged(lists, pages, info), NEW new,
         NEW p \in Cut(info), NEW a \in Blocks(info, p), OneLess(new, lists, a)
  PROVE  /\ BlockUse(info, p, a) \notin InUseIn(lists, info)
         /\ InUseIn(new, info) = InUseIn(lists, info) \cup {BlockUse(info, p, a)}
<1> DEFINE u == BlockUse(info, p, a)
<1>0. a \in FreeIn(lists) /\ FreeIn(new) = FreeIn(lists) \ {a}
  BY DEF OneLess
<1>1. \A q \in Cut(info) : \A c \in Blocks(info, q) : BlockUse(info, q, c).ptr = c
  BY DEF BlockUse
<1>2. \A q \in Cut(info) : a \in Blocks(info, q) => q = p
  BY BlockOfOnePage
<1>3. \A q \in Starts(info) : u # BufferUse(info, q)
  <2> SUFFICES ASSUME NEW q \in Starts(info), u = BufferUse(info, q)
               PROVE  FALSE
    OBVIOUS
  <2>1. a = page_addr(q)
    BY <1>1 DEF BlockUse, BufferUse
  <2>2. find_page_info(a) = p /\ q \in Page
    BY CutBlock DEF Starts
  <2> QED
    BY <2>1, <2>2, FirstByteOf, CutOrStart
<1>4. u \notin InUseIn(lists, info)
  BY <1>0, <1>1, <1>3, UsedWhere
<1>5. \A w : w \in InUseIn(new, info) <=> w \in InUseIn(lists, info) \/ w = u
  BY <1>0, <1>2, UsedWhere
<1> QED
  BY <1>4, <1>5

\* The first block of bucket b is taken.
TakenFirst(new, lists, b) == lists[b] # <<>> /\ new = [lists EXCEPT ![b] = Tail(@)]

LEMMA TakeWell ==
  ASSUME NEW lists, NEW pages, NEW info, WellPaged(lists, pages, info),
         NEW b \in Bucket, NEW new, TakenFirst(new, lists, b)
  PROVE  /\ WellPaged(new, pages, info)
         /\ Len(new[b]) = Len(lists[b]) - 1
         /\ \E u : /\ u \notin InUseIn(lists, info)
                   /\ InUseIn(new, info) = InUseIn(lists, info) \cup {u}
                   /\ u.ptr = Head(lists[b]) /\ u.size = BlockSize(b)
<1> USE DEF TakenFirst
<1> DEFINE L == lists[b]
           a == Head(L)
<1>1. lists \in [Bucket -> Seq(Nat \ {Null})] /\ L \in Seq(Nat \ {Null})
  BY DEF WellPaged, PageTypes
<1>2. /\ Tail(L) \in Seq(Nat \ {Null}) /\ Len(Tail(L)) = Len(L) - 1
      /\ \A i \in 1 .. Len(L) - 1 : Tail(L)[i] = L[i + 1]
      /\ Len(L) \in Nat \ {0} /\ DOMAIN L = 1 .. Len(L)
      /\ DOMAIN Tail(L) = 1 .. Len(L) - 1
  BY <1>1, HeadTailProperties, EmptySeq, LenProperties
<1>3. new[b] = Tail(L) /\ \A c \in Bucket : c # b => new[c] = lists[c]
  BY <1>1
<1>4. a = L[1] /\ a \in Range(L)
  <2>1. a = L[1] /\ 1 \in DOMAIN L
    BY <1>1, <1>2
  <2> QED
    BY <2>1 DEF Range
<1>5. IsInjective(L)
  BY DEF WellPaged, BlocksListed
<1>6. Range(Tail(L)) = Range(L) \ {a}
  <2>1. \A i \in 1 .. Len(L) - 1 : i + 1 \in 1 .. Len(L) /\ Tail(L)[i] # a
    BY <1>2, <1>4, <1>5 DEF IsInjective
  <2>2. \A i \in 1 .. Len(L) - 1 : Tail(L)[i] \in Range(L) \ {a}
    BY <1>2, <2>1 DEF Range
  <2>3. \A i \in 1 .. Len(L) : i # 1 => i - 1 \in 1 .. Len(L) - 1 /\ Tail(L)[i - 1] = L[i]
    BY <1>2
  <2>4. \A i \in 1 .. Len(L) : L[i] # a => L[i] \in Range(Tail(L))
    BY <1>2, <1>4, <2>3 DEF Range
  <2> QED
    BY <1>2, <2>2, <2>4 DEF Range
<1>7. IsInjective(Tail(L))
  <2> SUFFICES ASSUME NEW i \in 1 .. Len(L) - 1, NEW j \in 1 .. Len(L) - 1,
                      Tail(L)[i] = Tail(L)[j]
               PROVE  i = j
    BY <1>2 DEF IsInjective
  <2>1. i + 1 \in 1 .. Len(L) /\ j + 1 \in 1 .. Len(L) /\ L[i + 1] = L[j + 1]
    BY <1>2
  <2>2. i + 1 = j + 1
    BY <1>2, <1>5, <2>1 DEF IsInjective
  <2> QED
    BY <2>2
<1> HIDE DEF a, L
<1>8. PICK p \in Cut(info) : info[p].size = BlockSize(b) /\ a \in Blocks(info, p)
  BY <1>4, FreeBlockWhere DEF L
<1>9. FreeIn(new) = FreeIn(lists) \ {a} /\ a \in FreeIn(lists)
  <2>1. \A c \in Bucket : c # b => a \notin Range(lists[c])
    BY <1>4, FreeBlockWhere DEF L
  <2> QED
    BY <1>3, <1>4, <1>6, <2>1 DEF FreeIn, L
<1>10. BlocksListed(new, info)
  BY <1>3, <1>6, <1>7 DEF BlocksListed, L, WellPaged
<1>11. new \in [Bucket -> Seq(Nat \ {Null})]
  BY <1>1, <1>2 DEF L
<1>12. WellPaged(new, pages, info)
  BY <1>10, <1>11 DEF WellPaged, PageTypes
<1>13. /\ BlockUse(info, p, a) \notin InUseIn(lists, info)
       /\ InUseIn(new, info) = InUseIn(lists, info) \cup {BlockUse(info, p, a)}
  <2>1. OneLess(new, lists, a)
    BY <1>9 DEF OneLess
  <2> QED
    BY <1>8, <2>1, OneMoreBlock
<1>14. BlockUse(info, p, a).ptr = a /\ BlockUse(info, p, a).size = BlockSize(b)
  BY <1>8 DEF BlockUse
<1> QED
  BY <1>2, <1>3, <1>12, <1>13, <1>14 DEF a, L

\* The block a of page p comes back into the list of bucket b.
Pushed(new, lists, info, p, a, b) ==
  /\ p \in Cut(info) /\ a \in Blocks(info, p) /\ a \notin FreeIn(lists)
  /\ info[p].size = BlockSize(b)
  /\ new = [lists EXCEPT ![b] = <<a>> \o @]

LEMMA PushWell ==
  ASSUME NEW lists, NEW pages, NEW info, WellPaged(lists, pages, info),
         NEW b \in Bucket, NEW p, NEW a, NEW new, Pushed(new, lists, info, p, a, b)
  PROVE  /\ WellPaged(new, pages, info)
         /\ Len(new[b]) = Len(lists[b]) + 1
         /\ BlockUse(info, p, a) \in InUseIn(lists, info)
         /\ InUseIn(new, info) = InUseIn(lists, info) \ {BlockUse(info, p, a)}
<1> USE DEF Pushed
<1> DEFINE L == lists[b]
           M == <<a>> \o L
<1>1. lists \in [Bucket -> Seq(Nat \ {Null})] /\ L \in Seq(Nat \ {Null})
  BY DEF WellPaged, PageTypes
<1>2. a \in Nat \ {Null}
  BY CutBlock
<1>3. <<a>> \in Seq(Nat \ {Null}) /\ Len(<<a>>) = 1 /\ <<a>>[1] = a
  BY <1>2
<1>4. /\ M \in Seq(Nat \ {Null}) /\ Len(M) = 1 + Len(L)
      /\ \A i \in 1 .. 1 + Len(L) : M[i] = IF i <= 1 THEN <<a>>[i] ELSE L[i - 1]
  BY <1>1, <1>3, ConcatProperties
<1>5. /\ Len(L) \in Nat /\ DOMAIN L = 1 .. Len(L) /\ DOMAIN M = 1 .. 1 + Len(L)
  BY <1>1, <1>4, LenProperties
<1> HIDE DEF M
<1>6. M[1] = a /\ \A i \in 1 .. Len(L) : M[i + 1] = L[i]
  BY <1>3, <1>4, <1>5
<1>7. Range(M) = Range(L) \cup {a}
  <2>1. \A i \in 1 .. 1 + Len(L) : i = 1 \/ (i - 1 \in 1 .. Len(L) /\ M[i] = L[i - 1])
    BY <1>4, <1>5
  <2>2. \A i \in 1 .. 1 + Len(L) : M[i] \in Range(L) \cup {a}
    BY <1>5, <1>6, <2>1 DEF Range
  <2>3. \A i \in 1 .. Len(L) : i + 1 \in 1 .. 1 + Len(L)
    BY <1>5
  <2>4. \A i \in 1 .. Len(L) : L[i] \in Range(M)
    BY <1>5, <1>6, <2>3 DEF Range
  <2>5. 1 \in 1 .. 1 + Len(L)
    BY <1>5
  <2>6. a \in Range(M)
    BY <1>5, <1>6, <2>5 DEF Range
  <2>7. Range(M) \subseteq Range(L) \cup {a}
    BY <1>5, <2>2 DEF Range
  <2>8. Range(L) \subseteq Range(M)
    BY <1>5, <2>4 DEF Range
  <2> QED
    BY <2>6, <2>7, <2>8
<1>8. new[b] = M /\ \A c \in Bucket : c # b => new[c] = lists[c]
  BY <1>1 DEF M
<1>9. a \notin Range(L)
  BY DEF FreeIn
<1>10. IsInjective(M)
  <2>1. IsInjective(L)
    BY DEF WellPaged, BlocksListed
  <2>2. \A i \in 1 .. Len(L) : L[i] # a
    BY <1>5, <1>9 DEF Range
  <2>3. \A i \in 1 .. 1 + Len(L) : i = 1 \/ (i - 1 \in 1 .. Len(L) /\ M[i] = L[i - 1])
    BY <1>4, <1>5
  <2>4. ASSUME NEW i \in 1 .. 1 + Len(L), NEW j \in 1 .. 1 + Len(L), M[i] = M[j]
        PROVE  i = j
    <3>1. CASE i = 1
      BY <1>6, <2>2, <2>3, <2>4, <3>1
    <3>2. CASE j = 1
      BY <1>6, <2>2, <2>3, <2>4, <3>2
    <3>3. CASE i # 1 /\ j # 1
      <4>1. i - 1 = j - 1
        BY <1>5, <2>1, <2>3, <2>4, <3>3 DEF IsInjective
      <4> QED
        BY <4>1, <1>5
    <3> QED
      BY <3>1, <3>2, <3>3
  <2> QED
    BY <1>5, <2>4 DEF IsInjective
<1>11. BlocksListed(new, info)
  <2> SUFFICES ASSUME NEW c \in Bucket
               PROVE  /\ IsInjective(new[c])
                      /\ \A x \in Range(new[c]) :
                           \E q \in Cut(info) : /\ info[q].size = BlockSize(c)
                                                /\ x \in Blocks(info, q)
    BY DEF BlocksListed
  <2>1. CASE c # b
    BY <1>8, <2>1 DEF WellPaged, BlocksListed
  <2>2. CASE c = b
    BY <1>7, <1>8, <1>10, <2>2 DEF WellPaged, BlocksListed
  <2> QED
    BY <2>1, <2>2
<1>12. WellPaged(new, pages, info)
  <2>1. new \in [Bucket -> Seq(Nat \ {Null})]
    BY <1>1, <1>4 DEF M
  <2> QED
    BY <1>11, <2>1 DEF WellPaged, PageTypes
<1>13. FreeIn(lists) = FreeIn(new) \ {a} /\ a \in FreeIn(new)
  BY <1>7, <1>8 DEF FreeIn
<1>14. /\ BlockUse(info, p, a) \notin InUseIn(new, info)
       /\ InUseIn(lists, info) = InUseIn(new, info) \cup {BlockUse(info, p, a)}
  <2>1. OneLess(lists, new, a)
    BY <1>13 DEF OneLess
  <2> QED
    BY ONLY <1>12, <2>1, p \in Cut(info), a \in Blocks(info, p), OneMoreBlock
<1>15. Len(new[b]) = Len(lists[b]) + 1
  BY <1>4, <1>5, <1>8 DEF M
<1> QED
  BY <1>12, <1>14, <1>15

\* A page is cut into blocks, all of which are free.
CutFirst(lists2, info2, lists, pages, info, p, b) ==
  /\ pages # <<>> /\ p = Head(pages) /\ lists[b] = <<>>
  /\ lists2 = [lists EXCEPT ![b] = BlocksOf(p, BlockSize(b))]
  /\ info2 = [info EXCEPT
       ![p] = [size |-> BlockSize(b), is_start_of_buffer |-> FALSE]]

LEMMA CutWell ==
  ASSUME NEW lists, NEW pages, NEW info, WellPaged(lists, pages, info),
         NEW b \in Bucket, NEW p, NEW lists2, NEW info2,
         CutFirst(lists2, info2, lists, pages, info, p, b)
  PROVE  /\ WellPaged(lists2, Tail(pages), info2)
         /\ p \in Page /\ p \notin Cut(info) /\ Cut(info2) = Cut(info) \cup {p}
         /\ info2[p].size = BlockSize(b)
         /\ \A q \in Page : q # p => info2[q] = info[q]
         /\ InUseIn(lists2, info2) = InUseIn(lists, info)
<1> USE DEF CutFirst
<1>1. PageTypes(lists, pages, info) /\ Sorted(pages)
  BY DEF WellPaged, PagesKnown
<1> DEFINE s == BlockSize(b)
           B == BlocksOf(p, s)
           rest == Tail(pages)
<1>2. /\ p \in Page /\ p = pages[1] /\ p \in Range(pages)
      /\ rest \in Seq(Page) /\ Len(pages) \in Nat \ {0} /\ Len(rest) = Len(pages) - 1
      /\ DOMAIN pages = 1 .. Len(pages) /\ DOMAIN rest = 1 .. Len(pages) - 1
      /\ \A i \in 1 .. Len(pages) - 1 : rest[i] = pages[i + 1]
  <2>1. pages \in Seq(Page)
    BY <1>1 DEF PageTypes
  <2>2. /\ p \in Page
        /\ rest \in Seq(Page) /\ Len(pages) \in Nat \ {0} /\ Len(rest) = Len(pages) - 1
        /\ \A i \in 1 .. Len(pages) - 1 : rest[i] = pages[i + 1]
    BY <2>1, HeadTailProperties, EmptySeq
  <2>3. DOMAIN pages = 1 .. Len(pages) /\ DOMAIN rest = 1 .. Len(rest)
    BY <2>1, <2>2, LenProperties
  <2>4. p = pages[1] /\ 1 \in DOMAIN pages
    BY <2>1, <2>2, <2>3
  <2> QED
    BY <2>2, <2>3, <2>4 DEF Range
<1>3. Sorted(rest)
  <2> SUFFICES ASSUME NEW i \in 1 .. Len(pages) - 1, NEW j \in 1 .. Len(pages) - 1, i < j
               PROVE  rest[i] < rest[j]
    BY <1>2 DEF Sorted
  <2>1. i + 1 \in 1 .. Len(pages) /\ j + 1 \in 1 .. Len(pages) /\ i + 1 < j + 1
    BY <1>2
  <2> QED
    BY <1>1, <1>2, <2>1 DEF Sorted
<1>4. Range(rest) = Range(pages) \ {p}
  <2>1. \A i \in 1 .. Len(pages) - 1 : i + 1 \in 1 .. Len(pages) /\ pages[1] < pages[i + 1]
    BY <1>1, <1>2 DEF Sorted
  <2>2. \A i \in 1 .. Len(pages) : pages[i] \in Nat
    BY <1>1, PageList DEF PageTypes
  <2>3. \A i \in 1 .. Len(pages) - 1 : rest[i] \in Range(pages) \ {p}
    BY <1>2, <2>1, <2>2 DEF Range
  <2>4. \A i \in 1 .. Len(pages) : i # 1 => i - 1 \in 1 .. Len(pages) - 1 /\ rest[i - 1] = pages[i]
    BY <1>2
  <2>5. \A i \in 1 .. Len(pages) : pages[i] # p => pages[i] \in Range(rest)
    BY <1>2, <2>4 DEF Range
  <2>6. Range(rest) \subseteq Range(pages) \ {p}
    BY <1>2, <2>3 DEF Range
  <2>7. Range(pages) \ {p} \subseteq Range(rest)
    BY <1>2, <2>5 DEF Range
  <2> QED
    BY <2>6, <2>7
<1> HIDE DEF rest
<1>5. s \in 1 .. MAX_BLOCK_SIZE /\ MAX_BLOCK_SIZE \in Nat
  BY BucketSizes, McKusickAssumption, MemoryAssumption
<1>6. /\ info2 \in [Page -> PageInfo]
      /\ info2[p].size = s
      /\ \A q \in Page : q # p => info2[q] = info[q]
  BY <1>1, <1>2, <1>5 DEF PageTypes, PageInfo
<1>7. p \notin Cut(info) /\ p \notin Starts(info)
  <2>1. p \notin Cut(info)
    BY <1>2 DEF WellPaged, PagesApart
  <2>2. p \notin Starts(info)
    BY <1>2, BufferPlaces DEF WellPaged, PagesApart
  <2> QED
    BY <2>1, <2>2
<1>8. /\ Cut(info2) = Cut(info) \cup {p}
      /\ Starts(info2) = Starts(info)
  BY <1>2, <1>5, <1>6, <1>7 DEF Cut, Starts
<1>9. /\ \A q \in Cut(info) : q # p /\ q \in Page /\ info2[q] = info[q]
                              /\ Blocks(info2, q) = Blocks(info, q)
      /\ \A q \in Starts(info) : q # p /\ q \in Page /\ info2[q] = info[q]
                                 /\ Buffer(info2, q) = Buffer(info, q)
  BY <1>6, <1>7 DEF Cut, Starts, Blocks, Buffer
<1>10. /\ \A i \in DOMAIN B : B[i] \in Nat \ {Null}
       /\ B \in Seq(Nat \ {Null}) /\ IsInjective(B)
       /\ \A x \in Range(B) : find_page_info(x) = p
  <2> DEFINE n == PAGE_SIZE \div s
  <2>1. /\ n \in Nat \ {0}
        /\ B \in Seq(Nat \ {Null}) /\ Len(B) = n
        /\ \A i \in 1 .. n : find_page_info(B[i]) = p
        /\ \A i, j \in 1 .. n : i < j => B[i] + s <= B[j]
    BY <1>2, BlockPlaces
  <2> HIDE DEF n, B
  <2>2. DOMAIN B = 1 .. n /\ \A i \in 1 .. n : B[i] \in Nat \ {Null}
    BY <2>1, LenProperties, ElementOfSeq
  <2>3. \A i, j \in 1 .. n : i < j => B[i] # B[j]
    BY <1>5, <2>1, <2>2
  <2>4. \A i, j \in 1 .. n : B[i] = B[j] => i = j
    BY <2>1, <2>3
  <2> QED
    BY <2>1, <2>2, <2>4 DEF IsInjective, Range
<1>11. Blocks(info2, p) = Range(B)
  BY <1>6 DEF Blocks
<1>12. /\ lists \in [Bucket -> Seq(Nat \ {Null})]
       /\ lists2 \in [Bucket -> Seq(Nat \ {Null})]
       /\ lists2[b] = B /\ \A c \in Bucket : c # b => lists2[c] = lists[c]
  BY <1>1, <1>10 DEF PageTypes
<1> HIDE DEF B, s
<1>13. BlocksListed(lists2, info2)
  <2> SUFFICES ASSUME NEW c \in Bucket
               PROVE  /\ IsInjective(lists2[c])
                      /\ \A x \in Range(lists2[c]) :
                           \E q \in Cut(info2) : /\ info2[q].size = BlockSize(c)
                                                 /\ x \in Blocks(info2, q)
    BY DEF BlocksListed
  <2>1. CASE c # b
    <3>1. /\ IsInjective(lists[c])
          /\ \A x \in Range(lists[c]) :
               \E q \in Cut(info) : info[q].size = BlockSize(c) /\ x \in Blocks(info, q)
      BY DEF WellPaged, BlocksListed
    <3> QED
      BY <1>8, <1>9, <1>12, <2>1, <3>1
  <2>2. CASE c = b
    <3>1. lists2[c] = B /\ IsInjective(B) /\ p \in Cut(info2)
          /\ info2[p].size = BlockSize(c) /\ Blocks(info2, p) = Range(B)
      BY ONLY <1>6, <1>8, <1>10, <1>11, <1>12, <2>2 DEF s
    <3> QED
      BY ONLY <3>1
  <2> QED
    BY <2>1, <2>2
<1>14. PagesKnown(rest, info2)
  BY <1>3, <1>6, <1>8, <1>9 DEF PagesKnown, WellPaged, s
<1>15. PagesApart(rest, info2)
  <2>1. PagesApart(pages, info)
    BY DEF WellPaged
  <2>2. \A q \in Starts(info) : p \notin Buffer(info, q)
    BY <1>2, <2>1 DEF PagesApart
  <2>3. \A q \in Page : \/ q \in Cut(info2) \/ q \in Range(rest)
                        \/ \E r \in Starts(info2) : q \in Buffer(info2, r)
    BY <1>4, <1>8, <1>9, <2>1 DEF PagesApart
  <2>4. Cut(info2) \cap Range(rest) = {}
    BY <1>4, <1>8, <2>1 DEF PagesApart
  <2>5. \A q \in Starts(info2) : /\ Buffer(info2, q) \cap Cut(info2) = {}
                                 /\ Buffer(info2, q) \cap Range(rest) = {}
    BY ONLY <1>4, <1>8, <1>9, <2>1, <2>2 DEF PagesApart
  <2>6. \A q, r \in Starts(info2) :
           q # r => Buffer(info2, q) \cap Buffer(info2, r) = {}
    BY ONLY <1>8, <1>9, <2>1 DEF PagesApart
  <2> QED
    BY <2>3, <2>4, <2>5, <2>6 DEF PagesApart
<1>16. WellPaged(lists2, rest, info2)
  BY <1>2, <1>6, <1>12, <1>13, <1>14, <1>15 DEF WellPaged, PageTypes
<1>17. FreeIn(lists2) = FreeIn(lists) \cup Blocks(info2, p)
  <2>1. Range(lists[b]) = {}
    BY DEF Range
  <2> QED
    BY <1>11, <1>12, <2>1 DEF FreeIn
<1>18. \A q \in Cut(info) : \A x \in Blocks(info, q) : x \notin Blocks(info2, p)
  <2> TAKE q \in Cut(info)
  <2> TAKE x \in Blocks(info, q)
  <2>1. find_page_info(x) = q
    BY CutBlock
  <2> QED
    BY <1>7, <1>10, <1>11, <2>1
<1>19. \A w : w \in InUseIn(lists2, info2) <=> w \in InUseIn(lists, info)
  <2>1. \A q \in Cut(info) : \A x \in Blocks(info, q) :
           BlockUse(info2, q, x) = BlockUse(info, q, x)
    BY <1>9 DEF BlockUse
  <2>2. \A q \in Starts(info) : BufferUse(info2, q) = BufferUse(info, q)
    BY <1>9 DEF BufferUse
  <2> TAKE w
  <2>3. w \in InUseIn(lists, info) <=>
           \/ \E q \in Cut(info) : \E a \in Blocks(info, q) :
                a \notin FreeIn(lists) /\ w = BlockUse(info, q, a)
           \/ \E q \in Starts(info) : w = BufferUse(info, q)
    BY UsedWhere
  <2>4. w \in InUseIn(lists2, info2) <=>
           \/ \E q \in Cut(info2) : \E a \in Blocks(info2, q) :
                a \notin FreeIn(lists2) /\ w = BlockUse(info2, q, a)
           \/ \E q \in Starts(info2) : w = BufferUse(info2, q)
    BY ONLY UsedWhere
  <2>5. (\E q \in Starts(info2) : w = BufferUse(info2, q))
           <=> \E q \in Starts(info) : w = BufferUse(info, q)
    BY <1>8, <2>2
  <2>6. (\E q \in Cut(info2) : \E a \in Blocks(info2, q) :
            a \notin FreeIn(lists2) /\ w = BlockUse(info2, q, a))
           <=> \E q \in Cut(info) : \E a \in Blocks(info, q) :
                 a \notin FreeIn(lists) /\ w = BlockUse(info, q, a)
    <3> DEFINE E(l, i, q) == \E a \in Blocks(i, q) :
                               a \notin FreeIn(l) /\ w = BlockUse(i, q, a)
    <3>1. ~ E(lists2, info2, p)
      BY ONLY <1>17
    <3>2. ASSUME NEW q \in Cut(info)
          PROVE  E(lists2, info2, q) <=> E(lists, info, q)
      BY ONLY <1>9, <1>17, <1>18, <2>1, q \in Cut(info)
    <3> HIDE DEF E
    <3>3. (\E q \in Cut(info2) : E(lists2, info2, q))
             <=> \E q \in Cut(info) : E(lists, info, q)
      BY ONLY <1>8, <3>1, <3>2
    <3> QED
      BY ONLY <3>3 DEF E
  <2> QED
    BY <2>3, <2>4, <2>5, <2>6
<1>20. InUseIn(lists2, info2) = InUseIn(lists, info)
  BY <1>19
<1> QED
  BY <1>2, <1>6, <1>7, <1>8, <1>16, <1>20 DEF rest, s

\* Of the buffers in info2 only the one at p is not one in info.
OneMoreStart(info2, info, p) ==
  /\ p \in Page /\ p \notin Starts(info)
  /\ Cut(info2) = Cut(info) /\ Starts(info2) = Starts(info) \cup {p}
  /\ \A q \in Cut(info) \cup Starts(info) : info2[q].size = info[q].size

LEMMA OneMoreBuffer ==
  ASSUME NEW lists, NEW pages, NEW info, NEW info2, WellPaged(lists, pages, info),
         NEW p, OneMoreStart(info2, info, p)
  PROVE  /\ BufferUse(info2, p) \notin InUseIn(lists, info)
         /\ InUseIn(lists, info2) = InUseIn(lists, info) \cup {BufferUse(info2, p)}
<1> DEFINE u == BufferUse(info2, p)
<1>1. /\ p \in Page /\ p \notin Starts(info)
      /\ Cut(info2) = Cut(info) /\ Starts(info2) = Starts(info) \cup {p}
      /\ \A q \in Cut(info) \cup Starts(info) : info2[q].size = info[q].size
  BY DEF OneMoreStart
<1>2. p \notin Cut(info)
  BY <1>1, CutOrStart
<1>3. u.ptr = page_addr(p)
  BY DEF BufferUse
<1>4. \A q \in Cut(info) : \A a \in Blocks(info, q) : u # BlockUse(info, q, a)
  <2> TAKE q \in Cut(info)
  <2> TAKE a \in Blocks(info, q)
  <2>1. find_page_info(a) = q
    BY CutBlock
  <2>2. find_page_info(page_addr(p)) = p
    BY <1>1, FirstByteOf
  <2>3. BlockUse(info, q, a).ptr = a
    BY DEF BlockUse
  <2> QED
    BY <1>2, <1>3, <2>1, <2>2, <2>3
<1>5. \A q \in Starts(info) : u # BufferUse(info, q)
  <2> TAKE q \in Starts(info)
  <2>1. find_page_info(page_addr(p)) = p /\ find_page_info(page_addr(q)) = q
    BY <1>1, FirstByteOf DEF Starts
  <2>2. BufferUse(info, q).ptr = page_addr(q)
    BY DEF BufferUse
  <2> QED
    BY <1>1, <1>3, <2>1, <2>2
<1>6. u \notin InUseIn(lists, info)
  BY <1>4, <1>5, UsedWhere
<1>7. /\ \A q \in Cut(info) : Blocks(info2, q) = Blocks(info, q)
      /\ \A q \in Cut(info) : \A a : BlockUse(info2, q, a) = BlockUse(info, q, a)
  BY <1>1 DEF Blocks, BlockUse
<1>8. \A q \in Starts(info) : BufferUse(info2, q) = BufferUse(info, q)
  BY <1>1 DEF BufferUse, Buffer
<1>9. \A w : w \in InUseIn(lists, info2) <=> w \in InUseIn(lists, info) \/ w = u
  <2> TAKE w
  <2>1. w \in InUseIn(lists, info) <=>
           \/ \E q \in Cut(info) : \E a \in Blocks(info, q) :
                a \notin FreeIn(lists) /\ w = BlockUse(info, q, a)
           \/ \E q \in Starts(info) : w = BufferUse(info, q)
    BY ONLY UsedWhere
  <2>2. w \in InUseIn(lists, info2) <=>
           \/ \E q \in Cut(info2) : \E a \in Blocks(info2, q) :
                a \notin FreeIn(lists) /\ w = BlockUse(info2, q, a)
           \/ \E q \in Starts(info2) : w = BufferUse(info2, q)
    BY ONLY UsedWhere
  <2>3. (\E q \in Starts(info2) : w = BufferUse(info2, q))
           <=> (\E q \in Starts(info) : w = BufferUse(info, q)) \/ w = u
    BY ONLY <1>1, <1>8
  <2>4. (\E q \in Cut(info2) : \E a \in Blocks(info2, q) :
            a \notin FreeIn(lists) /\ w = BlockUse(info2, q, a))
           <=> \E q \in Cut(info) : \E a \in Blocks(info, q) :
                 a \notin FreeIn(lists) /\ w = BlockUse(info, q, a)
    BY ONLY <1>1, <1>7
  <2> QED
    BY <2>1, <2>2, <2>3, <2>4
<1> QED
  BY <1>6, <1>9

\* The lists of blocks are right as long as no cut page changes.
LEMMA ListsKept ==
  ASSUME NEW lists, NEW info, NEW info2, BlocksListed(lists, info),
         Cut(info2) = Cut(info), \A q \in Cut(info) : info2[q].size = info[q].size
  PROVE  BlocksListed(lists, info2)
<1>1. \A q \in Cut(info) : Blocks(info2, q) = Blocks(info, q)
  BY DEF Blocks
<1> QED
  BY <1>1 DEF BlocksListed

\* A run of free pages becomes a buffer.
RunOfPages(pages, i, n) ==
  /\ i \in 1 .. Len(pages) - n + 1
  /\ \A k \in 1 .. n - 1 : pages[i + k] = pages[i] + k

BufferMade(pages2, info2, pages, info, i, n, size) ==
  /\ pages2 = SubSeq(pages, 1, i - 1) \o SubSeq(pages, i + n, Len(pages))
  /\ info2 = [q \in Page |->
       IF q = pages[i] THEN [size |-> size, is_start_of_buffer |-> TRUE]
       ELSE IF q \in pages[i] + 1 .. pages[i] + n - 1
            THEN [info[q] EXCEPT !.is_start_of_buffer = FALSE]
            ELSE info[q]]

LEMMA BufferTaken ==
  ASSUME NEW lists, NEW pages, NEW info, WellPaged(lists, pages, info),
         NEW size \in Nat, size > MAX_BLOCK_SIZE,
         NEW n, n = get_required_pages(size),
         NEW i, RunOfPages(pages, i, n), NEW p, p = pages[i],
         NEW pages2, NEW info2, BufferMade(pages2, info2, pages, info, i, n, size)
  PROVE  /\ WellPaged(lists, pages2, info2) /\ p \in Page
         /\ OneMoreStart(info2, info, p)
         /\ size <= BufferUse(info2, p).size
<1>0. /\ i \in 1 .. Len(pages) - n + 1
      /\ \A k \in 1 .. n - 1 : pages[i + k] = pages[i] + k
      /\ pages2 = SubSeq(pages, 1, i - 1) \o SubSeq(pages, i + n, Len(pages))
  BY ONLY RunOfPages(pages, i, n), BufferMade(pages2, info2, pages, info, i, n, size)
  DEF RunOfPages, BufferMade
<1>1. /\ PageTypes(lists, pages, info) /\ PagesKnown(pages, info)
      /\ PagesApart(pages, info) /\ BlocksListed(lists, info)
  BY DEF WellPaged
<1>2. MAX_BLOCK_SIZE \in Nat \ {0} /\ MAX_BLOCK_SIZE = PAGE_SIZE
  BY McKusickAssumption, MemoryAssumption
<1>3. n \in Nat \ {0} /\ size <= n * PAGE_SIZE
  BY <1>2, RequiredPages
<1> DEFINE run == p .. p + n - 1
<1>4. /\ pages2 \in Seq(Page) /\ Sorted(pages2)
      /\ run \subseteq Range(pages) /\ Range(pages2) = Range(pages) \ run
  BY <1>0, <1>1, <1>3, CutOut DEF PageTypes, PagesKnown
<1>5. Range(pages) \subseteq Page /\ Page \subseteq Nat
  <2>1. DOMAIN pages = 1 .. Len(pages) /\ \A j \in 1 .. Len(pages) : pages[j] \in Page
    BY <1>1, PageList DEF PageTypes
  <2>2. Page \subseteq Nat
    BY PageSums DEF Page
  <2> QED
    BY <2>1, <2>2 DEF Range
<1>6. p \in run /\ p \in Page /\ p \in Nat
  <2>1. Len(pages) \in Nat /\ \A j \in 1 .. Len(pages) : pages[j] \in Page /\ pages[j] \in Nat
    BY <1>1, PageList DEF PageTypes
  <2>2. i \in 1 .. Len(pages)
    BY <1>0, <1>3, <2>1
  <2>3. p \in Page /\ p \in Nat
    BY ONLY <2>1, <2>2, p = pages[i]
  <2> QED
    BY ONLY <1>3, <2>3
<1> HIDE DEF run
<1>7. \A q \in run : q \notin Cut(info) /\ q \notin Starts(info)
  <2> TAKE q \in run
  <2>1. q \in Range(pages)
    BY <1>4
  <2>2. q \notin Cut(info)
    BY <1>1, <2>1 DEF PagesApart
  <2>3. q \notin Starts(info)
    BY <1>1, <2>1, BufferPlaces DEF PagesApart
  <2> QED
    BY <2>2, <2>3
<1>8. /\ info2 \in [Page -> PageInfo]
      /\ info2[p] = [size |-> size, is_start_of_buffer |-> TRUE]
      /\ \A q \in Page : q # p => info2[q].size = info[q].size
      /\ \A q \in Page : q \notin run => info2[q] = info[q]
  <2>1. info \in [Page -> PageInfo]
    BY ONLY <1>1 DEF PageTypes
  <2>2. \A q \in Page :
          info2[q] = IF q = p THEN [size |-> size, is_start_of_buffer |-> TRUE]
                     ELSE IF q \in p + 1 .. p + n - 1
                          THEN [info[q] EXCEPT !.is_start_of_buffer = FALSE]
                          ELSE info[q]
    BY ONLY p = pages[i], BufferMade(pages2, info2, pages, info, i, n, size)
    DEF BufferMade
  <2>3. \A q \in Page : q \in p + 1 .. p + n - 1 <=> q \in run /\ q # p
    BY ONLY <1>3, <1>5, <1>6 DEF run
  <2>4. \A q \in Page : info2[q] \in PageInfo
    <3> TAKE q \in Page
    <3>1. [size |-> size, is_start_of_buffer |-> TRUE] \in PageInfo
      BY ONLY size \in Nat DEF PageInfo
    <3>2. info[q] \in PageInfo /\ [info[q] EXCEPT !.is_start_of_buffer = FALSE] \in PageInfo
      BY ONLY <2>1, q \in Page DEF PageInfo
    <3> QED
      BY ONLY <2>2, <3>1, <3>2, q \in Page
  <2>5. info2 \in [Page -> PageInfo]
    <3>1. info2 = [q \in Page |-> info2[q]]
      BY ONLY BufferMade(pages2, info2, pages, info, i, n, size) DEF BufferMade
    <3> QED
      BY ONLY <2>4, <3>1
  <2>6. \A q \in Page : q # p => info2[q].size = info[q].size
    BY ONLY <2>1, <2>2 DEF PageInfo
  <2>7. \A q \in Page : q \notin run => info2[q] = info[q]
    BY ONLY <1>6, <2>2, <2>3
  <2> QED
    BY ONLY <1>6, <2>2, <2>5, <2>6, <2>7
<1>9. /\ Cut(info2) = Cut(info) /\ Starts(info2) = Starts(info) \cup {p}
  <2>1. info2[p].size = size
    BY ONLY <1>8
  <2>2. p \notin Cut(info) /\ p \notin Cut(info2) /\ p \in Starts(info2)
    BY ONLY size \in Nat, size > MAX_BLOCK_SIZE, <1>2, <1>6, <1>7, <2>1
    DEF Cut, Starts
  <2>3. \A q \in Page : q # p => info2[q].size = info[q].size
    BY ONLY <1>8
  <2>4. Cut(info2) = Cut(info)
    BY ONLY <2>2, <2>3 DEF Cut
  <2> QED
    BY ONLY <1>6, <2>2, <2>3, <2>4 DEF Starts
<1>10. \A q \in Cut(info) \cup Starts(info) :
         q \notin run /\ q # p /\ info2[q] = info[q] /\ info2[q].size = info[q].size
  BY ONLY <1>6, <1>7, <1>8 DEF Cut, Starts
<1>11. /\ Buffer(info2, p) = run
       /\ \A q \in Starts(info) : Buffer(info2, q) = Buffer(info, q)
  <2>1. info2[p].size = size
    BY ONLY <1>8
  <2>2. Buffer(info2, p) = run
    BY ONLY <2>1, n = get_required_pages(size) DEF Buffer, run
  <2> QED
    BY ONLY <1>10, <2>2 DEF Buffer
<1>12. OneMoreStart(info2, info, p)
  BY ONLY <1>6, <1>7, <1>9, <1>10 DEF OneMoreStart
<1>13. PagesKnown(pages2, info2)
  <2>1. \A q \in Cut(info2) : \E b \in Bucket : info2[q].size = BlockSize(b)
    BY ONLY <1>1, <1>9, <1>10 DEF PagesKnown
  <2>2. \A q \in Starts(info2) :
          info2[q].is_start_of_buffer /\ Buffer(info2, q) \subseteq Page
    <3>1. info2[p].is_start_of_buffer /\ Buffer(info2, p) \subseteq Page
      BY ONLY <1>4, <1>5, <1>8, <1>11
    <3>2. \A q \in Starts(info) :
            info2[q].is_start_of_buffer /\ Buffer(info2, q) \subseteq Page
      BY ONLY <1>1, <1>10, <1>11 DEF PagesKnown
    <3> QED
      BY ONLY <1>9, <3>1, <3>2
  <2> QED
    BY ONLY <1>4, <2>1, <2>2 DEF PagesKnown
<1>14. PagesApart(pages2, info2)
  <2>1. \A q \in Page : \/ q \in Cut(info2) \/ q \in Range(pages2)
                        \/ \E r \in Starts(info2) : q \in Buffer(info2, r)
    BY ONLY <1>1, <1>4, <1>9, <1>11 DEF PagesApart
  <2>2. Cut(info2) \cap Range(pages2) = {}
    BY ONLY <1>1, <1>4, <1>9 DEF PagesApart
  <2>3. \A q \in Starts(info2) : /\ Buffer(info2, q) \cap Cut(info2) = {}
                                 /\ Buffer(info2, q) \cap Range(pages2) = {}
    BY ONLY <1>1, <1>4, <1>7, <1>9, <1>11 DEF PagesApart
  <2>4. \A q \in Starts(info) : Buffer(info, q) \cap run = {}
    BY ONLY <1>1, <1>4 DEF PagesApart
  <2>5. \A q, r \in Starts(info2) :
           q # r => Buffer(info2, q) \cap Buffer(info2, r) = {}
    BY ONLY <1>1, <1>9, <1>11, <2>4 DEF PagesApart
  <2> QED
    BY ONLY <2>1, <2>2, <2>3, <2>5 DEF PagesApart
<1>15. BlocksListed(lists, info2)
  BY ONLY <1>1, <1>9, <1>10, ListsKept
<1>16. WellPaged(lists, pages2, info2)
  BY ONLY <1>1, <1>4, <1>8, <1>13, <1>14, <1>15 DEF WellPaged, PageTypes
<1>17. size <= BufferUse(info2, p).size
  <2>1. Cardinality(Buffer(info2, p)) = n
    <3>1. p \in Starts(info2) /\ info2[p].size = size
      BY ONLY <1>8, <1>9
    <3>2. Cardinality(Buffer(info2, p)) = get_required_pages(info2[p].size)
      BY ONLY <1>16, <3>1, BufferPlaces
    <3> QED
      BY ONLY <3>1, <3>2, n = get_required_pages(size)
  <2> QED
    BY ONLY <1>3, <2>1 DEF BufferUse
<1> QED
  BY ONLY <1>6, <1>12, <1>16, <1>17

\* The pages of a buffer go back into the list.
BufferCleared(info2, info, p, run) ==
  /\ run = [i \in 1 .. get_required_pages(info[p].size) |-> p + i - 1]
  /\ info2 = [q \in Page |->
       IF q \in Range(run) THEN FreshPageInfo[q] ELSE info[q]]

LEMMA BufferFreed ==
  ASSUME NEW lists, NEW pages, NEW info, WellPaged(lists, pages, info),
         NEW p \in Starts(info), NEW run, NEW info2, BufferCleared(info2, info, p, run)
  PROVE  /\ WellPaged(lists, Inserted(pages, run), info2)
         /\ OneMoreStart(info, info2, p)
<1> USE DEF BufferCleared
<1>1. /\ PageTypes(lists, pages, info) /\ PagesKnown(pages, info)
      /\ PagesApart(pages, info) /\ BlocksListed(lists, info)
  BY DEF WellPaged
<1>2. MAX_BLOCK_SIZE \in Nat \ {0}
  BY McKusickAssumption, MemoryAssumption
<1>3. PICK n \in Nat \ {0} : /\ n = get_required_pages(info[p].size)
                             /\ p \in Page /\ p \in Nat
                             /\ Buffer(info, p) = p .. p + n - 1
                             /\ p \in Buffer(info, p)
  BY ONLY WellPaged(lists, pages, info), p \in Starts(info), BufferPlaces
<1> DEFINE all == p .. p + n - 1
           pages2 == Inserted(pages, run)
<1>4. Range(run) = all
  <2>1. DOMAIN run = 1 .. n /\ \A i \in 1 .. n : run[i] = p + i - 1
    BY ONLY <1>3, BufferCleared(info2, info, p, run)
  <2>2. \A i \in 1 .. n : p + i - 1 \in all
    BY <1>3
  <2>3. \A q \in all : q - p + 1 \in 1 .. n /\ p + (q - p + 1) - 1 = q
    BY <1>3
  <2>4. Range(run) \subseteq all
    BY ONLY <2>1, <2>2 DEF Range
  <2>5. all \subseteq Range(run)
    BY ONLY <2>1, <2>3 DEF Range
  <2> QED
    BY <2>4, <2>5
<1>5. all \subseteq Page /\ all \cap Range(pages) = {} /\ all \cap Cut(info) = {}
  BY <1>1, <1>3 DEF PagesKnown, PagesApart
<1>6. /\ pages2 \in Seq(Page) /\ Sorted(pages2)
      /\ Range(pages2) = Range(pages) \cup all
  <2>1. run = [i \in 1 .. n |-> p + i - 1]
    BY ONLY <1>3, BufferCleared(info2, info, p, run)
  <2>2. pages \in Seq(Page) /\ Sorted(pages) /\ n \in Nat
    BY <1>1 DEF PageTypes, PagesKnown
  <2> QED
    BY ONLY <1>3, <1>5, <2>1, <2>2, InsertAll
<1> HIDE DEF all, pages2
<1>7. /\ info2 \in [Page -> PageInfo]
      /\ \A q \in all : info2[q].size = 0
      /\ \A q \in Page : q \notin all => info2[q] = info[q]
  BY <1>1, <1>4, <1>5 DEF PageTypes, PageInfo, FreshPageInfo
<1>8. \A q \in Starts(info) : q \in all => q = p
  <2> SUFFICES ASSUME NEW q \in Starts(info), q \in all, q # p
               PROVE  FALSE
    OBVIOUS
  <2>1. q \in Buffer(info, q)
    BY ONLY WellPaged(lists, pages, info), q \in Starts(info), BufferPlaces
  <2> QED
    BY <1>1, <1>3, <2>1 DEF PagesApart, all
<1>9. /\ Cut(info2) = Cut(info) /\ Starts(info2) = Starts(info) \ {p}
      /\ p \in Starts(info)
  <2>1. p \in all
    BY <1>3 DEF all
  <2>2. Cut(info2) = Cut(info)
    BY ONLY <1>2, <1>5, <1>7 DEF Cut
  <2>3. Starts(info2) = Starts(info) \ {p}
    BY ONLY <1>2, <1>5, <1>7, <1>8, <2>1 DEF Starts
  <2> QED
    BY <2>2, <2>3
<1>10. \A q \in Cut(info2) \cup Starts(info2) : info2[q] = info[q] /\ q \in Page
  BY ONLY <1>5, <1>7, <1>8, <1>9 DEF Cut, Starts
<1>11. \A q \in Starts(info2) : Buffer(info2, q) = Buffer(info, q)
  BY ONLY <1>10 DEF Buffer
<1>12. OneMoreStart(info, info2, p)
  BY ONLY <1>3, <1>9, <1>10 DEF OneMoreStart
<1>13. PagesKnown(pages2, info2)
  BY ONLY <1>1, <1>6, <1>9, <1>10, <1>11 DEF PagesKnown
<1>14. PagesApart(pages2, info2)
  <2>1. \A q \in Page : \/ q \in Cut(info2) \/ q \in Range(pages2)
                        \/ \E r \in Starts(info2) : q \in Buffer(info2, r)
    BY ONLY <1>1, <1>3, <1>6, <1>9, <1>11 DEF PagesApart, all
  <2>2. Cut(info2) \cap Range(pages2) = {}
    BY ONLY <1>1, <1>5, <1>6, <1>9 DEF PagesApart
  <2>3. \A q \in Starts(info2) : Buffer(info, q) \cap all = {}
    BY ONLY <1>1, <1>3, <1>9 DEF PagesApart, all
  <2>4. \A q \in Starts(info2) : /\ Buffer(info2, q) \cap Cut(info2) = {}
                                 /\ Buffer(info2, q) \cap Range(pages2) = {}
    BY ONLY <1>1, <1>6, <1>9, <1>11, <2>3 DEF PagesApart
  <2>5. \A q, r \in Starts(info2) :
           q # r => Buffer(info2, q) \cap Buffer(info2, r) = {}
    BY ONLY <1>1, <1>9, <1>11 DEF PagesApart
  <2> QED
    BY ONLY <2>1, <2>2, <2>4, <2>5 DEF PagesApart
<1>15. BlocksListed(lists, info2)
  BY ONLY <1>1, <1>9, <1>10, ListsKept
<1>16. WellPaged(lists, pages2, info2)
  BY ONLY <1>1, <1>6, <1>7, <1>13, <1>14, <1>15 DEF WellPaged, PageTypes
<1> QED
  BY <1>12, <1>16 DEF pages2

-----------------------------------------------------------------------------
(***************************************************************************)
(* The steps of McKusickAllocator.                                         *)
(***************************************************************************)
CutIn(info, b) == {p \in Cut(info) : info[p].size = BlockSize(b)}

Paged == WellPaged(freelistarr, free_page_info, page_info)

\* What is in use is read off the variables.
LEMMA InUseNow ==
  /\ McKusickInUse = InUseIn(freelistarr, page_info)
  /\ McKusickInUse' = InUseIn(freelistarr', page_info')
BY DEF McKusickInUse, InUseIn, CutPages, BufferStart, BufferPages, FreeBlocks,
       Cut, Starts, Buffer, Blocks, FreeIn, BlockUse, BufferUse

\* So are the cut pages and the buffers.
LEMMA CutNow ==
  /\ CutPages = Cut(page_info) /\ BufferStart = Starts(page_info)
  /\ \A b : CutFor(b) = CutIn(page_info, b) /\ CutFor(b)' = CutIn(page_info', b)
BY DEF CutPages, BufferStart, CutFor, Cut, Starts, CutIn

\* After a page is cut for bucket b and its first block is taken:
OneMoreCut(info2, lists2, info, lists, b) ==
  /\ lists[b] = <<>> /\ Len(lists2[b]) = BlocksPerPage(b) - 1
  /\ \E p \in Page : p \notin CutIn(info, b) /\ CutIn(info2, b) = CutIn(info, b) \cup {p}
  /\ \A c \in Bucket \ {b} : lists2[c] = lists[c] /\ CutIn(info2, c) = CutIn(info, c)

\* A page is cut, and its first block taken from the list it was put in.
CutAndTaken(new, info2, lists, pages, info, p, b) ==
  /\ pages # <<>> /\ p = Head(pages) /\ lists[b] = <<>>
  /\ new = [lists EXCEPT ![b] = Tail(BlocksOf(p, BlockSize(b)) \o @)]
  /\ info2 = [info EXCEPT
       ![p] = [size |-> BlockSize(b), is_start_of_buffer |-> FALSE]]

LEMMA SplitTaken ==
  ASSUME NEW lists, NEW pages, NEW info, WellPaged(lists, pages, info),
         NEW b \in Bucket, NEW p, NEW info2, NEW new,
         CutAndTaken(new, info2, lists, pages, info, p, b)
  PROVE  /\ WellPaged(new, Tail(pages), info2)
         /\ OneMoreCut(info2, new, info, lists, b)
         /\ \E u : /\ u \notin InUseIn(lists, info)
                   /\ InUseIn(new, info2) = InUseIn(lists, info) \cup {u}
                   /\ u.ptr = page_addr(p) /\ u.size = BlockSize(b)
<1> DEFINE s == BlockSize(b)
           B == BlocksOf(p, s)
<1>1. PICK lists2 : lists2 = [lists EXCEPT ![b] = B]
  OBVIOUS
<1>2. /\ WellPaged(lists2, Tail(pages), info2)
      /\ p \in Page /\ p \notin Cut(info) /\ Cut(info2) = Cut(info) \cup {p}
      /\ info2[p].size = BlockSize(b)
      /\ \A q \in Page : q # p => info2[q] = info[q]
      /\ InUseIn(lists2, info2) = InUseIn(lists, info)
  <2>1. CutFirst(lists2, info2, lists, pages, info, p, b)
    BY ONLY <1>1, CutAndTaken(new, info2, lists, pages, info, p, b)
    DEF CutFirst, CutAndTaken
  <2> QED
    BY ONLY <2>1, WellPaged(lists, pages, info), b \in Bucket, CutWell
<1>3. /\ B \in Seq(Nat \ {Null}) /\ Len(B) = BlocksPerPage(b) /\ B[1] = page_addr(p)
      /\ BlocksPerPage(b) \in Nat \ {0}
  BY <1>2, BlockPlaces DEF BlocksPerPage
<1>4. lists \in [Bucket -> Seq(Nat \ {Null})]
  BY DEF WellPaged, PageTypes
<1>0. lists[b] = <<>>
  BY DEF CutAndTaken
<1>5. B # <<>> /\ B \o <<>> = B /\ Head(B) = page_addr(p)
  BY <1>3, ConcatEmptySeq
<1> HIDE DEF B, s
<1>6. lists2[b] = B /\ \A c \in Bucket : c # b => lists2[c] = lists[c]
  BY ONLY <1>1, <1>4, b \in Bucket
<1>7. new = [lists2 EXCEPT ![b] = Tail(@)]
  <2>1. \A c \in Bucket : new[c] = IF c = b THEN Tail(B) ELSE lists[c]
    BY ONLY <1>0, <1>4, <1>5, b \in Bucket,
            CutAndTaken(new, info2, lists, pages, info, p, b) DEF B, s, CutAndTaken
  <2>2. new = [c \in Bucket |-> new[c]] /\ lists2 = [c \in Bucket |-> lists2[c]]
    BY ONLY <1>1, <1>4, CutAndTaken(new, info2, lists, pages, info, p, b)
    DEF CutAndTaken
  <2> QED
    BY ONLY <1>6, <2>1, <2>2, b \in Bucket
<1>8. /\ WellPaged(new, Tail(pages), info2)
      /\ Len(new[b]) = Len(lists2[b]) - 1
      /\ \E u : /\ u \notin InUseIn(lists2, info2)
                /\ InUseIn(new, info2) = InUseIn(lists2, info2) \cup {u}
                /\ u.ptr = Head(lists2[b]) /\ u.size = BlockSize(b)
  <2>1. TakenFirst(new, lists2, b)
    BY ONLY <1>5, <1>6, <1>7 DEF TakenFirst
  <2> QED
    BY ONLY <1>2, <2>1, b \in Bucket, TakeWell
<1>9. OneMoreCut(info2, new, info, lists, b)
  <2>1. Len(new[b]) = BlocksPerPage(b) - 1
    BY ONLY <1>3, <1>6, <1>8
  <2>2. \A c \in Bucket \ {b} : new[c] = lists[c]
    BY ONLY <1>4, <1>6, <1>7, <1>1, b \in Bucket
  <2>3. \A q \in Cut(info) : q # p /\ info2[q] = info[q]
    BY ONLY <1>2 DEF Cut
  <2>4. p \notin CutIn(info, b) /\ CutIn(info2, b) = CutIn(info, b) \cup {p}
    BY ONLY <1>2, <2>3 DEF CutIn
  <2>5. ASSUME NEW c \in Bucket \ {b}
        PROVE  CutIn(info2, c) = CutIn(info, c)
    <3>1. BlockSize(c) # BlockSize(b)
      BY ONLY b \in Bucket, c \in Bucket \ {b}, BlockSizeOnce
    <3> QED
      BY ONLY <1>2, <2>3, <3>1 DEF CutIn
  <2> QED
    BY ONLY <1>0, <1>2, <2>1, <2>2, <2>4, <2>5 DEF OneMoreCut
<1> QED
  BY ONLY <1>2, <1>5, <1>6, <1>8, <1>9

\* The cut pages stay.
CutsKept(info2, info) == \A b \in Bucket : CutIn(info2, b) = CutIn(info, b)

\* One more block is in use: the one at ptr, of at least size bytes.
Given(used2, used, size, ptr) ==
  \E u : u \notin used /\ used2 = used \cup {u} /\ u.ptr = ptr /\ size <= u.size

\* alloc: nothing happens, or one more block is in use.
LEMMA McKusickAllocStep ==
  ASSUME Paged, NEW size \in Nat \ {0}, NEW ptr, McKusickAlloc(size, ptr)
  PROVE  /\ Paged'
         /\ \/ ptr = Null /\ UNCHANGED mcKusickVars
            \/ /\ ptr # Null
               /\ Given(McKusickInUse', McKusickInUse, size, ptr)
               /\ \/ CutsKept(page_info', page_info)
                  \/ \E b \in Bucket :
                       OneMoreCut(page_info', freelistarr', page_info, freelistarr, b)
<1>1. WellPaged(freelistarr, free_page_info, page_info)
  BY DEF Paged
<1>2. CASE Exhausted(size)
  <2>1. ptr = Null /\ UNCHANGED mcKusickVars
    BY <1>2 DEF McKusickAlloc
  <2> QED
    BY <1>1, <2>1 DEF Paged, mcKusickVars
<1>3. McKusickInUse = InUseIn(freelistarr, page_info)
      /\ McKusickInUse' = InUseIn(freelistarr', page_info')
  BY InUseNow
<1>4. MAX_BLOCK_SIZE = PAGE_SIZE /\ PAGE_SIZE \in Nat \ {0}
  BY McKusickAssumption, MemoryAssumption
<1>5. CASE ~ Exhausted(size) /\ size <= MAX_BLOCK_SIZE
  <2> DEFINE b == get_bucket_index(size)
  <2>1. b \in Bucket /\ size <= BlockSize(b)
    BY <1>4, <1>5, BucketIndex
  <2>2. TakeBlock(b, ptr) \/ SplitPage(b, ptr)
    BY <1>5 DEF McKusickAlloc
  <2> HIDE DEF b
  <2>3. CASE TakeBlock(b, ptr)
    <3>1. /\ freelistarr[b] # <<>> /\ ptr = Head(freelistarr[b])
          /\ freelistarr' = [freelistarr EXCEPT ![b] = Tail(@)]
          /\ free_page_info' = free_page_info /\ page_info' = page_info
      BY <2>3 DEF TakeBlock
    <3>0. TakenFirst(freelistarr', freelistarr, b)
      BY ONLY <3>1 DEF TakenFirst
    <3>2. WellPaged(freelistarr', free_page_info, page_info)
      BY ONLY <1>1, <2>1, <3>0, TakeWell
    <3>3. \E u : /\ u \notin InUseIn(freelistarr, page_info)
                 /\ InUseIn(freelistarr', page_info)
                      = InUseIn(freelistarr, page_info) \cup {u}
                 /\ u.ptr = Head(freelistarr[b]) /\ u.size = BlockSize(b)
      BY ONLY <1>1, <2>1, <3>0, TakeWell
    <3>4. Given(McKusickInUse', McKusickInUse, size, ptr)
      BY <1>3, <2>1, <3>1, <3>3 DEF Given
    <3>5. ptr # Null
      <4>1. freelistarr[b] \in Seq(Nat \ {Null})
        BY <1>1, <2>1 DEF WellPaged, PageTypes
      <4> QED
        BY <3>1, <4>1, HeadTailProperties
    <3>6. CutsKept(page_info', page_info)
      BY <3>1 DEF CutsKept
    <3> QED
      BY <3>1, <3>2, <3>4, <3>5, <3>6 DEF Paged
  <2>4. CASE SplitPage(b, ptr)
    <3> DEFINE p == Head(free_page_info)
    <3>1. /\ freelistarr[b] = <<>> /\ free_page_info # <<>> /\ ptr = page_addr(p)
          /\ free_page_info' = Tail(free_page_info)
          /\ page_info' = [page_info EXCEPT
               ![p] = [size |-> BlockSize(b), is_start_of_buffer |-> FALSE]]
          /\ freelistarr' =
               [freelistarr EXCEPT ![b] = Tail(BlocksOf(p, BlockSize(b)) \o @)]
      BY <2>4 DEF SplitPage
    <3>2. /\ WellPaged(freelistarr', Tail(free_page_info), page_info')
          /\ OneMoreCut(page_info', freelistarr', page_info, freelistarr, b)
          /\ \E u : /\ u \notin InUseIn(freelistarr, page_info)
                    /\ InUseIn(freelistarr', page_info')
                         = InUseIn(freelistarr, page_info) \cup {u}
                    /\ u.ptr = page_addr(p) /\ u.size = BlockSize(b)
      <4>1. CutAndTaken(freelistarr', page_info', freelistarr, free_page_info,
                        page_info, p, b)
        BY ONLY <3>1 DEF CutAndTaken
      <4> HIDE DEF p
      <4> QED
        BY ONLY <1>1, <2>1, <4>1, SplitTaken
    <3>3. Given(McKusickInUse', McKusickInUse, size, ptr)
      BY <1>3, <2>1, <3>1, <3>2 DEF Given
    <3>4. ptr # Null
      <4>1. free_page_info \in Seq(Page)
        BY <1>1 DEF WellPaged, PageTypes
      <4>2. p \in Page
        BY <3>1, <4>1, HeadTailProperties
      <4> QED
        BY <3>1, <4>2, PagePlaces
    <3> QED
      BY <2>1, <3>1, <3>2, <3>3, <3>4 DEF Paged
  <2> QED
    BY <2>2, <2>3, <2>4
<1>6. CASE ~ Exhausted(size) /\ ~ (size <= MAX_BLOCK_SIZE)
  <2> DEFINE n == get_required_pages(size)
             i == FirstRun(n)
             p == free_page_info[i]
  <2>1. /\ RunStarts(n) # {} /\ ptr = page_addr(p)
        /\ free_page_info' = SubSeq(free_page_info, 1, i - 1)
                               \o SubSeq(free_page_info, i + n, Len(free_page_info))
        /\ page_info' = [q \in Page |->
             IF q = p THEN [size |-> size, is_start_of_buffer |-> TRUE]
             ELSE IF q \in p + 1 .. p + n - 1
                  THEN [page_info[q] EXCEPT !.is_start_of_buffer = FALSE]
                  ELSE page_info[q]]
        /\ freelistarr' = freelistarr
    BY <1>6 DEF McKusickAlloc, TakePages
  <2>2. size \in Nat /\ size > MAX_BLOCK_SIZE
    BY <1>4, <1>6
  <2>3. n \in Nat \ {0} /\ free_page_info \in Seq(Page)
    BY <1>1, RequiredPages DEF WellPaged, PageTypes
  <2>4. /\ i \in 1 .. Len(free_page_info) - n + 1
        /\ \A k \in 1 .. n - 1 : free_page_info[i + k] = free_page_info[i] + k
    BY <2>1, <2>3, FirstOfRuns
  <2>5. /\ WellPaged(freelistarr, free_page_info', page_info') /\ p \in Page
        /\ OneMoreStart(page_info', page_info, p)
        /\ size <= BufferUse(page_info', p).size
    <3>1. RunOfPages(free_page_info, i, n)
      BY ONLY <2>4 DEF RunOfPages
    <3>2. BufferMade(free_page_info', page_info', free_page_info, page_info, i, n, size)
      BY ONLY <2>1 DEF BufferMade
    <3>3. n = get_required_pages(size) /\ p = free_page_info[i]
      OBVIOUS
    <3> HIDE DEF p, i, n
    <3> QED
      BY ONLY <1>1, <2>2, <3>1, <3>2, <3>3, BufferTaken
  <2> HIDE DEF p, i, n
  <2>6. /\ BufferUse(page_info', p) \notin InUseIn(freelistarr, page_info)
        /\ InUseIn(freelistarr, page_info')
             = InUseIn(freelistarr, page_info) \cup {BufferUse(page_info', p)}
    BY ONLY <1>1, <2>5, OneMoreBuffer
  <2>7. BufferUse(page_info', p).ptr = ptr
    BY <2>1 DEF BufferUse
  <2>8. Given(McKusickInUse', McKusickInUse, size, ptr)
    BY ONLY <1>3, <2>1, <2>5, <2>6, <2>7 DEF Given
  <2>9. ptr # Null
    BY <2>1, <2>5, PagePlaces
  <2>10. CutsKept(page_info', page_info)
    BY <2>5 DEF OneMoreStart, CutsKept, CutIn
  <2> QED
    BY <2>1, <2>5, <2>8, <2>9, <2>10 DEF Paged
<1> QED
  BY <1>2, <1>5, <1>6

\* free of a block in use: it is not in use any more.
LEMMA McKusickFreeStep ==
  ASSUME Paged, NEW u \in McKusickInUse, McKusickFree(u.ptr)
  PROVE  /\ Paged'
         /\ McKusickInUse' = McKusickInUse \ {u}
         /\ CutsKept(page_info', page_info)
         /\ \A b \in Bucket : Len(freelistarr'[b]) >= Len(freelistarr[b])
<1>1. WellPaged(freelistarr, free_page_info, page_info)
  BY DEF Paged
<1>2. McKusickInUse = InUseIn(freelistarr, page_info)
      /\ McKusickInUse' = InUseIn(freelistarr', page_info')
  BY InUseNow
<1>3. MAX_BLOCK_SIZE \in Nat
  BY McKusickAssumption, MemoryAssumption
<1>4. ASSUME NEW p \in Cut(page_info), NEW a \in Blocks(page_info, p),
             a \notin FreeIn(freelistarr), u = BlockUse(page_info, p, a)
      PROVE  /\ Paged'
             /\ McKusickInUse' = McKusickInUse \ {u}
             /\ CutsKept(page_info', page_info)
             /\ \A b \in Bucket : Len(freelistarr'[b]) >= Len(freelistarr[b])
  <2>1. u.ptr = a
    BY <1>4 DEF BlockUse
  <2>2. find_page_info(a) = p
    BY <1>1, CutBlock
  <2>3. p \in Page /\ page_info[p].size <= MAX_BLOCK_SIZE
    BY <1>3 DEF Cut
  <2>4. PICK b \in Bucket :
          page_info[p].size = BlockSize(b) /\ get_bucket_index(page_info[p].size) = b
    BY <1>1, CutPage
  <2>5. FreeBlock(a, b)
    BY <2>1, <2>2, <2>3, <2>4 DEF McKusickFree
  <2>6. /\ freelistarr' = [freelistarr EXCEPT ![b] = <<a>> \o @]
        /\ free_page_info' = free_page_info /\ page_info' = page_info
    BY <2>5 DEF FreeBlock
  <2>7. /\ WellPaged(freelistarr', free_page_info, page_info)
        /\ InUseIn(freelistarr', page_info)
             = InUseIn(freelistarr, page_info) \ {BlockUse(page_info, p, a)}
    <3>1. Pushed(freelistarr', freelistarr, page_info, p, a, b)
      BY ONLY <1>4, <2>4, <2>6, p \in Cut(page_info), a \in Blocks(page_info, p)
      DEF Pushed
    <3> QED
      BY ONLY <1>1, <3>1, b \in Bucket, PushWell
  <2>8. Len(freelistarr'[b]) = Len(freelistarr[b]) + 1
    <3>1. Pushed(freelistarr', freelistarr, page_info, p, a, b)
      BY ONLY <1>4, <2>4, <2>6, p \in Cut(page_info), a \in Blocks(page_info, p)
      DEF Pushed
    <3> QED
      BY ONLY <1>1, <3>1, b \in Bucket, PushWell
  <2>9. \A c \in Bucket : Len(freelistarr'[c]) >= Len(freelistarr[c])
    <3>1. \A c \in Bucket : c # b => freelistarr'[c] = freelistarr[c]
      BY <1>1, <2>6 DEF WellPaged, PageTypes
    <3>2. \A c \in Bucket : Len(freelistarr[c]) \in Nat
      BY <1>1 DEF WellPaged, PageTypes
    <3> QED
      BY ONLY <2>8, <3>1, <3>2, b \in Bucket
  <2> QED
    BY <1>2, <1>4, <2>6, <2>7, <2>9 DEF Paged, CutsKept
<1>5. ASSUME NEW p \in Starts(page_info), u = BufferUse(page_info, p)
      PROVE  /\ Paged'
             /\ McKusickInUse' = McKusickInUse \ {u}
             /\ CutsKept(page_info', page_info)
             /\ \A b \in Bucket : Len(freelistarr'[b]) >= Len(freelistarr[b])
  <2> DEFINE run == [i \in 1 .. get_required_pages(page_info[p].size) |-> p + i - 1]
  <2>1. u.ptr = page_addr(p)
    BY <1>5 DEF BufferUse
  <2>2. p \in Page /\ page_info[p].size > MAX_BLOCK_SIZE
        /\ page_info[p].size \in Nat
    BY <1>1 DEF Starts, WellPaged, PageTypes, PageInfo
  <2>3. find_page_info(u.ptr) = p
    BY <2>1, <2>2, FirstByteOf
  <2>4. page_info[p].is_start_of_buffer
    BY <1>1 DEF WellPaged, PagesKnown
  <2>5. FreePages(p)
    BY <1>3, <2>2, <2>3, <2>4 DEF McKusickFree
  <2>6. /\ page_info' = [q \in Page |->
             IF q \in Range(run) THEN FreshPageInfo[q] ELSE page_info[q]]
        /\ free_page_info' = Inserted(free_page_info, run)
        /\ freelistarr' = freelistarr
    BY ONLY <2>5 DEF FreePages, Inserted
  <2>7. /\ WellPaged(freelistarr, Inserted(free_page_info, run), page_info')
        /\ OneMoreStart(page_info, page_info', p)
    <3>1. BufferCleared(page_info', page_info, p, run)
      BY ONLY <2>6 DEF BufferCleared
    <3> HIDE DEF run
    <3> QED
      BY ONLY <1>1, <3>1, p \in Starts(page_info), BufferFreed
  <2> HIDE DEF run
  <2>8. /\ BufferUse(page_info, p) \notin InUseIn(freelistarr, page_info')
        /\ InUseIn(freelistarr, page_info)
             = InUseIn(freelistarr, page_info') \cup {BufferUse(page_info, p)}
    BY ONLY <2>7, OneMoreBuffer
  <2>9. McKusickInUse' = McKusickInUse \ {u}
    BY ONLY <1>2, <1>5, <2>6, <2>8
  <2>10. CutsKept(page_info', page_info)
    BY <2>7 DEF OneMoreStart, CutsKept, CutIn
  <2>11. \A b \in Bucket : Len(freelistarr'[b]) >= Len(freelistarr[b])
    <3>1. \A b \in Bucket : Len(freelistarr[b]) \in Nat
      BY <1>1 DEF WellPaged, PageTypes
    <3> QED
      BY ONLY <2>6, <3>1
  <2> QED
    BY <2>6, <2>7, <2>9, <2>10, <2>11 DEF Paged
<1>6. \/ \E p \in Cut(page_info) : \E a \in Blocks(page_info, p) :
           a \notin FreeIn(freelistarr) /\ u = BlockUse(page_info, p, a)
      \/ \E p \in Starts(page_info) : u = BufferUse(page_info, p)
  BY <1>2, UsedWhere
<1> QED
  BY <1>4, <1>5, <1>6

-----------------------------------------------------------------------------
(***************************************************************************)
(* What is in use in a memory: aligned blocks inside of it, none of which  *)
(* overlaps another one.                                                   *)
(***************************************************************************)
Sound(used) ==
  /\ \A u \in used :
       /\ u.ptr \in Nat \ {Null} /\ u.size \in Nat \ {0} /\ u.ptr % 8 = 0
       /\ memory <= u.ptr
       /\ u.ptr + u.size <= memory + RoundUp(memory_size, PAGE_SIZE)
  /\ \A u, v \in used :
       u # v => u.ptr + u.size <= v.ptr \/ v.ptr + v.size <= u.ptr

\* Blocks that do not overlap have pointers of their own.
LEMMA OnePointer ==
  ASSUME NEW used, Sound(used), NEW u \in used, NEW v \in used, u.ptr = v.ptr
  PROVE  u = v
<1>1. u.ptr \in Nat /\ u.size \in Nat \ {0} /\ v.ptr \in Nat /\ v.size \in Nat \ {0}
  BY DEF Sound
<1>2. u # v => u.ptr + u.size <= v.ptr \/ v.ptr + v.size <= u.ptr
  BY DEF Sound
<1> QED
  BY ONLY <1>1, <1>2, u.ptr = v.ptr

\* The blocks and buffers of McKusickAllocator are sound.
LEMMA SoundPages ==
  ASSUME NEW lists, NEW pages, NEW info, WellPaged(lists, pages, info)
  PROVE  Sound(InUseIn(lists, info))
<1>1. ASSUME NEW u \in InUseIn(lists, info)
      PROVE  /\ u.ptr \in Nat \ {Null} /\ u.size \in Nat \ {0} /\ u.ptr % 8 = 0
             /\ memory <= u.ptr
             /\ u.ptr + u.size <= memory + RoundUp(memory_size, PAGE_SIZE)
  <2>1. u.ptr \in Nat \ {Null} /\ u.size \in Nat \ {0} /\ u.ptr % 8 = 0
    BY UsedHome
  <2>2. PICK lo, hi \in Page : /\ page_addr(lo) <= u.ptr
                               /\ u.ptr + u.size <= page_addr(hi) + PAGE_SIZE
    BY UsedHome
  <2>3. /\ page_addr(lo) \in Nat /\ page_addr(hi) \in Nat
        /\ memory <= page_addr(lo)
        /\ page_addr(hi) + PAGE_SIZE <= memory + RoundUp(memory_size, PAGE_SIZE)
    BY PagePlaces
  <2>4. memory \in Nat /\ PAGE_SIZE \in Nat /\ RoundUp(memory_size, PAGE_SIZE) \in Int
    <3>1. total_pages * PAGE_SIZE = RoundUp(memory_size, PAGE_SIZE) /\ total_pages \in Nat
      BY PageSums
    <3> QED
      BY <3>1, MemoryAssumption
  <2> QED
    BY ONLY <2>1, <2>2, <2>3, <2>4
<1>2. \A u, v \in InUseIn(lists, info) :
        u # v => u.ptr + u.size <= v.ptr \/ v.ptr + v.size <= u.ptr
  BY UsedApart
<1> QED
  BY <1>1, <1>2 DEF Sound

-----------------------------------------------------------------------------
(***************************************************************************)
(* The steps of BestFitAllocator: what is in use is behind the headers of  *)
(* the blocks that are taken.                                              *)
(***************************************************************************)
Aligned(blk) == \A h \in DOMAIN blk : h % 8 = 0

BytesOf(blk, h) == [ptr |-> h + HeaderSize, size |-> blk[h].size - HeaderSize]

UsedIn(blk) == {BytesOf(blk, h) : h \in TakenIn(blk)}

\* What is in use is read off the variables.
LEMMA BlocksNow ==
  /\ Taken = TakenIn(block) /\ Taken' = TakenIn(block')
  /\ BestFitInUse = UsedIn(block) /\ BestFitInUse' = UsedIn(block')
BY DEF BestFitInUse, Taken, UsedIn, TakenIn, BytesOf

\* The header, its size and the sizes of blocks are whole words, and the
\* blocks end where the memory does.
LEMMA WordFacts ==
  /\ head % 8 = 0 /\ HeaderSize % 8 = 0
  /\ \A size \in Nat \ {0} :
       aligned_size(size) % 8 = 0 /\ aligned_size(size) >= size + HeaderSize
  /\ head + total_size <= memory + RoundUp(memory_size, PAGE_SIZE)
  /\ RoundUp(memory_size, PAGE_SIZE) \in Nat
<1>1. HeaderSize \in Nat /\ HeaderSize % 8 = 0
  BY BestFitAssumption
<1>2. \A n \in Nat : RoundUp(n, 8) \in Nat /\ RoundUp(n, 8) >= n /\ RoundUp(n, 8) % 8 = 0
  BY DEF RoundUp
<1>3. \A size \in Nat \ {0} :
        aligned_size(size) % 8 = 0 /\ aligned_size(size) >= size + HeaderSize
  BY <1>1, <1>2 DEF aligned_size
<1>4. \A a \in Nat, b \in Nat \ {0} : b % 8 = 0 /\ a % b = 0 => a % 8 = 0
  <2> TAKE a \in Nat, b \in Nat \ {0}
  <2> HAVE b % 8 = 0 /\ a % b = 0
  <2>1. PICK d \in Int : a = b * d
    <3>1. a = b * (a \div b) + (a % b) /\ a \div b \in Int
      BY DivMod
    <3>2. b * (a \div b) \in Int
      BY <3>1
    <3>3. a = b * (a \div b)
      BY <3>1, <3>2, a % b = 0
    <3> QED
      BY ONLY <3>1, <3>3
  <2> b \in Int
    OBVIOUS
  <2>2. (b * d) % 8 = 0
    BY ONLY b \in Int, b % 8 = 0, d \in Int, EightTimes, Zenon
  <2> QED
    BY <2>1, <2>2
<1>5. head % 8 = 0
  BY <1>4, MemoryAssumption DEF head
<1>6. /\ RoundUp(memory_size, PAGE_SIZE) \in Nat
      /\ RoundUp(memory_size, PAGE_SIZE) % 8 = 0
      /\ memory_size <= RoundUp(memory_size, PAGE_SIZE)
  <2>1. PAGE_SIZE \in Nat \ {0} /\ PAGE_SIZE % 8 = 0 /\ memory_size \in Nat \ {0}
    BY MemoryAssumption
  <2>2. total_pages * PAGE_SIZE = RoundUp(memory_size, PAGE_SIZE) /\ total_pages \in Nat
    BY PageSums
  <2>3. (PAGE_SIZE * total_pages) % 8 = 0
    <3>1. PAGE_SIZE \in Int /\ total_pages \in Int /\ PAGE_SIZE % 8 = 0
      BY <2>1, <2>2
    <3> QED
      BY ONLY <3>1, EightTimes, Zenon
  <2>4. PAGE_SIZE * total_pages = total_pages * PAGE_SIZE /\ total_pages * PAGE_SIZE \in Nat
    BY <2>1, <2>2
  <2>5. memory_size <= get_required_pages(memory_size) * PAGE_SIZE
        /\ get_required_pages(memory_size) = total_pages
    BY <2>1, RequiredPages DEF get_required_pages, total_pages
  <2> QED
    BY <2>2, <2>3, <2>4, <2>5
<1>7. \A a, b \in Nat : a <= b /\ b % 8 = 0 => RoundUp(a, 8) <= b
  BY DEF RoundUp
<1>8. total_size <= RoundUp(memory_size, PAGE_SIZE)
  BY <1>6, <1>7, MemoryAssumption DEF total_size
<1>9. head + total_size <= memory + RoundUp(memory_size, PAGE_SIZE)
  BY <1>6, <1>8, SizeFacts, MemoryAssumption DEF head
<1> QED
  BY <1>1, <1>3, <1>5, <1>6, <1>9

\* The blocks of BestFitAllocator are sound.
LEMMA SoundBlocks ==
  ASSUME NEW blk, WellFormed(blk), Aligned(blk)
  PROVE  Sound(UsedIn(blk))
<1> DEFINE end == memory + RoundUp(memory_size, PAGE_SIZE)
<1>1. ASSUME NEW h \in DOMAIN blk
      PROVE  /\ h \in Nat /\ blk[h].size \in Nat /\ HeaderSize < blk[h].size
             /\ head <= h /\ h + blk[h].size <= end
             /\ h % 8 = 0
             /\ \A g \in DOMAIN blk : h < g => h + blk[h].size <= g
  <2>1. /\ HeaderSize < blk[h].size /\ head <= h
        /\ h + blk[h].size <= head + total_size
        /\ \A g \in DOMAIN blk : h < g => h + blk[h].size <= g
    BY DEF WellFormed, Tiled
  <2>2. h \in Nat /\ blk[h].size \in Nat
    BY HeaderType
  <2>3. h + blk[h].size <= end
    BY <2>1, <2>2, WordFacts, SizeFacts, MemoryAssumption
  <2> QED
    BY <2>1, <2>2, <2>3 DEF Aligned
<1>2. end \in Nat /\ HeaderSize \in Nat \ {0} /\ HeaderSize % 8 = 0 /\ memory \in Nat \ {0}
      /\ head = memory
  BY WordFacts, MemoryAssumption, BestFitAssumption DEF head
<1> HIDE DEF end
<1>3. ASSUME NEW h \in DOMAIN blk
      PROVE  LET u == BytesOf(blk, h)
             IN  /\ u.ptr \in Nat \ {Null} /\ u.size \in Nat \ {0} /\ u.ptr % 8 = 0
                 /\ memory <= u.ptr /\ u.ptr + u.size <= end
                 /\ u.ptr = h + HeaderSize /\ u.ptr + u.size = h + blk[h].size
  <2>1. /\ h + HeaderSize \in Nat \ {0} /\ blk[h].size - HeaderSize \in Nat \ {0}
        /\ (h + HeaderSize) % 8 = 0 /\ memory <= h + HeaderSize
        /\ (h + HeaderSize) + (blk[h].size - HeaderSize) = h + blk[h].size
    BY <1>1, <1>2
  <2> QED
    BY <1>1, <2>1 DEF BytesOf, Null
<1>4. ASSUME NEW h \in DOMAIN blk, NEW g \in DOMAIN blk, BytesOf(blk, h) # BytesOf(blk, g)
      PROVE  LET u == BytesOf(blk, h)
                 v == BytesOf(blk, g)
             IN  u.ptr + u.size <= v.ptr \/ v.ptr + v.size <= u.ptr
  <2> DEFINE u == BytesOf(blk, h)
             v == BytesOf(blk, g)
  <2>1. /\ u.ptr = h + HeaderSize /\ u.ptr + u.size = h + blk[h].size
        /\ v.ptr = g + HeaderSize /\ v.ptr + v.size = g + blk[g].size
    BY <1>3
  <2>2. h # g
    BY <1>4
  <2> HIDE DEF u, v
  <2>3. h < g \/ g < h
    BY <1>1, <2>2
  <2>4. ASSUME h < g PROVE h + blk[h].size <= g + HeaderSize
    BY <1>1, <1>2, <2>4
  <2>5. ASSUME g < h PROVE g + blk[g].size <= h + HeaderSize
    BY <1>1, <1>2, <2>5
  <2>6. u.ptr + u.size <= v.ptr \/ v.ptr + v.size <= u.ptr
    BY <2>1, <2>3, <2>4, <2>5
  <2> QED
    BY <2>6 DEF u, v
<1>5. \A u \in UsedIn(blk) : \E h \in DOMAIN blk : u = BytesOf(blk, h)
  BY DEF UsedIn, TakenIn
<1> QED
  BY <1>3, <1>4, <1>5 DEF Sound, end

\* A new allocator: one free block, at the aligned start.
LEMMA FreshAligned == Aligned(FreshBlock) /\ UsedIn(FreshBlock) = {}
BY WordFacts DEF Aligned, UsedIn, TakenIn, FreshBlock

\* One more block is taken, and the others keep their sizes.
LEMMA OneMoreTaken ==
  ASSUME NEW blk, NEW blk2, NEW h, h \notin TakenIn(blk),
         WellFormed(blk), WellFormed(blk2),
         TakenIn(blk2) = TakenIn(blk) \cup {h},
         \A g \in TakenIn(blk) : blk2[g].size = blk[g].size
  PROVE  /\ UsedIn(blk2) = UsedIn(blk) \cup {BytesOf(blk2, h)}
         /\ BytesOf(blk2, h) \notin UsedIn(blk)
<1>1. \A g \in TakenIn(blk) : BytesOf(blk2, g) = BytesOf(blk, g)
  BY DEF BytesOf
<1>2. UsedIn(blk2) = UsedIn(blk) \cup {BytesOf(blk2, h)}
  BY <1>1 DEF UsedIn
<1>3. ASSUME NEW g \in TakenIn(blk), BytesOf(blk2, h) = BytesOf(blk, g)
      PROVE  FALSE
  <2>1. h \in DOMAIN blk2 /\ g \in DOMAIN blk
    BY DEF TakenIn
  <2>2. h \in Nat /\ g \in Nat
    BY <2>1, HeaderType
  <2>3. BytesOf(blk2, h).ptr = h + HeaderSize /\ BytesOf(blk, g).ptr = g + HeaderSize
    BY DEF BytesOf
  <2>4. h = g
    BY <1>3, <2>2, <2>3, SizeFacts
  <2> QED
    BY <2>4
<1> QED
  BY <1>2, <1>3 DEF UsedIn

\* alloc: nothing happens, or one more block is in use.
LEMMA BestFitAllocStep ==
  ASSUME WellFormed(block), FreeApart(block), Aligned(block),
         NEW size \in Nat \ {0}, NEW ptr, BestFitAlloc(size, ptr)
  PROVE  /\ Aligned(block')
         /\ \/ ptr = Null /\ UNCHANGED block
            \/ ptr # Null /\ Given(BestFitInUse', BestFitInUse, size, ptr)
<1>1. CASE SuitableBlocks(size) = {}
  BY <1>1 DEF BestFitAlloc, Aligned
<1>2. CASE SuitableBlocks(size) # {}
  <2> DEFINE n == aligned_size(size)
  <2>1. PICK h \in SuitableBlocks(size) :
          /\ ptr = h + HeaderSize
          /\ IF block[h].size >= n + MINIMUM_BLOCK_SIZE
             THEN block' = Split(h, n)
             ELSE block' = [block EXCEPT ![h].is_free = FALSE]
    BY <1>2 DEF BestFitAlloc
  <2>2. h \in DOMAIN block /\ block[h].size >= n /\ block[h].is_free
    BY DEF SuitableBlocks
  <2>3. h \in Nat /\ block[h].size \in Nat /\ h % 8 = 0
    BY <2>2, HeaderType DEF Aligned
  <2>4. n \in Nat /\ n > HeaderSize /\ n % 8 = 0 /\ n >= size + HeaderSize
    BY SizeFacts, WordFacts
  <2> HIDE DEF n
  <2>5. HeaderSize \in Nat \ {0} /\ ptr # Null /\ ptr \in Nat
    BY <2>1, <2>3, SizeFacts DEF Null
  <2>6. /\ DOMAIN block' \subseteq DOMAIN block \cup {h + n}
        /\ \A g \in DOMAIN block : g # h => block'[g].size = block[g].size
        /\ block'[h].size >= n /\ block'[h].size \in Nat
    <3>1. CASE block[h].size >= n + MINIMUM_BLOCK_SIZE
      <4>1. block' = Split(h, n)
        BY <2>1, <3>1
      <4>2. n + HeaderSize < block[h].size
        BY <2>3, <2>4, <2>5, <3>1 DEF MINIMUM_BLOCK_SIZE
      <4>3. h + n \notin DOMAIN block
        BY <2>2, <2>4, <4>2, SplitWell
      <4>4. h # h + n
        BY <2>3, <2>4, <2>5
      <4>5. Split(h, n)[h].size = n
        <5>1. Split(h, n)[h] = [block[h] EXCEPT !.size = n, !.next = h + n,
                                                !.is_free = FALSE]
          <6>1. h # block[h].next
            BY <2>2, <2>3, Neighbours, HeaderType
          <6> QED
            BY <2>2, <4>4, <6>1 DEF Split
        <5>2. block[h] \in BlockHeader
          BY <2>2 DEF WellFormed
        <5> QED
          BY ONLY <5>1, <5>2 DEF BlockHeader
      <4>6. \A g \in DOMAIN block : g # h => Split(h, n)[g].size = block[g].size
        BY <4>3 DEF Split, WellFormed, BlockHeader
      <4>7. DOMAIN Split(h, n) = DOMAIN block \cup {h + n}
        BY DEF Split
      <4> QED
        BY <2>4, <4>1, <4>5, <4>6, <4>7
    <3>2. CASE ~ (block[h].size >= n + MINIMUM_BLOCK_SIZE)
      <4>1. block' = [block EXCEPT ![h].is_free = FALSE]
        BY <2>1, <3>2
      <4>2. DOMAIN block' = DOMAIN block
        BY <4>1
      <4>3. \A g \in DOMAIN block : block'[g].size = block[g].size
        BY <4>1 DEF WellFormed, BlockHeader
      <4> QED
        BY <2>2, <2>3, <4>2, <4>3
    <3> QED
      BY <3>1, <3>2
  <2>7. Aligned(block')
    <3>1. (h + n) % 8 = 0
      BY <2>3, <2>4
    <3> QED
      BY <2>6, <3>1 DEF Aligned
  <2>8. /\ WellFormed(block') /\ h \notin TakenIn(block)
        /\ TakenIn(block') = TakenIn(block) \cup {h}
    <3>1. PICK g \in DOMAIN block : /\ ptr = g + HeaderSize
                                    /\ g \notin Taken
                                    /\ Taken' = Taken \cup {g}
      BY <2>5, AllocKeepsBlocks
    <3>2. g = h
      BY <2>1, <2>3, <2>5, <3>1, HeaderType
    <3>3. WellFormed(block')
      BY <2>5, AllocKeepsBlocks
    <3> QED
      BY <3>1, <3>2, <3>3, BlocksNow
  <2>9. /\ UsedIn(block') = UsedIn(block) \cup {BytesOf(block', h)}
        /\ BytesOf(block', h) \notin UsedIn(block)
    <3>1. \A g \in TakenIn(block) : block'[g].size = block[g].size
      BY <2>6, <2>8 DEF TakenIn
    <3> QED
      BY <2>8, <3>1, OneMoreTaken
  <2>10. BytesOf(block', h).ptr = ptr /\ size <= BytesOf(block', h).size
    BY <2>1, <2>4, <2>5, <2>6 DEF BytesOf
  <2>11. Given(BestFitInUse', BestFitInUse, size, ptr)
    BY <2>9, <2>10, BlocksNow DEF Given
  <2> QED
    BY <2>5, <2>7, <2>11
<1> QED
  BY <1>1, <1>2

\* Only the block that takes in another one changes its size.
LEMMA AbsorbSizes ==
  ASSUME NEW blk, WellFormed(blk), NEW h \in DOMAIN blk, blk[h].next # Null
  PROVE  \A g \in DOMAIN Absorb(blk, h) :
           g \in DOMAIN blk /\ (g # h => Absorb(blk, h)[g].size = blk[g].size)
BY DEF Absorb, WellFormed, BlockHeader

\* free of a block in use: it is not in use any more.
LEMMA BestFitFreeStep ==
  ASSUME WellFormed(block), FreeApart(block), Aligned(block),
         NEW u \in BestFitInUse, BestFitFree(u.ptr)
  PROVE  Aligned(block') /\ BestFitInUse' = BestFitInUse \ {u}
<1>1. PICK h \in TakenIn(block) : u = BytesOf(block, h)
  BY BlocksNow DEF UsedIn
<1>2. h \in DOMAIN block /\ ~ block[h].is_free
  BY DEF TakenIn
<1>3. h \in Nat /\ HeaderSize \in Nat
  BY <1>2, HeaderType, SizeFacts
<1>4. u.ptr = h + HeaderSize /\ u.ptr - HeaderSize = h
  BY <1>1, <1>3 DEF BytesOf
<1>5. /\ WellFormed(block') /\ TakenIn(block') = TakenIn(block) \ {h}
  BY <1>1, <1>4, BlocksNow, FreeKeepsBlocks
<1> DEFINE marked == [block EXCEPT ![h].is_free = TRUE]
           merged == MergeNext(marked, h)
<1>6. /\ WellFormed(marked) /\ DOMAIN marked = DOMAIN block
      /\ \A g \in DOMAIN block : marked[g].size = block[g].size
      /\ \A g \in DOMAIN block : g # h => marked[g].is_free = block[g].is_free
      /\ marked[h].is_free
  <2>1. WellFormed(marked)
    BY <1>2, MarkWell
  <2> QED
    BY <1>2, <2>1 DEF WellFormed, BlockHeader
<1>7. block' = MergePrev(merged, h)
  BY <1>4 DEF BestFitFree
<1> HIDE DEF marked
<1>8. /\ WellFormed(merged) /\ h \in DOMAIN merged
      /\ \A g \in DOMAIN merged : g \in DOMAIN block
      /\ \A g \in DOMAIN merged : g # h => merged[g].size = block[g].size
  <2> DEFINE n == marked[h].next
  <2>1. CASE ~ (n # Null /\ marked[n].is_free)
    <3>1. merged = marked
      BY <2>1 DEF MergeNext
    <3> QED
      BY <1>2, <1>6, <3>1
  <2>2. CASE n # Null /\ marked[n].is_free
    <3>1. merged = Absorb(marked, h)
      BY <2>2 DEF MergeNext
    <3>2. /\ WellFormed(Absorb(marked, h))
          /\ DOMAIN Absorb(marked, h) = DOMAIN marked \ {marked[h].next}
      <4>1. h \in DOMAIN marked /\ marked[h].next # Null
        BY <1>2, <1>6, <2>2
      <4> QED
        BY ONLY <1>6, <4>1, AbsorbWell
    <3>3. n # h
      BY <1>2, <1>3, <1>6, <2>2, Neighbours, HeaderType
    <3> HIDE DEF merged
    <3>4. \A g \in DOMAIN merged :
            g \in DOMAIN marked /\ (g # h => merged[g].size = marked[g].size)
      BY <1>2, <1>6, <2>2, <3>1, AbsorbSizes
    <3> QED
      BY <1>2, <1>6, <3>1, <3>2, <3>3, <3>4
  <2> QED
    BY <2>1, <2>2
<1>9. TakenIn(merged) = TakenIn(marked) /\ TakenIn(marked) = TakenIn(block) \ {h}
      /\ merged[h].is_free
  <2>1. \A g \in DOMAIN marked : FreePair(marked, g) => g = h \/ marked[g].next = h
    <3>1. \A g \in DOMAIN block : marked[g].next = block[g].next
      BY <1>2 DEF marked, WellFormed, BlockHeader
    <3> QED
      BY <1>6, <3>1, Neighbours DEF FreeApart, FreePair
  <2>2. TakenIn(merged) = TakenIn(marked) /\ merged[h].is_free
    BY <1>2, <1>6, <2>1, MergeNextKeepsBlocks
  <2>3. TakenIn(marked) = TakenIn(block) \ {h}
    BY <1>2, <1>6 DEF TakenIn
  <2> QED
    BY <2>2, <2>3
<1> HIDE DEF merged
<1>10. /\ \A g \in DOMAIN block' : g \in DOMAIN merged
       /\ \A g \in TakenIn(block') : block'[g].size = merged[g].size
  <2> DEFINE p == merged[h].prev
  <2>1. CASE ~ (p # Null /\ merged[p].is_free)
    BY <1>7, <2>1 DEF MergePrev, TakenIn
  <2>2. CASE p # Null /\ merged[p].is_free
    <3>1. block' = Absorb(merged, p)
      BY <1>7, <2>2 DEF MergePrev
    <3>2. p \in DOMAIN merged /\ merged[p].next = h /\ h # Null
      BY <1>8, <2>2, Neighbours, HeaderType
    <3>3. \A g \in DOMAIN block' :
            g \in DOMAIN merged /\ (g # p => block'[g].size = merged[g].size)
      BY <1>8, <3>1, <3>2, AbsorbSizes
    <3>4. p \notin TakenIn(block')
      BY <1>5, <1>9, <2>2 DEF TakenIn
    <3> QED
      BY <3>3, <3>4 DEF TakenIn
  <2> QED
    BY <2>1, <2>2
<1>11. Aligned(block')
  BY <1>8, <1>10 DEF Aligned
<1>12. /\ UsedIn(block) = UsedIn(block') \cup {BytesOf(block, h)}
       /\ BytesOf(block, h) \notin UsedIn(block')
  <2>1. \A g \in TakenIn(block') : block[g].size = block'[g].size
    BY <1>5, <1>8, <1>10 DEF TakenIn
  <2>2. TakenIn(block) = TakenIn(block') \cup {h} /\ h \notin TakenIn(block')
    BY <1>1, <1>5
  <2> QED
    BY <1>5, <2>1, <2>2, OneMoreTaken
<1> QED
  BY <1>1, <1>11, <1>12, BlocksNow

-----------------------------------------------------------------------------
(***************************************************************************)
(* The peak of a bucket: no more of its blocks were ever in use than its   *)
(* cut pages hold, and fewer would not have needed the last one.           *)
(***************************************************************************)
BlocksCut(info, b) == Cardinality(CutIn(info, b)) * BlocksPerPage(b)

BusyIn(info, lists, b) == BlocksCut(info, b) - Len(lists[b])

PeakRight(info, lists, top) ==
  \A b \in Bucket : /\ top[b] \in Nat
                    /\ BusyIn(info, lists, b) <= top[b]
                    /\ top[b] <= BlocksCut(info, b)
                    /\ BlocksCut(info, b) < top[b] + BlocksPerPage(b)

Noted(top2, info2, lists2, top) ==
  \A b \in Bucket : top2[b] = IF BusyIn(info2, lists2, b) > top[b]
                              THEN BusyIn(info2, lists2, b) ELSE top[b]

\* The pages cut for a bucket can be counted.
LEMMA CutCount ==
  ASSUME NEW info, NEW b \in Bucket
  PROVE  /\ IsFiniteSet(CutIn(info, b)) /\ Cardinality(CutIn(info, b)) \in Nat
         /\ BlocksPerPage(b) \in Nat \ {0}
         /\ BlocksCut(info, b) \in Nat
<1>1. PageCount \in Nat /\ Page = 0 .. PageCount - 1 /\ 0 \in Page
  BY PageSums DEF Page
<1>2. IsFiniteSet(Page)
  BY <1>1, FS_Interval
<1>3. CutIn(info, b) \subseteq Page
  BY DEF CutIn, Cut
<1>4. IsFiniteSet(CutIn(info, b)) /\ Cardinality(CutIn(info, b)) \in Nat
  BY <1>2, <1>3, FS_Subset, FS_CardinalityType
<1>5. BlocksPerPage(b) \in Nat \ {0}
  BY <1>1, BlockPlaces DEF BlocksPerPage
<1>6. \A x, y \in Nat : x * y \in Nat
  OBVIOUS
<1> QED
  BY <1>4, <1>5, <1>6 DEF BlocksCut

\* A request, whether a page is cut for it or not.
LEMMA PeakNoted ==
  ASSUME NEW info, NEW lists, NEW top, PeakRight(info, lists, top),
         NEW info2, NEW lists2, NEW top2, Noted(top2, info2, lists2, top),
         \A b \in Bucket : Len(lists2[b]) \in Nat,
         \/ CutsKept(info2, info)
         \/ \E b \in Bucket : OneMoreCut(info2, lists2, info, lists, b)
  PROVE  PeakRight(info2, lists2, top2)
<1> SUFFICES ASSUME NEW b \in Bucket
             PROVE  /\ top2[b] \in Nat
                    /\ BusyIn(info2, lists2, b) <= top2[b]
                    /\ top2[b] <= BlocksCut(info2, b)
                    /\ BlocksCut(info2, b) < top2[b] + BlocksPerPage(b)
  BY DEF PeakRight
<1>1. /\ BlocksPerPage(b) \in Nat \ {0}
      /\ BlocksCut(info, b) \in Nat /\ BlocksCut(info2, b) \in Nat
  BY CutCount
<1>2. /\ top[b] \in Nat /\ BusyIn(info, lists, b) <= top[b]
      /\ top[b] <= BlocksCut(info, b)
      /\ BlocksCut(info, b) < top[b] + BlocksPerPage(b)
  BY DEF PeakRight
<1>3. /\ top2[b] = IF BusyIn(info2, lists2, b) > top[b]
                   THEN BusyIn(info2, lists2, b) ELSE top[b]
      /\ BusyIn(info2, lists2, b) = BlocksCut(info2, b) - Len(lists2[b])
      /\ Len(lists2[b]) \in Nat
  BY DEF Noted, BusyIn
<1>4. ASSUME CutIn(info2, b) = CutIn(info, b)
      PROVE  /\ top2[b] \in Nat
             /\ BusyIn(info2, lists2, b) <= top2[b]
             /\ top2[b] <= BlocksCut(info2, b)
             /\ BlocksCut(info2, b) < top2[b] + BlocksPerPage(b)
  <2>1. BlocksCut(info2, b) = BlocksCut(info, b)
    BY <1>4 DEF BlocksCut
  <2> QED
    BY ONLY <1>1, <1>2, <1>3, <2>1
<1>5. ASSUME OneMoreCut(info2, lists2, info, lists, b)
      PROVE  /\ top2[b] \in Nat
             /\ BusyIn(info2, lists2, b) <= top2[b]
             /\ top2[b] <= BlocksCut(info2, b)
             /\ BlocksCut(info2, b) < top2[b] + BlocksPerPage(b)
  <2>1. PICK p \in Page :
          p \notin CutIn(info, b) /\ CutIn(info2, b) = CutIn(info, b) \cup {p}
    BY <1>5 DEF OneMoreCut
  <2>2. Cardinality(CutIn(info2, b)) = Cardinality(CutIn(info, b)) + 1
    BY <2>1, CutCount, FS_AddElement
  <2>3. BlocksCut(info2, b) = BlocksCut(info, b) + BlocksPerPage(b)
    <3>1. \A x, y \in Nat : (x + 1) * y = x * y + y
      OBVIOUS
    <3>2. Cardinality(CutIn(info, b)) \in Nat
      BY CutCount
    <3> QED
      BY <1>1, <2>2, <3>1, <3>2 DEF BlocksCut
  <2>4. lists[b] = <<>> /\ Len(lists2[b]) = BlocksPerPage(b) - 1
    BY <1>5 DEF OneMoreCut
  <2>5. BusyIn(info, lists, b) = BlocksCut(info, b)
    BY <1>1, <2>4 DEF BusyIn
  <2> QED
    BY ONLY <1>1, <1>2, <1>3, <2>3, <2>4, <2>5
<1>6. CutIn(info2, b) = CutIn(info, b) \/ OneMoreCut(info2, lists2, info, lists, b)
  <2>1. ASSUME NEW c \in Bucket, OneMoreCut(info2, lists2, info, lists, c), c # b
        PROVE  CutIn(info2, b) = CutIn(info, b)
    BY <2>1 DEF OneMoreCut
  <2> QED
    BY <2>1 DEF CutsKept
<1> QED
  BY <1>4, <1>5, <1>6

\* A free adds to the lists and cuts nothing.
LEMMA PeakStays ==
  ASSUME NEW info, NEW lists, NEW top, PeakRight(info, lists, top),
         NEW info2, NEW lists2, CutsKept(info2, info),
         \A b \in Bucket : /\ Len(lists[b]) \in Nat /\ Len(lists2[b]) \in Nat
                           /\ Len(lists2[b]) >= Len(lists[b])
  PROVE  PeakRight(info2, lists2, top)
<1> SUFFICES ASSUME NEW b \in Bucket
             PROVE  /\ top[b] \in Nat
                    /\ BusyIn(info2, lists2, b) <= top[b]
                    /\ top[b] <= BlocksCut(info2, b)
                    /\ BlocksCut(info2, b) < top[b] + BlocksPerPage(b)
  BY DEF PeakRight
<1>1. BlocksCut(info, b) \in Nat
  BY CutCount
<1>2. BlocksCut(info2, b) = BlocksCut(info, b)
  BY DEF CutsKept, BlocksCut
<1>3. /\ top[b] \in Nat /\ BusyIn(info, lists, b) <= top[b]
      /\ top[b] <= BlocksCut(info, b)
      /\ BlocksCut(info, b) < top[b] + BlocksPerPage(b)
  BY DEF PeakRight
<1>4. BusyIn(info2, lists2, b) <= BusyIn(info, lists, b)
  BY <1>1, <1>2 DEF BusyIn
<1>5. BusyIn(info2, lists2, b) \in Int /\ BusyIn(info, lists, b) \in Int
  BY <1>1, <1>2 DEF BusyIn
<1> QED
  BY <1>2, <1>3, <1>4, <1>5

\* A new allocator: nothing is cut and nothing was in use.
LEMMA FreshPeak == PeakRight(FreshPageInfo, FreshLists, NoPeak)
<1> SUFFICES ASSUME NEW b \in Bucket
             PROVE  /\ NoPeak[b] \in Nat
                    /\ BusyIn(FreshPageInfo, FreshLists, b) <= NoPeak[b]
                    /\ NoPeak[b] <= BlocksCut(FreshPageInfo, b)
                    /\ BlocksCut(FreshPageInfo, b) < NoPeak[b] + BlocksPerPage(b)
  BY DEF PeakRight
<1>1. CutIn(FreshPageInfo, b) = {}
  BY DEF CutIn, Cut, FreshPageInfo
<1>2. BlocksPerPage(b) \in Nat \ {0}
  BY CutCount
<1>3. BlocksCut(FreshPageInfo, b) = 0
  BY <1>1, <1>2, FS_EmptySet DEF BlocksCut
<1>4. Len(FreshLists[b]) = 0 /\ NoPeak[b] = 0
  BY DEF FreshLists, NoPeak
<1> QED
  BY <1>2, <1>3, <1>4 DEF BusyIn

-----------------------------------------------------------------------------
(***************************************************************************)
(* What a caller holds, and what is in use.                                *)
(***************************************************************************)
Holding(held, used) ==
  /\ held \subseteq [ptr : Nat \ {Null}, size : Sizes]
  /\ \A a \in held : \E u \in used : u.ptr = a.ptr /\ a.size <= u.size
  /\ \A u \in used : \E a \in held : a.ptr = u.ptr
  /\ \A a, b \in held : a.ptr = b.ptr => a = b

\* A request that was met: the caller holds the new block too.
LEMMA HoldsMore ==
  ASSUME NEW held, NEW used, NEW used2, Holding(held, used), Sound(used2),
         NEW size \in Sizes, NEW ptr, Given(used2, used, size, ptr)
  PROVE  Holding(held \cup {[ptr |-> ptr, size |-> size]}, used2)
<1>1. PICK u : u \notin used /\ used2 = used \cup {u} /\ u.ptr = ptr /\ size <= u.size
  BY DEF Given
<1> DEFINE new == [ptr |-> ptr, size |-> size]
<1>2. u.ptr \in Nat \ {Null}
  BY <1>1 DEF Sound
<1>3. new.ptr = ptr /\ new.size = size /\ new \in [ptr : Nat \ {Null}, size : Sizes]
  BY <1>1, <1>2
<1> HIDE DEF new
<1>4. \A a \in held : a.ptr # ptr
  <2> SUFFICES ASSUME NEW a \in held, a.ptr = ptr
               PROVE  FALSE
    OBVIOUS
  <2>1. PICK v \in used : v.ptr = a.ptr
    BY DEF Holding
  <2>2. v = u
    BY <1>1, <2>1, OnePointer
  <2> QED
    BY <1>1, <2>2
<1>5. Holding(held \cup {new}, used2)
  <2>1. held \cup {new} \subseteq [ptr : Nat \ {Null}, size : Sizes]
    BY <1>3 DEF Holding
  <2>2. \A a \in held \cup {new} : \E v \in used2 : v.ptr = a.ptr /\ a.size <= v.size
    BY <1>1, <1>3 DEF Holding
  <2>3. \A v \in used2 : \E a \in held \cup {new} : a.ptr = v.ptr
    BY <1>1, <1>3 DEF Holding
  <2>4. \A a, b \in held \cup {new} : a.ptr = b.ptr => a = b
    BY <1>3, <1>4 DEF Holding
  <2> QED
    BY <2>1, <2>2, <2>3, <2>4 DEF Holding
<1> QED
  BY <1>5 DEF new

\* A free: the caller holds one block less.
LEMMA HoldsLess ==
  ASSUME NEW held, NEW used, Holding(held, used), Sound(used),
         NEW a \in held, NEW u \in used, u.ptr = a.ptr
  PROVE  Holding(held \ {a}, used \ {u})
<1>1. held \ {a} \subseteq [ptr : Nat \ {Null}, size : Sizes]
  BY DEF Holding
<1>2. \A b \in held \ {a} : \E v \in used \ {u} : v.ptr = b.ptr /\ b.size <= v.size
  BY DEF Holding
<1>3. \A v \in used \ {u} : \E b \in held \ {a} : b.ptr = v.ptr
  BY OnePointer DEF Holding
<1>4. \A b, c \in held \ {a} : b.ptr = c.ptr => b = c
  BY DEF Holding
<1> QED
  BY <1>1, <1>2, <1>3, <1>4 DEF Holding

-----------------------------------------------------------------------------
(***************************************************************************)
(* The inductive invariant of both allocators and their caller.            *)
(***************************************************************************)
BestFitInv ==
  /\ Aligned(block)
  /\ freelistarr = Gone /\ free_page_info = Gone /\ page_info = Gone

McKusickInv ==
  /\ block = Gone
  /\ Paged /\ PeakRight(page_info, freelistarr, peak)

Inv ==
  /\ BlocksInv
  /\ left \in Nat /\ peak \in [Bucket -> Nat]
  /\ \/ allocator = "BestFit" /\ BestFitInv
     \/ allocator = "McKusick" /\ McKusickInv
  /\ Holding(active, InUse)

\* A test asks for sizes of the programs, of one of the two allocators.
LEMMA PlanSizes ==
  ASSUME NEW p \in Program
  PROVE  \A t \in 1 .. Len(Plan(p)) :
           /\ Plan(p)[t].sizes \subseteq Sizes
           /\ Plan(p)[t].allocator \in {"BestFit", "McKusick"}
<1>1. CASE p = "usage_factor"
  <2>1. Plan(p) = UsagePlan
    BY <1>1 DEF Plan
  <2> QED
    BY <2>1 DEF UsagePlan, Test, Sizes
<1>2. CASE p = "cock"
  <2>1. Plan(p) = TimingPlan
    BY <1>2 DEF Plan
  <2> QED
    BY <2>1 DEF TimingPlan, Test, Sizes
<1>3. CASE p = "client"
  <2>1. Plan(p) = ClientPlan
    BY <1>3 DEF Plan
  <2> QED
    BY <2>1 DEF ClientPlan, Test, Sizes
<1> QED
  BY <1>1, <1>2, <1>3 DEF Program

\* So does the one that runs.
LEMMA SizesOfTest ==
  ASSUME InPlan
  PROVE  Current.sizes \subseteq Sizes /\ Sizes \subseteq Nat \ {0, 1}
BY PlanSizes, BenchmarkAssumption DEF InPlan, Current

\* What InUse stands for.
LEMMA WhichInUse ==
  /\ allocator = "BestFit" => InUse = UsedIn(block)
  /\ allocator = "McKusick" => InUse = InUseIn(freelistarr, page_info)
  /\ allocator' = "BestFit" => InUse' = UsedIn(block')
  /\ allocator' = "McKusick" => InUse' = InUseIn(freelistarr', page_info')
<1>1. /\ allocator = "BestFit" => InUse = BestFitInUse
      /\ allocator = "McKusick" => InUse = McKusickInUse
      /\ allocator' = "BestFit" => InUse' = BestFitInUse'
      /\ allocator' = "McKusick" => InUse' = McKusickInUse'
  BY DEF InUse
<1> QED
  BY <1>1, BlocksNow, InUseNow

\* By the invariant what is in use is sound.
LEMMA SoundInUse == Inv => Sound(InUse)
<1> SUFFICES ASSUME Inv
             PROVE  Sound(InUse)
  OBVIOUS
<1>1. CASE allocator = "BestFit" /\ BestFitInv
  BY <1>1, SoundBlocks, WhichInUse DEF Inv, BlocksInv, BestFitInv
<1>2. CASE allocator = "McKusick" /\ McKusickInv
  BY <1>2, SoundPages, WhichInUse DEF McKusickInv, Paged
<1> QED
  BY <1>1, <1>2 DEF Inv

-----------------------------------------------------------------------------
(***************************************************************************)
(* The invariant holds at first, and every step preserves it; with it goes *)
(* what the step does to the blocks in use.                                *)
(***************************************************************************)
LEMMA FreshInv ==
  ASSUME NEW which \in {"BestFit", "McKusick"},
         NEW blk, NEW lists, NEW pages, NEW info,
         Construct(which, blk, lists, pages, info)
  PROVE  /\ which = "BestFit" =>
              /\ Aligned(blk) /\ UsedIn(blk) = {}
              /\ lists = Gone /\ pages = Gone /\ info = Gone
         /\ which = "McKusick" =>
              /\ blk = Gone /\ WellPaged(lists, pages, info)
              /\ PeakRight(info, lists, NoPeak) /\ InUseIn(lists, info) = {}
<1>1. CASE which = "BestFit"
  BY <1>1, FreshAligned DEF Construct
<1>2. CASE which = "McKusick"
  BY <1>2, FreshPaged, FreshPeak DEF Construct
<1> QED
  BY <1>1, <1>2

\* There are no peaks yet,
LEMMA PeakType == NoPeak \in [Bucket -> Nat]
BY DEF NoPeak

\* and the caller holds nothing.
LEMMA HoldsNothing == Holding({}, {})
BY DEF Holding

\* The first test begins.
LEMMA InitAll == Init => Inv /\ InUse = {}
<1> SUFFICES ASSUME Init
             PROVE  Inv /\ InUse = {}
  OBVIOUS
<1>1. BlocksInv
  BY InitInv
<1>2. allocator \in {"BestFit", "McKusick"}
  BY <1>1, PlanSizes DEF BlocksInv, InPlan, allocator, Current
<1>3. /\ Construct(allocator, block, freelistarr, free_page_info, page_info)
      /\ peak = NoPeak /\ active = {} /\ left = Operations /\ left \in Nat
  BY BenchmarkAssumption DEF Init
<1>4. \/ allocator = "BestFit" /\ BestFitInv
      \/ allocator = "McKusick" /\ McKusickInv
  BY <1>2, <1>3, FreshInv DEF BestFitInv, McKusickInv, Paged
<1>5. InUse = {}
  BY <1>2, <1>3, FreshInv, WhichInUse
<1> QED
  BY <1>1, <1>3, <1>4, <1>5, PeakType, HoldsNothing DEF Inv

\* The caller asks for memory.
LEMMA AskStep ==
  ASSUME Inv, NEW size \in Current.sizes, NEW ptr, Ask(size, ptr)
  PROVE  /\ Inv' /\ Sound(InUse')
         /\ InUse' = InUse \/ Given(InUse', InUse, size, ptr)
<1>1. BlocksInv /\ BlocksInv'
  BY AskInv DEF Inv
<1>2. size \in Sizes /\ size \in Nat \ {0}
  BY <1>1, SizesOfTest DEF BlocksInv
<1>3. allocator' = allocator /\ left' \in Nat
  BY DEF Ask, allocator, Current, Inv
<1>4. ASSUME allocator = "BestFit", BestFitInv
      PROVE  /\ BestFitInv' /\ peak' = peak /\ Sound(InUse')
             /\ \/ ptr = Null /\ InUse' = InUse
                \/ ptr # Null /\ Given(InUse', InUse, size, ptr)
  <2>1. /\ BestFitAlloc(size, ptr) /\ peak' = peak
        /\ freelistarr' = freelistarr /\ free_page_info' = free_page_info
        /\ page_info' = page_info
    BY <1>4 DEF Ask, mcKusickVars
  <2>2. WellFormed(block) /\ FreeApart(block) /\ WellFormed(block')
    BY <1>1, <1>3, <1>4 DEF BlocksInv
  <2>3. /\ Aligned(block')
        /\ \/ ptr = Null /\ UNCHANGED block
           \/ ptr # Null /\ Given(BestFitInUse', BestFitInUse, size, ptr)
    BY <1>2, <1>4, <2>1, <2>2, BestFitAllocStep DEF BestFitInv
  <2>4. BestFitInv'
    BY <1>4, <2>1, <2>3 DEF BestFitInv
  <2>5. /\ InUse = UsedIn(block) /\ InUse' = UsedIn(block')
        /\ InUse = BestFitInUse /\ InUse' = BestFitInUse'
    BY <1>3, <1>4, WhichInUse, BlocksNow
  <2>6. Sound(InUse')
    BY <2>2, <2>3, <2>5, SoundBlocks
  <2> QED
    BY <2>1, <2>3, <2>4, <2>5, <2>6
<1>5. ASSUME allocator = "McKusick", McKusickInv
      PROVE  /\ McKusickInv' /\ peak' \in [Bucket -> Nat] /\ Sound(InUse')
             /\ \/ ptr = Null /\ InUse' = InUse
                \/ ptr # Null /\ Given(InUse', InUse, size, ptr)
  <2>1. McKusickAlloc(size, ptr) /\ block' = block /\ NotePeak
    BY <1>5 DEF Ask
  <2>2. Paged /\ PeakRight(page_info, freelistarr, peak) /\ block = Gone
    BY <1>5 DEF McKusickInv
  <2>3. /\ Paged'
        /\ \/ ptr = Null /\ UNCHANGED mcKusickVars
           \/ /\ ptr # Null
              /\ Given(McKusickInUse', McKusickInUse, size, ptr)
              /\ \/ CutsKept(page_info', page_info)
                 \/ \E b \in Bucket :
                      OneMoreCut(page_info', freelistarr', page_info, freelistarr, b)
    BY <1>2, <2>1, <2>2, McKusickAllocStep
  <2>4. /\ InUse = McKusickInUse /\ InUse' = McKusickInUse'
        /\ InUse = InUseIn(freelistarr, page_info)
        /\ InUse' = InUseIn(freelistarr', page_info')
    BY <1>3, <1>5, WhichInUse, InUseNow
  <2>5. \/ CutsKept(page_info', page_info)
        \/ \E b \in Bucket :
             OneMoreCut(page_info', freelistarr', page_info, freelistarr, b)
    BY <2>3 DEF CutsKept, mcKusickVars
  <2>6. peak' = [b \in Bucket |-> IF Busy(b)' > peak[b] THEN Busy(b)' ELSE peak[b]]
    BY <2>1 DEF NotePeak
  <2>7. \A b \in Bucket : Busy(b)' = BusyIn(page_info', freelistarr', b)
    BY CutNow DEF Busy, BusyIn, BlocksCut
  <2>8. Noted(peak', page_info', freelistarr', peak)
    BY <2>6, <2>7 DEF Noted
  <2>9. \A b \in Bucket : Len(freelistarr'[b]) \in Nat
    BY <2>3 DEF Paged, WellPaged, PageTypes
  <2>10. PeakRight(page_info', freelistarr', peak')
    BY <2>2, <2>5, <2>8, <2>9, PeakNoted
  <2>11. peak' \in [Bucket -> Nat]
    <3>1. \A b \in Bucket : peak'[b] \in Nat
      BY <2>10 DEF PeakRight
    <3> QED
      BY <2>6, <3>1
  <2>12. McKusickInv'
    BY <2>1, <2>2, <2>3, <2>10 DEF McKusickInv
  <2>13. Sound(InUse')
    BY <2>3, <2>4, SoundPages DEF Paged
  <2> QED
    BY <2>3, <2>4, <2>11, <2>12, <2>13 DEF mcKusickVars
<1>6. /\ \/ allocator' = "BestFit" /\ BestFitInv'
         \/ allocator' = "McKusick" /\ McKusickInv'
      /\ peak' \in [Bucket -> Nat] /\ Sound(InUse')
      /\ \/ ptr = Null /\ InUse' = InUse
         \/ ptr # Null /\ Given(InUse', InUse, size, ptr)
  BY <1>3, <1>4, <1>5 DEF Inv
<1>7. Holding(active', InUse')
  <2>1. Holding(active, InUse)
    BY DEF Inv
  <2>2. CASE ptr = Null
    BY <1>6, <2>1, <2>2 DEF Ask, Remember
  <2>3. CASE ptr # Null
    BY <1>2, <1>6, <2>1, <2>3, HoldsMore DEF Ask, Remember
  <2> QED
    BY <2>2, <2>3
<1> QED
  BY <1>1, <1>3, <1>6, <1>7 DEF Inv

\* The caller frees a block.
LEMMA FreeStep ==
  ASSUME Inv, NEW a \in active, Free(a), left' \in Nat
  PROVE  Inv' /\ \E u \in InUse : InUse' = InUse \ {u}
<1>1. BlocksInv /\ BlocksInv'
  BY FreeInv DEF Inv
<1>2. allocator' = allocator /\ peak' = peak /\ active' = active \ {a}
  BY DEF Free, allocator, Current
<1>3. Holding(active, InUse) /\ Sound(InUse)
  BY SoundInUse DEF Inv
<1>4. PICK u \in InUse : u.ptr = a.ptr
  BY <1>3 DEF Holding
<1>5. ASSUME allocator = "BestFit", BestFitInv
      PROVE  BestFitInv' /\ InUse' = InUse \ {u}
  <2>1. /\ BestFitFree(u.ptr)
        /\ freelistarr' = freelistarr /\ free_page_info' = free_page_info
        /\ page_info' = page_info
    BY <1>4, <1>5 DEF Free, mcKusickVars
  <2>2. WellFormed(block) /\ FreeApart(block)
    BY <1>1, <1>5 DEF BlocksInv
  <2>3. InUse = BestFitInUse /\ InUse' = BestFitInUse'
    BY <1>2, <1>5, WhichInUse, BlocksNow
  <2>4. Aligned(block') /\ BestFitInUse' = BestFitInUse \ {u}
    BY <1>5, <2>1, <2>2, <2>3, BestFitFreeStep DEF BestFitInv
  <2> QED
    BY <1>5, <2>1, <2>3, <2>4 DEF BestFitInv
<1>6. ASSUME allocator = "McKusick", McKusickInv
      PROVE  McKusickInv' /\ InUse' = InUse \ {u}
  <2>1. McKusickFree(u.ptr) /\ block' = block
    BY <1>4, <1>6 DEF Free
  <2>2. Paged /\ PeakRight(page_info, freelistarr, peak) /\ block = Gone
    BY <1>6 DEF McKusickInv
  <2>3. InUse = McKusickInUse /\ InUse' = McKusickInUse'
    BY <1>2, <1>6, WhichInUse, InUseNow
  <2>4. /\ Paged' /\ McKusickInUse' = McKusickInUse \ {u}
        /\ CutsKept(page_info', page_info)
        /\ \A b \in Bucket : Len(freelistarr'[b]) >= Len(freelistarr[b])
    BY <2>1, <2>2, <2>3, McKusickFreeStep
  <2>5. \A b \in Bucket : Len(freelistarr[b]) \in Nat /\ Len(freelistarr'[b]) \in Nat
    BY <2>2, <2>4 DEF Paged, WellPaged, PageTypes
  <2>6. PeakRight(page_info', freelistarr', peak)
    BY <2>2, <2>4, <2>5, PeakStays
  <2> QED
    BY <1>2, <2>1, <2>2, <2>3, <2>4, <2>6 DEF McKusickInv
<1>7. /\ \/ allocator' = "BestFit" /\ BestFitInv'
         \/ allocator' = "McKusick" /\ McKusickInv'
      /\ InUse' = InUse \ {u}
  BY <1>2, <1>5, <1>6 DEF Inv
<1>8. Holding(active', InUse')
  BY <1>2, <1>3, <1>4, <1>7, HoldsLess
<1> QED
  BY <1>1, <1>2, <1>7, <1>8 DEF Inv

\* The next test begins, with the same allocator or a new one.
LEMMA NextTestStep ==
  ASSUME Inv, NextTest
  PROVE  Inv' /\ InUse' = InUse
<1>1. BlocksInv /\ BlocksInv'
  BY NextTestInv DEF Inv
<1>2. active = {} /\ active' = {} /\ left' \in Nat
  BY BenchmarkAssumption DEF NextTest
<1>3. InUse = {}
  BY <1>2 DEF Inv, Holding
<1>4. Current' = Plan(program)[test + 1] /\ program' = program /\ test' = test + 1
  BY DEF NextTest, Current
<1>5. allocator' \in {"BestFit", "McKusick"}
  BY <1>1, PlanSizes DEF BlocksInv, InPlan, allocator, Current
<1>6. ASSUME Plan(program)[test + 1].fresh
      PROVE  /\ \/ allocator' = "BestFit" /\ BestFitInv'
                \/ allocator' = "McKusick" /\ McKusickInv'
             /\ peak' \in [Bucket -> Nat] /\ InUse' = {}
  <2>1. /\ Construct(allocator', block', freelistarr', free_page_info', page_info')
        /\ peak' = NoPeak
    BY <1>4, <1>6 DEF NextTest, allocator
  <2>2. /\ allocator' = "BestFit" =>
             /\ Aligned(block') /\ UsedIn(block') = {}
             /\ freelistarr' = Gone /\ free_page_info' = Gone /\ page_info' = Gone
        /\ allocator' = "McKusick" =>
             /\ block' = Gone /\ WellPaged(freelistarr', free_page_info', page_info')
             /\ PeakRight(page_info', freelistarr', NoPeak)
             /\ InUseIn(freelistarr', page_info') = {}
    BY ONLY <1>5, <2>1, FreshInv
  <2>3. \/ allocator' = "BestFit" /\ BestFitInv'
        \/ allocator' = "McKusick" /\ McKusickInv'
    BY <1>5, <2>1, <2>2 DEF BestFitInv, McKusickInv, Paged, Gone
  <2>4. InUse' = {}
    BY <1>5, <2>2, WhichInUse
  <2> QED
    BY <2>1, <2>3, <2>4, PeakType
<1>7. ASSUME ~ Plan(program)[test + 1].fresh
      PROVE  /\ \/ allocator' = "BestFit" /\ BestFitInv'
                \/ allocator' = "McKusick" /\ McKusickInv'
             /\ peak' \in [Bucket -> Nat] /\ InUse' = {}
  <2>1. /\ block' = block /\ peak' = peak /\ freelistarr' = freelistarr
        /\ free_page_info' = free_page_info /\ page_info' = page_info
    BY <1>7 DEF NextTest, mcKusickVars
  <2>2. allocator' = allocator
    <3>1. program \in Program /\ test \in 1 .. Len(Plan(program))
      BY <1>1 DEF BlocksInv, InPlan
    <3>2. test + 1 \in 1 .. Len(Plan(program)) /\ test + 1 > 1 /\ test + 1 - 1 = test
      BY <3>1, PlanFacts DEF NextTest
    <3>3. Plan(program)[test + 1].allocator = Plan(program)[test].allocator
      BY <1>7, <3>1, <3>2, PlanFacts
    <3> QED
      BY <1>4, <3>3 DEF allocator, Current
  <2>3. \/ allocator' = "BestFit" /\ BestFitInv'
        \/ allocator' = "McKusick" /\ McKusickInv'
    <3>1. BestFitInv => BestFitInv'
      BY <2>1 DEF BestFitInv, Gone
    <3>2. McKusickInv => McKusickInv'
      BY <2>1 DEF McKusickInv, Paged, Gone
    <3> QED
      BY <2>2, <3>1, <3>2 DEF Inv
  <2>4. InUse' = InUse
    BY <2>1, <2>2, <2>3, WhichInUse DEF Inv
  <2> QED
    BY <1>3, <2>1, <2>3, <2>4 DEF Inv
<1>8. Holding(active', InUse')
  BY <1>2, <1>6, <1>7, HoldsNothing
<1> QED
  BY <1>1, <1>2, <1>3, <1>6, <1>7, <1>8 DEF Inv

\* Nothing happens.
LEMMA IdleStep ==
  ASSUME Inv, UNCHANGED vars
  PROVE  Inv' /\ InUse' = InUse
<1>1. BlocksInv /\ BlocksInv'
  BY NextInv DEF Inv
<1>2. /\ program' = program /\ test' = test /\ left' = left /\ active' = active
      /\ peak' = peak /\ block' = block /\ freelistarr' = freelistarr
      /\ free_page_info' = free_page_info /\ page_info' = page_info
  BY DEF vars, mcKusickVars
<1>3. allocator' = allocator
  BY <1>2 DEF allocator, Current
<1>4. /\ BestFitInv => BestFitInv'
      /\ McKusickInv => McKusickInv'
  BY <1>2 DEF BestFitInv, McKusickInv, Paged, Gone
<1>5. \/ allocator' = "BestFit" /\ BestFitInv'
      \/ allocator' = "McKusick" /\ McKusickInv'
  BY <1>3, <1>4 DEF Inv
<1>6. InUse' = InUse
  BY <1>2, <1>3, <1>5, WhichInUse
<1> QED
  BY <1>1, <1>2, <1>5, <1>6 DEF Inv

\* Any step.
LEMMA NextAll == Inv /\ [Next]_vars => Inv'
<1> SUFFICES ASSUME Inv, [Next]_vars
             PROVE  Inv'
  OBVIOUS
<1>1. ASSUME NEW size \in Current.sizes, NEW ptr \in Pointers, Ask(size, ptr)
      PROVE  Inv'
  BY <1>1, AskStep
<1>2. ASSUME NEW a \in active, FreeOne(a) \/ FreeRest(a)
      PROVE  Inv'
  <2>1. Free(a) /\ left' \in Nat
    BY <1>2 DEF FreeOne, FreeRest, Inv
  <2> QED
    BY <2>1, FreeStep
<1>3. CASE NextTest
  BY <1>3, NextTestStep
<1>4. CASE UNCHANGED vars
  BY <1>4, IdleStep
<1> QED
  BY <1>1, <1>2, <1>3, <1>4 DEF Next

\* So the invariant always holds.
LEMMA AlwaysInv == Spec => []Inv
BY InitAll, NextAll, PTL DEF Spec

-----------------------------------------------------------------------------
(***************************************************************************)
(* The variables have their types, those of the allocator that is not      *)
(* there included (both classes; usage_factor.cpp, cock.cpp).              *)
(***************************************************************************)
THEOREM TypeCorrect == Spec => []TypeOK
<1>1. ASSUME Inv
      PROVE  TypeOK
  <2>1. /\ program \in Program /\ test \in 1 .. Len(Plan(program))
        /\ left \in Nat /\ peak \in [Bucket -> Nat]
        /\ active \subseteq [ptr : Nat \ {Null}, size : Sizes]
    BY <1>1 DEF Inv, BlocksInv, InPlan, Holding
  <2>2. CASE allocator = "BestFit" /\ BestFitInv
    <3>1. /\ DOMAIN block \subseteq Nat \ {Null}
          /\ \A h \in DOMAIN block : block[h] \in BlockHeader
      BY <1>1, <2>2 DEF Inv, BlocksInv, WellFormed
    <3> QED
      BY <2>1, <2>2, <3>1 DEF BestFitInv, TypeOK
  <2>3. CASE allocator = "McKusick" /\ McKusickInv
    <3>1. /\ block = Gone
          /\ freelistarr \in [Bucket -> Seq(Nat \ {Null})]
          /\ free_page_info \in Seq(Page) /\ page_info \in [Page -> PageInfo]
      BY <2>3 DEF McKusickInv, Paged, WellPaged, PageTypes
    <3> QED
      BY <2>1, <2>3, <3>1 DEF TypeOK
  <2> QED
    BY <1>1, <2>2, <2>3 DEF Inv
<1> QED
  BY <1>1, AlwaysInv, PTL

(***************************************************************************)
(* Every pointer the caller holds is a block in use of at least the size   *)
(* it asked for, and nothing else is in use (usage_factor.cpp:28-54).  By  *)
(* BenchmarkAssumption nobody asks for one byte: there the code of         *)
(* get_bucket_index (Mckusey-Carels.cpp:42-43) is undefined.               *)
(***************************************************************************)
THEOREM HeldIsInUse == Spec => []ActiveInUse
<1>1. ASSUME Inv
      PROVE  ActiveInUse
  <2>1. Holding(active, InUse)
    BY <1>1 DEF Inv
  <2> QED
    BY ONLY <2>1 DEF Holding, ActiveInUse
<1> QED
  BY <1>1, AlwaysInv, PTL

(***************************************************************************)
(* Every page of McKusickAllocator is free, cut or in one buffer; the list *)
(* of free pages is sorted; a free block is in one list, that of its page  *)
(* (Mckusey-Carels.cpp:54-145, 213-276).                                   *)
(***************************************************************************)
THEOREM PagesAlwaysAccounted == Spec => []PagesAccounted
<1>1. ASSUME Inv, allocator = "McKusick"
      PROVE  /\ WellPaged(freelistarr, free_page_info, page_info)
             /\ CutPages = Cut(page_info) /\ BufferStart = Starts(page_info)
             /\ \A p : BufferPages(p) = Buffer(page_info, p)
  BY <1>1, CutNow DEF Inv, McKusickInv, Paged, BufferPages, Buffer
<1>2. ASSUME Inv, allocator = "McKusick"
      PROVE  LET single == CutPages \cup Range(free_page_info)
             IN  /\ single \cup UNION {BufferPages(s) : s \in BufferStart} = Page
                 /\ CutPages \cap Range(free_page_info) = {}
                 /\ \A s \in BufferStart : BufferPages(s) \cap single = {}
                 /\ \A s, t \in BufferStart :
                      s # t => BufferPages(s) \cap BufferPages(t) = {}
  <2> DEFINE F == Range(free_page_info)
             single == CutPages \cup F
             buffers == UNION {BufferPages(s) : s \in BufferStart}
  <2>1. PagesApart(free_page_info, page_info) /\ PagesKnown(free_page_info, page_info)
        /\ free_page_info \in Seq(Page)
    BY <1>1, <1>2 DEF WellPaged, PageTypes
  <2>2. F \subseteq Page
    <3>1. DOMAIN free_page_info = 1 .. Len(free_page_info)
          /\ \A i \in 1 .. Len(free_page_info) : free_page_info[i] \in Page
      BY <2>1, PageList
    <3> QED
      BY <3>1 DEF Range
  <2>3. \A p : p \in buffers <=> \E s \in BufferStart : p \in BufferPages(s)
    OBVIOUS
  <2> HIDE DEF F, buffers
  <2>4. /\ \A p \in Page : \/ p \in CutPages \/ p \in F
                           \/ \E q \in BufferStart : p \in BufferPages(q)
        /\ CutPages \cap F = {}
        /\ \A q \in BufferStart : /\ BufferPages(q) \cap CutPages = {}
                                  /\ BufferPages(q) \cap F = {}
                                  /\ BufferPages(q) \subseteq Page
        /\ \A q, r \in BufferStart : q # r => BufferPages(q) \cap BufferPages(r) = {}
        /\ CutPages \subseteq Page
    BY <1>1, <1>2, <2>1 DEF PagesApart, PagesKnown, F, Cut
  <2>5. single \cup buffers = Page
    BY ONLY <2>2, <2>3, <2>4
  <2>6. \A s \in BufferStart : BufferPages(s) \cap single = {}
    BY ONLY <2>4
  <2> QED
    BY ONLY <2>4, <2>5, <2>6 DEF F, buffers
<1>3. ASSUME Inv, allocator = "McKusick"
      PROVE  \A i, j \in DOMAIN free_page_info :
               i < j => free_page_info[i] < free_page_info[j]
  <2>1. Sorted(free_page_info) /\ free_page_info \in Seq(Page)
    BY <1>1, <1>3 DEF WellPaged, PageTypes, PagesKnown
  <2> QED
    BY <2>1, PageList DEF Sorted
<1>4. ASSUME Inv, allocator = "McKusick"
      PROVE  \A b \in Bucket :
               /\ IsInjective(freelistarr[b])
               /\ \A a \in Range(freelistarr[b]) :
                    \E p \in CutPages : /\ page_info[p].size = BlockSize(b)
                                        /\ a \in Range(BlocksOf(p, BlockSize(b)))
  <2>1. BlocksListed(freelistarr, page_info) /\ CutPages = Cut(page_info)
    BY <1>1, <1>4 DEF WellPaged
  <2> QED
    BY ONLY <2>1 DEF BlocksListed, Blocks
<1>5. Inv => PagesAccounted
  BY <1>2, <1>3, <1>4 DEF PagesAccounted
<1> QED
  BY <1>5, AlwaysInv, PTL

(***************************************************************************)
(* As many pages are lost to a bucket as its blocks needed at their peak   *)
(* (Mckusey-Carels.cpp:220-233, 257-262).                                  *)
(***************************************************************************)
THEOREM CutPagesAlwaysNeeded == Spec => []CutPagesNeeded
<1>1. ASSUME Inv
      PROVE  CutPagesNeeded
  <2>1. allocator = "McKusick" => PeakRight(page_info, freelistarr, peak)
    BY <1>1 DEF Inv, McKusickInv
  <2>2. \A b \in Bucket : CutFor(b) = CutIn(page_info, b)
    BY CutNow
  <2> QED
    BY <2>1, <2>2 DEF CutPagesNeeded, PeakRight, BlocksCut
<1> QED
  BY <1>1, AlwaysInv, PTL

-----------------------------------------------------------------------------
(***************************************************************************)
(* Requests that are refused.  A gap between taken blocks begins where a   *)
(* free block does, and ends with it: its neighbour is taken.              *)
(***************************************************************************)
LEMMA GapIsFree ==
  ASSUME Inv, allocator = "BestFit", NEW size \in Sizes, Gap(aligned_size(size))
  PROVE  SuitableBlocks(size) # {}
<1> DEFINE n == aligned_size(size)
<1>1. WellFormed(block) /\ FreeApart(block) /\ InUse = UsedIn(block)
  BY WhichInUse DEF Inv, BlocksInv
<1>2. n \in Nat \ {0} /\ HeaderSize \in Nat /\ head \in Nat /\ total_size \in Nat
  BY SizeFacts, BenchmarkAssumption
<1>3. PICK first \in {head} \cup {u.ptr + u.size : u \in InUse} :
        /\ first + n <= head + total_size
        /\ \A u \in InUse : first + n <= u.ptr - HeaderSize \/ u.ptr + u.size <= first
  BY DEF Gap
<1> HIDE DEF n
<1>4. ASSUME NEW h \in DOMAIN block
      PROVE  /\ h \in Nat /\ block[h].size \in Nat \ {0}
             /\ block[h].next = Null => h + block[h].size = head + total_size
             /\ block[h].next # Null => /\ block[h].next \in DOMAIN block
                                        /\ block[h].next = h + block[h].size
  <2>1. h \in Nat /\ block[h].size \in Nat /\ HeaderSize < block[h].size
    BY <1>1, HeaderType DEF WellFormed, Tiled
  <2>2. Linked(block, h)
    BY <1>1 DEF WellFormed, Tiled
  <2> QED
    BY <1>2, <2>1, <2>2 DEF Linked
<1>5. ASSUME NEW h \in TakenIn(block)
      PROVE  /\ h \in DOMAIN block
             /\ BytesOf(block, h) \in InUse
             /\ BytesOf(block, h).ptr - HeaderSize = h
             /\ BytesOf(block, h).ptr + BytesOf(block, h).size = h + block[h].size
  <2>1. h \in DOMAIN block /\ h \in Nat /\ block[h].size \in Nat
    BY <1>4 DEF TakenIn
  <2> QED
    BY <1>1, <1>2, <2>1 DEF BytesOf, UsedIn
<1>6. \A u \in InUse : \E h \in TakenIn(block) : u = BytesOf(block, h)
  BY <1>1 DEF UsedIn
<1>7. \A h \in TakenIn(block) : first + n <= h \/ h + block[h].size <= first
  BY <1>3, <1>5
<1>8. first \in DOMAIN block /\ first \in Nat
  <2>1. CASE first = head
    BY <1>1, <1>2, <2>1 DEF WellFormed, Tiled
  <2>2. CASE \E u \in InUse : first = u.ptr + u.size
    <3>1. PICK h \in TakenIn(block) : first = h + block[h].size
      BY <1>5, <1>6, <2>2
    <3>2. h \in DOMAIN block
      BY <1>5
    <3>3. block[h].next # Null
      BY <1>2, <1>3, <1>4, <3>1, <3>2
    <3> QED
      BY <1>4, <3>1, <3>2, <3>3
  <2> QED
    BY <1>3, <2>1, <2>2
<1>9. block[first].is_free
  <2>1. ASSUME first \in TakenIn(block)
        PROVE  FALSE
    BY <1>2, <1>4, <1>7, <1>8, <2>1
  <2> QED
    BY <1>8, <2>1 DEF TakenIn
<1>10. block[first].size >= n
  <2> SUFFICES ASSUME block[first].size < n
               PROVE  FALSE
    BY <1>2, <1>4, <1>8
  <2> DEFINE g == block[first].next
  <2>1. g # Null
    BY <1>2, <1>3, <1>4, <1>8
  <2>2. g \in DOMAIN block /\ g = first + block[first].size /\ g < first + n
    BY <1>2, <1>4, <1>8, <2>1
  <2>3. g \in TakenIn(block)
    BY <1>1, <1>8, <1>9, <2>1, <2>2 DEF FreeApart, FreePair, TakenIn
  <2> HIDE DEF g
  <2>4. g \in Nat /\ block[g].size \in Nat \ {0} /\ block[first].size \in Nat \ {0}
    BY <1>4, <1>8, <2>2
  <2> QED
    BY <1>2, <1>7, <1>8, <2>2, <2>3, <2>4
<1> QED
  BY <1>8, <1>9, <1>10 DEF SuitableBlocks, n

\* Pages that nothing uses are in the list, and the search finds them there.
LEMMA UnusedIsFree ==
  ASSUME Inv, allocator = "McKusick", NEW size \in Sizes,
         \E p \in Page : \A q \in p .. p + get_required_pages(size) - 1 :
           q \in Page /\ Unused(q)
  PROVE  ~ Exhausted(size)
<1> DEFINE n == get_required_pages(size)
<1>1. PICK p \in Page : \A q \in p .. p + n - 1 : q \in Page /\ Unused(q)
  OBVIOUS
<1>2. /\ WellPaged(freelistarr, free_page_info, page_info)
      /\ CutPages = Cut(page_info) /\ BufferStart = Starts(page_info)
      /\ \A q : BufferPages(q) = Buffer(page_info, q)
  BY CutNow DEF Inv, McKusickInv, Paged, BufferPages, Buffer
<1>3. size \in Nat \ {0} /\ n \in Nat \ {0} /\ (size <= PAGE_SIZE => n = 1)
  BY BenchmarkAssumption, RequiredPages
<1>4. p .. p + n - 1 \subseteq Range(free_page_info)
  <2> SUFFICES ASSUME NEW q \in p .. p + n - 1
               PROVE  q \in Range(free_page_info)
    OBVIOUS
  <2>1. q \in Page /\ Unused(q)
    BY <1>1
  <2> QED
    BY <1>2, <2>1 DEF Unused, WellPaged, PagesApart
<1>5. free_page_info \in Seq(Page) /\ Sorted(free_page_info)
  BY <1>2 DEF WellPaged, PageTypes, PagesKnown
<1>6. RunStarts(n) # {}
  BY <1>3, <1>4, <1>5, RunIsFound
<1>7. free_page_info # <<>>
  <2>1. p \in Nat
    BY PageSums DEF Page
  <2>2. p \in Range(free_page_info)
    BY <1>3, <1>4, <2>1
  <2> QED
    BY <2>2 DEF Range
<1> QED
  BY <1>6, <1>7 DEF Exhausted

(***************************************************************************)
(* A request is refused only if it has to be                               *)
(* (list_of_free_blocks.cpp:58-68, Mckusey-Carels.cpp:71-122, 220-241).    *)
(***************************************************************************)
THEOREM AlwaysRefusedOnlyIfFull == Spec => []RefusedOnlyIfFull
<1>1. Inv => RefusedOnlyIfFull
  <2> SUFFICES ASSUME Inv, NEW size \in Sizes
               PROVE  IF allocator = "BestFit"
                      THEN Gap(aligned_size(size)) => SuitableBlocks(size) # {}
                      ELSE (\E p \in Page :
                              \A q \in p .. p + get_required_pages(size) - 1 :
                                q \in Page /\ Unused(q))
                           => ~ Exhausted(size)
    BY DEF RefusedOnlyIfFull
  <2>1. CASE allocator = "BestFit"
    BY <2>1, GapIsFree
  <2>2. CASE allocator = "McKusick"
    BY <2>2, UnusedIsFree
  <2> QED
    BY <2>1, <2>2 DEF Inv
<1> QED
  BY <1>1, AlwaysInv, PTL

-----------------------------------------------------------------------------
(***************************************************************************)
(* The refinement.                                                         *)
(***************************************************************************)

\* A request that was met is an alloc of Allocator.
LEMMA GivenIsAlloc ==
  ASSUME Sound(InUse'), NEW size, NEW ptr, Given(InUse', InUse, size, ptr)
  PROVE  A!Next
<1>1. PICK u : u \notin InUse /\ InUse' = InUse \cup {u}
  BY DEF Given
<1>2. u \in InUse'
  BY <1>1
<1>3. /\ u.ptr \in Nat \ {Null} /\ u.size \in Nat \ {0} /\ u.ptr % 8 = 0
      /\ memory <= u.ptr
      /\ u.ptr + u.size <= memory + RoundUp(memory_size, PAGE_SIZE)
  BY <1>2 DEF Sound
<1>4. \A v \in InUse : u.ptr + u.size <= v.ptr \/ v.ptr + v.size <= u.ptr
  BY <1>1, <1>2 DEF Sound
<1>5. A!Alloc(u)
  BY <1>1, <1>3, <1>4 DEF A!Alloc, A!Disjoint
<1> QED
  BY <1>2, <1>5 DEF A!Next

(***************************************************************************)
(* Both allocators implement Allocator: an alloc is one of it, or nothing  *)
(* happens to what is in use; a free is one of it; a new test is a stutter *)
(* (list_of_free_blocks.cpp:47-119, Mckusey-Carels.cpp:213-276).           *)
(***************************************************************************)
THEOREM ImplementsAllocator == Spec => AllocatorKept
<1>1. Init => A!Init
  BY InitAll DEF A!Init
<1>2. Inv /\ [Next]_vars => [A!Next]_InUse
  <2> SUFFICES ASSUME Inv, [Next]_vars
               PROVE  [A!Next]_InUse
    OBVIOUS
  <2>1. ASSUME NEW size \in Current.sizes, NEW ptr \in Pointers, Ask(size, ptr)
        PROVE  [A!Next]_InUse
    BY <2>1, AskStep, GivenIsAlloc
  <2>2. ASSUME NEW a \in active, FreeOne(a) \/ FreeRest(a)
        PROVE  [A!Next]_InUse
    <3>1. Free(a) /\ left' \in Nat
      BY <2>2 DEF FreeOne, FreeRest, Inv
    <3>2. PICK u \in InUse : InUse' = InUse \ {u}
      BY <3>1, FreeStep
    <3> QED
      BY <3>2 DEF A!Next, A!Free
  <2>3. CASE NextTest
    BY <2>3, NextTestStep
  <2>4. CASE UNCHANGED vars
    BY <2>4, IdleStep
  <2> QED
    BY <2>1, <2>2, <2>3, <2>4 DEF Next
<1> QED
  BY <1>1, <1>2, AlwaysInv, PTL DEF Spec, AllocatorKept, A!Spec
=============================================================================
