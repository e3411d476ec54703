------------------------------ MODULE Benchmark -------------------------------
(***************************************************************************)
(* CP: the programs that measure the allocators.  main of usage_factor.cpp *)
(* and main of cock.cpp are plans: lists of tests, each of one allocator,  *)
(* which is new or the one of the test before.  A test makes a number of   *)
(* requests; a mixed one also gives blocks back between them; then it      *)
(* frees what it still has.  "client" is what both programs would allow:   *)
(* any size of two bytes or more, in any order.                            *)
(*                                                                         *)
(* Random numbers are any numbers, and what is still in use is a set: the  *)
(* order of the vector only says what is freed first.                      *)
(***************************************************************************)
EXTENDS BestFit, McKusick

CONSTANTS
  RandomSizes, PowerSizes,               \* the sizes of usage_factor.cpp
  SmallSizes, LargeSizes, MixedSizes,    \* the sizes of cock.cpp
  ClientSizes,
  Operations    \* bound on the operations of one test

Sizes == RandomSizes \cup PowerSizes \cup SmallSizes \cup LargeSizes
           \cup MixedSizes \cup ClientSizes

\* Nobody asks for one byte (both programs ask for eight at least): there
\* get_bucket_index is undefined.
ASSUME BenchmarkAssumption ==
  Sizes \subseteq Nat \ {0, 1} /\ Operations \in Nat \ {0}

VARIABLES
  program,   \* which main runs
  test,      \* the test it is in
  left,      \* how many operations the test has left
  active,    \* the allocations not yet freed: [ptr, size]
  peak       \* history: peak[b], the most blocks of bucket b ever in use

vars == <<program, test, left, active, peak, block, mcKusickVars>>

Test(allocator, fresh, mixed, sizes) ==
  [allocator |-> allocator, fresh |-> fresh, mixed |-> mixed, sizes |-> sizes]

UsagePlan ==
  <<Test("McKusick", TRUE,  FALSE, RandomSizes),
    Test("McKusick", FALSE, FALSE, PowerSizes),
    Test("McKusick", TRUE,  TRUE,  RandomSizes),
    Test("BestFit",  TRUE,  FALSE, RandomSizes),
    Test("BestFit",  FALSE, FALSE, PowerSizes),
    Test("BestFit",  TRUE,  TRUE,  RandomSizes)>>

TimingPlan ==
  <<Test("McKusick", TRUE, FALSE, SmallSizes),
    Test("BestFit",  TRUE, FALSE, SmallSizes),
    Test("McKusick", TRUE, FALSE, LargeSizes),
    Test("BestFit",  TRUE, FALSE, LargeSizes),
    Test("McKusick", TRUE, FALSE, MixedSizes),
    Test("BestFit",  TRUE, FALSE, MixedSizes)>>

ClientPlan ==
  <<Test("McKusick", TRUE, TRUE, ClientSizes),
    Test("BestFit",  TRUE, TRUE, ClientSizes)>>

Program == {"usage_factor", "cock", "client"}

Plan(p) == CASE p = "usage_factor" -> UsagePlan
             [] p = "cock"         -> TimingPlan
             [] p = "client"       -> ClientPlan

Current   == Plan(program)[test]
allocator == Current.allocator

\* An allocator that is not there has no blocks and no pages.
Gone == <<>>

Construct(which, blk, lists, pages, info) ==
  IF which = "BestFit"
  THEN blk = FreshBlock /\ lists = Gone /\ pages = Gone /\ info = Gone
  ELSE /\ blk = Gone
       /\ lists = FreshLists /\ pages = FreshPages /\ info = FreshPageInfo

NoPeak == [b \in Bucket |-> 0]

Init ==
  /\ program \in Program
  /\ test = 1
  /\ left = Operations
  /\ active = {}
  /\ peak = NoPeak
  /\ Construct(allocator, block, freelistarr, free_page_info, page_info)

-----------------------------------------------------------------------------
\* if (ptr): only what was given is remembered.
RememberAlways(ptr, size) == active' = active \cup {[ptr |-> ptr, size |-> size]}

Remember(ptr, size) ==
  active' = IF ptr = Null THEN active
            ELSE active \cup {[ptr |-> ptr, size |-> size]}

CutFor(b) == {p \in CutPages : page_info[p].size = BlockSize(b)}

BlocksPerPage(b) == PAGE_SIZE \div BlockSize(b)

\* How many blocks of bucket b are in use.
Busy(b) == Cardinality(CutFor(b)) * BlocksPerPage(b) - Len(freelistarr[b])

NotePeak == peak' = [b \in Bucket |-> IF Busy(b)' > peak[b] THEN Busy(b)'
                                                           ELSE peak[b]]

\* allocator.alloc(size)
Ask(size, ptr) ==
  /\ left > 0 /\ left' = left - 1
  /\ IF allocator = "BestFit"
     THEN BestFitAlloc(size, ptr) /\ UNCHANGED <<mcKusickVars, peak>>
     ELSE McKusickAlloc(size, ptr) /\ UNCHANGED block /\ NotePeak
  /\ Remember(ptr, size)
  /\ UNCHANGED <<program, test>>

Free(a) ==
  /\ active' = active \ {a}
  /\ IF allocator = "BestFit"
     THEN BestFitFree(a.ptr) /\ UNCHANGED mcKusickVars
     ELSE McKusickFree(a.ptr) /\ UNCHANGED block
  /\ UNCHANGED <<program, test, peak>>

\* should_free: a block chosen at random is given back.
FreeOne(a) ==
  /\ Current.mixed /\ left > 0 /\ left' = left - 1
  /\ Free(a)

\* After its operations a test frees the blocks it still has.
FreeRest(a) ==
  /\ left = 0 /\ UNCHANGED left
  /\ Free(a)

NextTest ==
  /\ left = 0 /\ active = {} /\ test < Len(Plan(program))
  /\ test' = test + 1
  /\ left' = Operations
  /\ IF Plan(program)[test + 1].fresh
     THEN /\ Construct(Plan(program)[test + 1].allocator,
                       block', freelistarr', free_page_info', page_info')
          /\ peak' = NoPeak
     ELSE UNCHANGED <<block, mcKusickVars, peak>>
  /\ UNCHANGED <<program, active>>

Pointers ==
  IF allocator = "BestFit" THEN BestFitPointers ELSE McKusickPointers

Next ==
  \/ \E size \in Current.sizes, ptr \in Pointers : Ask(size, ptr)
  \/ \E a \in active : FreeOne(a) \/ FreeRest(a)
  \/ NextTest

Spec == Init /\ [][Next]_vars

-----------------------------------------------------------------------------
(***************************************************************************)
(* Type invariant.                                                         *)
(***************************************************************************)
TypeOK ==
  /\ program \in Program
  /\ test \in 1 .. Len(Plan(program))
  /\ left \in Nat
  /\ peak \in [Bucket -> Nat]
  /\ active \subseteq [ptr : Nat \ {Null}, size : Sizes]
  /\ IF allocator = "BestFit"
     THEN /\ DOMAIN block \subseteq Nat \ {Null}
          /\ \A h \in DOMAIN block : block[h] \in BlockHeader
          /\ freelistarr = Gone /\ free_page_info = Gone /\ page_info = Gone
     ELSE /\ block = Gone
          /\ freelistarr \in [Bucket -> Seq(Nat \ {Null})]
          /\ free_page_info \in Seq(Page)
          /\ page_info \in [Page -> PageInfo]

(***************************************************************************)
(* Both allocators do what Allocator promises.  The blocks in use are read *)
(* off the headers of the one (list_of_free_blocks.cpp:47-119), off pages  *)
(* and free lists of the other (Mckusey-Carels.cpp:213-276): no block is   *)
(* given to two callers whatever was split, merged or freed before, and a  *)
(* test leaves nothing in use when the next one starts.                    *)
(***************************************************************************)
InUse == IF allocator = "BestFit" THEN BestFitInUse ELSE McKusickInUse

A == INSTANCE Allocator WITH
       used <- InUse, From <- memory,
       To <- memory + RoundUp(memory_size, PAGE_SIZE), Align <- 8

AllocatorKept == A!Spec

(***************************************************************************)
(* What the caller has is what is in use: every pointer it holds is a      *)
(* block of at least the size it asked for, two bytes or more, and no      *)
(* block is in use that nobody can free (usage_factor.cpp:28-54).          *)
(***************************************************************************)
ActiveInUse ==
  /\ \A a \in active : \E u \in InUse : u.ptr = a.ptr /\ a.size <= u.size
  /\ {a.ptr : a \in active} = {u.ptr : u \in InUse}

(***************************************************************************)
(* The blocks of BestFitAllocator tile the memory: the links lead from     *)
(* each block to the one where it ends and back, and the last one ends     *)
(* with the memory (list_of_free_blocks.cpp:70-87, 102-118).               *)
(***************************************************************************)
BlocksTile == allocator = "BestFit" => Tiled(block)

(***************************************************************************)
(* No two neighbours are free: merging with both sides on every free is    *)
(* enough, so that memory of which nothing is in use is one block again    *)
(* (list_of_free_blocks.cpp:102-118).                                      *)
(***************************************************************************)
NoFreeNeighbours ==
  allocator = "BestFit" =>
    /\ \A h \in DOMAIN block :
         block[h].is_free /\ block[h].next # Null
           => ~ block[block[h].next].is_free
    /\ active = {} => block = FreshBlock

(***************************************************************************)
(* Every page of McKusickAllocator is in one place: once in the list of    *)
(* free pages, cut, or in one buffer; a free block lies in a page cut into *)
(* blocks of its bucket and is in the list once; the list of free pages    *)
(* is sorted (Mckusey-Carels.cpp:54-145, 213-276).                         *)
(***************************************************************************)
PagesAccounted ==
  allocator = "McKusick" =>
    LET single == CutPages \cup Range(free_page_info)
    IN  /\ single \cup UNION {BufferPages(s) : s \in BufferStart} = Page
        /\ CutPages \cap Range(free_page_info) = {}
        /\ \A s \in BufferStart : BufferPages(s) \cap single = {}
        /\ \A s, t \in BufferStart :
             s # t => BufferPages(s) \cap BufferPages(t) = {}
        /\ \A i, j \in DOMAIN free_page_info :
             i < j => free_page_info[i] < free_page_info[j]
        /\ \A b \in Bucket :
             /\ IsInjective(freelistarr[b])
             /\ \A a \in Range(freelistarr[b]) :
                  \E p \in CutPages : /\ page_info[p].size = BlockSize(b)
                                      /\ a \in Range(BlocksOf(p, BlockSize(b)))

(***************************************************************************)
(* A page that was cut never becomes whole again, so that large requests   *)
(* may fail for ever; but a page is cut only if all blocks of its bucket   *)
(* are in use: as many pages are lost to a bucket as its blocks needed at  *)
(* their peak (Mckusey-Carels.cpp:220-233, 257-262).                       *)
(***************************************************************************)
CutPagesNeeded ==
  allocator = "McKusick" =>
    \A b \in Bucket :
      /\ Cardinality(CutFor(b)) * BlocksPerPage(b) < peak[b] + BlocksPerPage(b)
      /\ peak[b] <= Cardinality(CutFor(b)) * BlocksPerPage(b)

(***************************************************************************)
(* A request is refused only if it has to be.  BestFitAllocator: no gap    *)
(* between the blocks in use has room for it and its header.               *)
(* McKusickAllocator: there are not that many free pages in a row, in      *)
(* whatever order they were freed; for a small one, no page and no block   *)
(* of its bucket is free                                                   *)
(* (list_of_free_blocks.cpp:58-68, Mckusey-Carels.cpp:71-122, 220-241).    *)
(***************************************************************************)
Gap(n) ==
  \E first \in {head} \cup {u.ptr + u.size : u \in InUse} :
    /\ first + n <= head + total_size
    /\ \A u \in InUse : first + n <= u.ptr - HeaderSize \/ u.ptr + u.size <= first

Unused(p) ==
  p \notin CutPages /\ \A q \in BufferStart : p \notin BufferPages(q)

RefusedOnlyIfFull ==
  \A size \in Sizes :
    IF allocator = "BestFit"
    THEN Gap(aligned_size(size)) => SuitableBlocks(size) # {}
    ELSE (\E p \in Page :
            \A q \in p .. p + get_required_pages(size) - 1 : q \in Page /\ Unused(q))
         => ~ Exhausted(size)
=============================================================================
