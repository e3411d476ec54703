------------------------------- MODULE McKusick -------------------------------
(***************************************************************************)
(* CP: class McKusickAllocator.  The memory behind the metadata is divided *)
(* into pages.  A page is free, or cut into blocks of one power of two, or *)
(* part of a buffer of several pages.  Free blocks of one size are a list  *)
(* that is used as a stack; the free pages are a list sorted by address.   *)
(*                                                                         *)
(* A page is its index in the metadata.  The next field of a PageInfo is   *)
(* modelled by the list free_page_info; the links inside of a buffer are   *)
(* never read.                                                             *)
(***************************************************************************)
EXTENDS Memory, SequencesExt

CONSTANTS
  MIN_BLOCK_SIZE,
  BUCKET_COUNT,
  PageInfoSize      \* sizeof(PageInfo)

Bucket == 0 .. BUCKET_COUNT - 1

BlockSize(bucket) == MIN_BLOCK_SIZE * 2^bucket

MAX_BLOCK_SIZE == BlockSize(BUCKET_COUNT - 1)

total_pages      == RoundUp(memory_size, PAGE_SIZE) \div PAGE_SIZE
total_meta_pages == RoundUp(total_pages * PageInfoSize, PAGE_SIZE) \div PAGE_SIZE
initial_memory   == memory + PAGE_SIZE * total_meta_pages

PageCount == total_pages - total_meta_pages
Page      == 0 .. PageCount - 1

page_addr(p) == initial_memory + p * PAGE_SIZE

\* The largest blocks are pages, the smallest hold a link, and the metadata
\* leave a page: with none left the constructor writes before its array.
ASSUME McKusickAssumption ==
  /\ MIN_BLOCK_SIZE \in Nat \ {0} /\ MIN_BLOCK_SIZE % 8 = 0
  /\ BUCKET_COUNT \in Nat \ {0}
  /\ MAX_BLOCK_SIZE = PAGE_SIZE
  /\ PageInfoSize \in Nat \ {0}
  /\ PageCount > 0

PageInfo == [size : Nat, is_start_of_buffer : BOOLEAN]

VARIABLES
  freelistarr,      \* freelistarr[b]: the free blocks of bucket b
  free_page_info,   \* the free pages
  page_info         \* page_info[p]: size, is_start_of_buffer of page p

mcKusickVars == <<freelistarr, free_page_info, page_info>>

\* The constructor: every page is free.
FreshLists    == [b \in Bucket |-> <<>>]
FreshPages    == [i \in 1 .. PageCount |-> i - 1]
FreshPageInfo == [p \in Page |-> [size |-> 0, is_start_of_buffer |-> FALSE]]

-----------------------------------------------------------------------------
\* Mutant: 63 - __builtin_clzl(size), the power of two below.
get_bucket_index_below(size) ==
  CHOOSE b \in Bucket :
    /\ b = 0 \/ BlockSize(b) <= size
    /\ \A c \in Bucket : BlockSize(c) <= size => c <= b

\* The least power of two that holds size.  For size 1 the code asks for
\* the leading zeros of 0, which is undefined: callers here ask for more.
get_bucket_index(size) ==
  CHOOSE b \in Bucket :
    size <= BlockSize(b) /\ \A c \in Bucket : size <= BlockSize(c) => b <= c

get_required_pages(size) == RoundUp(size, PAGE_SIZE) \div PAGE_SIZE

\* Mutant: the list is used as a stack.
insert_front(list, p) == <<p>> \o list

\* A page goes behind the pages of the list that lie before it.
insert_sorted(list, p) ==
  LET n == CHOOSE n \in 0 .. Len(list) :
             /\ \A i \in 1 .. n : list[i] <= p
             /\ n < Len(list) => p < list[n + 1]
  IN  SubSeq(list, 1, n) \o <<p>> \o SubSeq(list, n + 1, Len(list))

\* Where in the list n pages with successive addresses stand in a row.
RunStarts(n) ==
  {i \in 1 .. Len(free_page_info) - n + 1 :
     \A k \in 1 .. n - 1 : free_page_info[i + k] = free_page_info[i] + k}

FirstRun(n) == CHOOSE i \in RunStarts(n) : \A j \in RunStarts(n) : i <= j

BlocksOf(p, size) ==
  [i \in 1 .. PAGE_SIZE \div size |-> page_addr(p) + (i - 1) * size]

-----------------------------------------------------------------------------
TakeBlock(b, ptr) ==
  /\ freelistarr[b] # <<>> /\ ptr = Head(freelistarr[b])
  /\ freelistarr' = [freelistarr EXCEPT ![b] = Tail(@)]
  /\ UNCHANGED <<free_page_info, page_info>>

\* Mutant: a page is cut although blocks of its size are left.
SplitPageAnyway(b, ptr) ==
  LET p == Head(free_page_info)
  IN  /\ free_page_info # <<>> /\ ptr = page_addr(p)
      /\ free_page_info' = Tail(free_page_info)
      /\ page_info' = [page_info EXCEPT
           ![p] = [size |-> BlockSize(b), is_start_of_buffer |-> FALSE]]
      /\ freelistarr' =
           [freelistarr EXCEPT ![b] = Tail(BlocksOf(p, BlockSize(b)) \o @)]

\* split_page of the first free page, whose first block is then taken.
SplitPage(b, ptr) ==
  LET p == Head(free_page_info)
  IN  /\ freelistarr[b] = <<>> /\ free_page_info # <<>> /\ ptr = page_addr(p)
      /\ free_page_info' = Tail(free_page_info)
      /\ page_info' = [page_info EXCEPT
           ![p] = [size |-> BlockSize(b), is_start_of_buffer |-> FALSE]]
      /\ freelistarr' =
           [freelistarr EXCEPT ![b] = Tail(BlocksOf(p, BlockSize(b)) \o @)]

\* Mutant: the last page of the buffer stays in the list.
TakePagesButLast(size, ptr) ==
  LET n == get_required_pages(size)
      i == FirstRun(n)
      p == free_page_info[i]
  IN  /\ RunStarts(n) # {} /\ ptr = page_addr(p)
      /\ free_page_info' = SubSeq(free_page_info, 1, i - 1)
                             \o SubSeq(free_page_info, i + n - 1, Len(free_page_info))
      /\ page_info' = [q \in Page |->
           IF q = p THEN [size |-> size, is_start_of_buffer |-> TRUE]
           ELSE IF q \in p + 1 .. p + n - 1
                THEN [page_info[q] EXCEPT !.is_start_of_buffer = FALSE]
                ELSE page_info[q]]
      /\ UNCHANGED freelistarr

\* The pages found are unlinked; only the first one keeps the size.
TakePages(size, ptr) ==
  LET n == get_required_pages(size)
      i == FirstRun(n)
      p == free_page_info[i]
  IN  /\ RunStarts(n) # {} /\ ptr = page_addr(p)
      /\ free_page_info' = SubSeq(free_page_info, 1, i - 1)
                             \o SubSeq(free_page_info, i + n, Len(free_page_info))
      /\ page_info' = [q \in Page |->
           IF q = p THEN [size |-> size, is_start_of_buffer |-> TRUE]
           ELSE IF q \in p + 1 .. p + n - 1
                THEN [page_info[q] EXCEPT !.is_start_of_buffer = FALSE]
                ELSE page_info[q]]
      /\ UNCHANGED freelistarr

\* Neither a block nor pages for this size.
Exhausted(size) ==
  IF size <= MAX_BLOCK_SIZE
  THEN freelistarr[get_bucket_index(size)] = <<>> /\ free_page_info = <<>>
  ELSE RunStarts(get_required_pages(size)) = {}

McKusickAlloc(size, ptr) ==
  IF Exhausted(size) THEN ptr = Null /\ UNCHANGED mcKusickVars
  ELSE IF size <= MAX_BLOCK_SIZE
       THEN LET b == get_bucket_index(size)
            IN  TakeBlock(b, ptr) \/ SplitPage(b, ptr)
       ELSE TakePages(size, ptr)

-----------------------------------------------------------------------------
find_page_info(ptr) ==
  ((ptr \div PAGE_SIZE) * PAGE_SIZE - initial_memory) \div PAGE_SIZE

FreeBlock(ptr, b) ==
  /\ freelistarr' = [freelistarr EXCEPT ![b] = <<ptr>> \o @]
  /\ UNCHANGED <<free_page_info, page_info>>

FreePages(p) ==
  LET pages == [i \in 1 .. get_required_pages(page_info[p].size) |-> p + i - 1]
  IN  /\ page_info' = [q \in Page |->
           IF q \in Range(pages) THEN FreshPageInfo[q] ELSE page_info[q]]
      /\ free_page_info' = FoldLeft(insert_sorted, free_page_info, pages)
      /\ UNCHANGED freelistarr

McKusickFree(ptr) ==
  LET p == find_page_info(ptr)
  IN  IF p \notin Page THEN UNCHANGED mcKusickVars
      ELSE IF page_info[p].size <= MAX_BLOCK_SIZE
           THEN FreeBlock(ptr, get_bucket_index(page_info[p].size))
           ELSE IF page_info[p].is_start_of_buffer
                THEN FreePages(p)
                ELSE UNCHANGED mcKusickVars

-----------------------------------------------------------------------------
\* The pages that were cut into blocks, the first pages of buffers, and the
\* blocks in use: those of a cut page that are not in the list of their size.
CutPages    == {p \in Page : page_info[p].size \in 1 .. MAX_BLOCK_SIZE}
BufferStart == {p \in Page : page_info[p].size > MAX_BLOCK_SIZE}

BufferPages(p) == p .. p + get_required_pages(page_info[p].size) - 1

FreeBlocks == UNION {Range(freelistarr[b]) : b \in Bucket}

\* The pointers alloc may return.
McKusickPointers == {Null} \cup FreeBlocks \cup {page_addr(p) : p \in Page}

McKusickInUse ==
  (UNION {{[ptr |-> a, size |-> page_info[p].size] :
             a \in Range(BlocksOf(p, page_info[p].size)) \ FreeBlocks} :
          p \in CutPages})
  \cup {[ptr |-> page_addr(p),
         size |-> Cardinality(BufferPages(p)) * PAGE_SIZE] : p \in BufferStart}
=============================================================================
