-------------------------------- MODULE LGMem --------------------------------
(***************************************************************************)
(* The memory allocator of mr/mythroad_mini.c: _mr_mem_init_ex, mr_malloc, *)
(* mr_free, mr_realloc.                                                    *)
(*                                                                         *)
(* The arena keeps its free list inside its own free blocks: every free    *)
(* block starts with its length and the offset of the next one, and        *)
(* LG_mem_free is the anchor.  freeList is that chain as the sequence of   *)
(* the blocks met when following next from the anchor to LG_mem_end.       *)
(* Clients return a block with the length they asked for, since the        *)
(* allocator keeps nothing in front of a block; live is what they hold.    *)
(***************************************************************************)
EXTENDS MemDefs, SequencesExt

VARIABLES
  freeList,     \* the chain that starts at LG_mem_free.next
  LG_mem_left,  \* free bytes, kept by the allocator
  LG_mem_min,   \* low-water mark of LG_mem_left
  LG_mem_top,   \* highest LG_mem_free offset a malloc left behind
  live,         \* blocks the clients hold
  ret           \* the last mr_malloc or mr_realloc and its result

memVars == <<freeList, LG_mem_left, LG_mem_min, LG_mem_top>>
vars == <<freeList, LG_mem_left, LG_mem_min, LG_mem_top, live, ret>>

Node(off, len) == [off |-> off, len |-> len]
EndOf(node) == node.off + node.len

\* The next field of node i of a list: the offset of node i + 1, or LG_mem_len
\* behind the last one.  NextOf(freeList, 0) is LG_mem_free.next.
NextOf(list, i) == IF i < Len(list) THEN list[i + 1].off ELSE LG_mem_len

Init ==
  /\ freeList = <<Node(0, LG_mem_len)>>
  /\ LG_mem_left = LG_mem_len
  /\ LG_mem_min = LG_mem_len
  /\ LG_mem_top = 0
  /\ live = {}
  /\ ret = NoResult
-----------------------------------------------------------------------------
(* mr_malloc *)

\* The while loop leaves at the first node that is long enough.
FirstFit(list, i, len) ==
  /\ list[i].len >= len
  /\ \A j \in 1 .. i - 1 : list[j].len < len

\* Mutants of MallocRefused: no check for a length that wrapped to 0; only
\* the first node is looked at.
MallocRefusedZeroServed(n) ==
  LET len == realLGmemSize(n)
  IN  len >= LG_mem_left \/ \A i \in DOMAIN freeList : freeList[i].len < len

MallocRefusedFirstNode(n) ==
  LET len == realLGmemSize(n)
  IN  len >= LG_mem_left \/ len = 0 \/ freeList[1].len < len

MallocRefused(n) ==
  LET len == realLGmemSize(n)
  IN  \/ len >= LG_mem_left
      \/ len = 0
      \/ NextOf(freeList, 0) > LG_mem_len
      \/ \A i \in DOMAIN freeList : freeList[i].len < len

\* previous->next after the node at i has given up its first len bytes
NextAfterTake(list, i, len) ==
  IF list[i].len = len THEN NextOf(list, i) ELSE list[i].off + len

\* Mutants of TakeFront: an exact fit leaves an empty node; the tail keeps the
\* offset of the block handed out.
TakeFrontEmptyNode(list, i, len) ==
  ReplaceAt(list, i, Node(list[i].off + len, list[i].len - len))

TakeFrontSameOffset(list, i, len) ==
  IF list[i].len = len THEN RemoveAt(list, i)
  ELSE ReplaceAt(list, i, Node(list[i].off, list[i].len - len))

\* An exact fit is unlinked; a longer node keeps its tail.
TakeFront(list, i, len) ==
  IF list[i].len = len
  THEN RemoveAt(list, i)
  ELSE ReplaceAt(list, i, Node(list[i].off + len, list[i].len - len))

AccountMalloc(i, len) ==
  /\ LG_mem_min' = Min({LG_mem_min, LG_mem_left - len})
  /\ LG_mem_top' = Max({LG_mem_top, NextAfterTake(freeList, i, len)})

mr_malloc(n) ==
  LET len == realLGmemSize(n)
  IN  \/ /\ MallocRefused(n)
         /\ ret' = Result(n, NULL)
         /\ UNCHANGED <<memVars, live>>
      \/ /\ ~MallocRefused(n)
         /\ \E i \in DOMAIN freeList :
              /\ FirstFit(freeList, i, len)
              /\ freeList' = TakeFront(freeList, i, len)
              /\ LG_mem_left' = LG_mem_left - len
              /\ AccountMalloc(i, len)
              /\ live' = live \cup {[off |-> freeList[i].off, req |-> n]}
              /\ ret' = Result(n, freeList[i].off)
-----------------------------------------------------------------------------
(* mr_free *)

\* The loop stops behind the last node of list below p: n is node k + 1.
FreePosition(list, k, p) ==
  /\ \A i \in 1 .. k : list[i].off < p
  /\ k < Len(list) => list[k + 1].off >= p

\* Mutants of PutBack: the node after the block is not absorbed; it is unlinked
\* without its length.
PutBackNoNext(list, k, p, len) ==
  IF k > 0 /\ EndOf(list[k]) = p
  THEN ReplaceAt(list, k, Node(list[k].off, list[k].len + len))
  ELSE InsertAt(list, k + 1, Node(p, len))

PutBackNextLost(list, k, p, len) ==
  IF k < Len(list) /\ list[k + 1].off = p + len
  THEN ReplaceAt(list, k + 1, Node(p, len))
  ELSE InsertAt(list, k + 1, Node(p, len))

\* The list after len bytes at p are returned behind node k.  The node before
\* them grows when it ends at p, else p becomes a node; the node after them is
\* absorbed when it starts at their end.
PutBack(list, k, p, len) ==
  LET joinPrev == k > 0 /\ EndOf(list[k]) = p
      joinNext == k < Len(list) /\ list[k + 1].off = p + len
      first    == IF joinPrev THEN list[k].off ELSE p
      last     == IF joinNext THEN EndOf(list[k + 1]) ELSE p + len
  IN  SubSeq(list, 1, IF joinPrev THEN k - 1 ELSE k)
        \o <<Node(first, last - first)>>
        \o SubSeq(list, IF joinNext THEN k + 2 ELSE k + 1, Len(list))

AlreadyFree(list, k, p) == k < Len(list) /\ list[k + 1].off = p

InArena(p, len) == len # 0 /\ p >= 0 /\ p < LG_mem_len /\ p + len <= LG_mem_len

\* Mutant of FreeFrom: LG_mem_left grows by the length before rounding.
FreeFromUnrounded(list, left, p, n) ==
  \E k \in 0 .. Len(list) :
    /\ FreePosition(list, k, p)
    /\ freeList' = PutBack(list, k, p, realLGmemSize(n))
    /\ LG_mem_left' = left + n

\* mr_free(p, n) applied to the given list and count of free bytes; invalid and
\* already free pointers are reported and ignored.
FreeFrom(list, left, p, n) ==
  LET len == realLGmemSize(n)
  IN  \E k \in 0 .. Len(list) :
        /\ FreePosition(list, k, p)
        /\ IF InArena(p, len) /\ ~AlreadyFree(list, k, p)
           THEN freeList' = PutBack(list, k, p, len) /\ LG_mem_left' = left + len
           ELSE freeList' = list /\ LG_mem_left' = left

mr_free(b) ==
  /\ FreeFrom(freeList, LG_mem_left, b.off, b.req)
  /\ live' = live \ {b}
  /\ UNCHANGED <<LG_mem_min, LG_mem_top, ret>>
-----------------------------------------------------------------------------
(* mr_realloc *)

\* Always a new block, a copy and a free: both blocks are in use for a moment.
mr_realloc(b, n) ==
  LET len == realLGmemSize(n)
  IN  \/ /\ n = 0
         /\ FreeFrom(freeList, LG_mem_left, b.off, b.req)
         /\ live' = live \ {b}
         /\ ret' = Result(n, NULL)
         /\ UNCHANGED <<LG_mem_min, LG_mem_top>>
      \/ /\ n # 0
         /\ MallocRefused(n)
         /\ ret' = Result(n, NULL)
         /\ UNCHANGED <<memVars, live>>
      \/ /\ n # 0
         /\ ~MallocRefused(n)
         /\ \E i \in DOMAIN freeList :
              /\ FirstFit(freeList, i, len)
              /\ AccountMalloc(i, len)
              /\ FreeFrom(TakeFront(freeList, i, len), LG_mem_left - len, b.off, b.req)
              /\ live' = (live \ {b}) \cup {[off |-> freeList[i].off, req |-> n]}
              /\ ret' = Result(n, freeList[i].off)

\* mr_stop_ex frees the arena; the next _mr_intra_start runs _mr_mem_init_ex.
_mr_mem_init_ex ==
  /\ freeList' = <<Node(0, LG_mem_len)>>
  /\ LG_mem_left' = LG_mem_len
  /\ LG_mem_min' = LG_mem_len
  /\ LG_mem_top' = 0
  /\ live' = {}
  /\ ret' = NoResult

Next ==
  \/ \E n \in Requests : mr_malloc(n)
  \/ \E b \in live : mr_free(b)
  \/ \E b \in live, n \in Requests : mr_realloc(b, n)
  \/ _mr_mem_init_ex

Spec == Init /\ [][Next]_vars
-----------------------------------------------------------------------------
(* Properties *)

FreeNodes == [off : Offsets, len : 1 .. LG_mem_len]

\* The bytes a list of free nodes covers.
BytesIn(list) ==
  {a \in Offsets : \E i \in DOMAIN list : list[i].off <= a /\ a < EndOf(list[i])}

FreeBytes == BytesIn(freeList)

\* Every field of the allocator and of its clients stays in its range.
TypeOK ==
  /\ freeList \in Seq(FreeNodes)
  /\ LG_mem_left \in 0 .. LG_mem_len
  /\ LG_mem_min \in 0 .. LG_mem_len
  /\ LG_mem_top \in 0 .. LG_mem_len
  /\ live \subseteq Blocks
  /\ ret \in Results

\* The free list ascends, ends inside the arena, and no two of its nodes touch:
\* freeing in any order merges every pair of neighbours.  Every node has room for
\* its own header and starts on its alignment, so that the allocator never writes
\* a header over a client's bytes.
FreeListMerged ==
  /\ \A i \in DOMAIN freeList : EndOf(freeList[i]) <= LG_mem_len
  /\ \A i, j \in DOMAIN freeList : i < j => EndOf(freeList[i]) < freeList[j].off
  /\ \A i \in DOMAIN freeList : freeList[i].off % 8 = 0 /\ freeList[i].len % 8 = 0

\* Two clients never hold the same byte, and no client's byte is in the free list.
NoOverlap ==
  /\ \A b, c \in live : b # c => BytesOf(b) \cap BytesOf(c) = {}
  /\ \A b \in live : BytesOf(b) \cap FreeBytes = {}

\* A block is at least as long as its client asked for and lies in the arena,
\* also when the rounding of a huge length wraps around.
RequestCovered == \A b \in live : b.off + b.req <= LG_mem_len

\* No byte is lost: what no client holds is in the free list.
NothingLost == \A a \in Offsets : a \in FreeBytes \/ \E b \in live : a \in BytesOf(b)

\* LG_mem_left, which decides whether a request is refused and which is what
\* applications are told, counts exactly the bytes of the free list.
LeftExact == LG_mem_left = Cardinality(FreeBytes)

\* mr_malloc refuses to hand out the last free bytes, so the free list is never
\* empty and the anchor always points into the arena.
NeverFull == LG_mem_left > 0 /\ freeList # <<>>

\* LG_mem_min and LG_mem_top are water marks: no block of a client ends above
\* LG_mem_top, and no fewer bytes were ever left than LG_mem_min.
WaterMarks ==
  /\ LG_mem_min <= LG_mem_left
  /\ \A b \in live : b.off + realLGmemSize(b.req) <= LG_mem_top

\* When the clients have returned everything the arena is one block again.
Recovers == live = {} => freeList = <<Node(0, LG_mem_len)>>

\* The allocator implements the allocator without a free list: in particular it
\* refuses a request only when no hole between the live blocks could hold it.
HeapSpec == INSTANCE Heap WITH live <- live, ret <- ret
ImplementsHeap == HeapSpec!Spec
=============================================================================
