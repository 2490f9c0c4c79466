-------------------------------- MODULE Heap ---------------------------------
(***************************************************************************)
(* What mr_malloc, mr_free and mr_realloc promise a client, without a free *)
(* list: a block handed out is inside the arena and overlaps no other      *)
(* block; a request is refused only when its rounded size is 0, when it    *)
(* would leave no byte free, or when no hole between the blocks in use is  *)
(* long enough; and a failed realloc leaves the old block as it was.       *)
(***************************************************************************)
EXTENDS MemDefs

VARIABLES
  live,  \* the blocks in the hands of clients
  ret    \* the last call of mr_malloc or mr_realloc and its result

heapVars == <<live, ret>>

Used == UNION {BytesOf(b) : b \in live}

IsHole(off, size) ==
  /\ off + size <= LG_mem_len
  /\ \A a \in off .. off + size - 1 : a \notin Used

CanServe(size) ==
  /\ size # 0
  /\ Cardinality(Used) + size < LG_mem_len
  /\ \E off \in Offsets : IsHole(off, size)

Init == live = {} /\ ret = NoResult

Refuse(n) ==
  /\ ~CanServe(realLGmemSize(n))
  /\ ret' = Result(n, NULL)
  /\ UNCHANGED live

\* A new block for n bytes is carved out of a hole; the blocks in gone are
\* given back once their bytes are no longer needed.
Serve(n, gone) ==
  /\ CanServe(realLGmemSize(n))
  /\ \E off \in Offsets :
       /\ IsHole(off, realLGmemSize(n))
       /\ live' = (live \ gone) \cup {[off |-> off, req |-> n]}
       /\ ret' = Result(n, off)

Malloc(n) == Serve(n, {}) \/ Refuse(n)

Free(b) == live' = live \ {b} /\ UNCHANGED ret

Realloc(b, n) ==
  \/ n = 0 /\ live' = live \ {b} /\ ret' = Result(n, NULL)
  \/ n # 0 /\ (Serve(n, {b}) \/ Refuse(n))

\* The machine is stopped and started again on a fresh arena.
Restart == live' = {} /\ ret' = NoResult

Next ==
  \/ \E n \in Requests : Malloc(n)
  \/ \E b \in live : Free(b)
  \/ \E b \in live, n \in Requests : Realloc(b, n)
  \/ Restart

Spec == Init /\ [][Next]_heapVars
=============================================================================
