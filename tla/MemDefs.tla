------------------------------- MODULE MemDefs -------------------------------
(***************************************************************************)
(* What the allocator of the Mythroad virtual machine and its abstract     *)
(* specification share: the size of the arena, the width of uint32 and the *)
(* rounding of a request.                                                  *)
(***************************************************************************)
EXTENDS Integers, FiniteSets

CONSTANTS
  LG_mem_len,  \* bytes of the arena obtained with mr_mem_get
  Word,        \* 2^32 in the code: lengths are uint32 and wrap modulo Word
  Requests     \* the lengths a client may ask for

\* mr_mem_get hands out whole pages, aligned to a page: the arena starts at a
\* multiple of 8 and holds a multiple of 8 bytes.
ASSUME MemAssumption ==
  /\ LG_mem_len \in Nat \ {0}
  /\ LG_mem_len % 8 = 0
  /\ Word \in Nat
  /\ Word % 8 = 0
  /\ LG_mem_len < Word
  /\ Requests \subseteq 0 .. Word - 1

NULL == -1

Offsets == 0 .. LG_mem_len - 1

\* #define realLGmemSize(x) (((x)+7)&(0xfffffff8)), in uint32 arithmetic
realLGmemSize(x) == (((x + 7) % Word) \div 8) * 8

Blocks == [off : Offsets, req : Requests]

\* What a call answered, with the length it was asked for: an answer alone does
\* not tell whether it was right.
Result(n, off) == [req |-> n, off |-> off]
NoResult == Result(NULL, NULL)
Results == [req : Requests \cup {NULL}, off : Offsets \cup {NULL}]

\* The bytes the block [off |-> o, req |-> n] occupies.
BytesOf(b) == b.off .. b.off + realLGmemSize(b.req) - 1
=============================================================================
