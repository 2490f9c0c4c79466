------------------------------- MODULE MCLGMem -------------------------------
(* The allocator on a small arena, with requests that round, that fit       *)
(* exactly, that fill the arena and that wrap around uint32.                *)
EXTENDS LGMem

MCRequests == {0, 1, 8, 17, 40, Word - 9, Word - 3}
=============================================================================
