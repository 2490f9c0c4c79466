----------------------------- MODULE MCAppProc -----------------------------
(* Two processes and two mrps, one of which may be asked for twice. *)
EXTENDS AppProc

CONSTANTS m1, m2

MCMarks == {m1, m2}
=============================================================================
