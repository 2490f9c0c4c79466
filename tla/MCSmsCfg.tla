---------------------------- MODULE MCSmsCfg ----------------------------
(* SmsCfg with sections of five cells and numbers of two, so that five      *)
(* numbers fit, and two message sections, of which the last is the one      *)
(* the code cannot write. The application uses its launch directory and     *)
(* the root of drive A. It asks where it is after paths of four names.      *)
EXTENDS SmsCfg

MCNumbers == {4}
MCDefault == [i \in 0 .. 9 |-> IF i = 4 THEN 9 ELSE 0]
MCDsmPath == <<"mythroad">>
MCInitial == [n \in {"mythroad", "arc", Hide} |-> IF n = "arc" THEN "a" ELSE "c"]
MCRequests == {[drive |-> d, path |-> <<>>] : d \in {"z", "a"}}

MCPaths == SeqOf({"mythroad", "arc", "a", "b", Hide}, 4)
MCAsked == [drive: {"z", "x", "a", "b", "c"}, path: MCPaths]
=============================================================================
