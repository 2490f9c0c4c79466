--------------------------- MODULE MCDownloads ---------------------------
(* Downloads with three downloads of one path; with two and a question about *)
(* their path, which has a part of the file; with two paths and a limit of   *)
(* one, without retries.                                                     *)
EXTENDS Downloads, TLC

One == [d \in Dls |-> "p"]
Files(p, q) == ("p" :> p) @@ ("q" :> q)
MCWorlds == {
  [limit |-> -1, path |-> One, asks |-> {}, files |-> Files("none", "none"), wifi |-> TRUE],
  [limit |-> -1, path |-> One, asks |-> {3}, files |-> Files("part", "none"), wifi |-> TRUE],
  [limit |-> 1, path |-> (1 :> "p") @@ (2 :> "p") @@ (3 :> "q"), asks |-> {},
   files |-> Files("none", "whole"), wifi |-> FALSE]}
=============================================================================
