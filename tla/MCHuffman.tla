----------------------------- MODULE MCHuffman -----------------------------
(***************************************************************************)
(* Every list of 4 lengths up to 4 with first tables of 2 bits: complete,  *)
(* incomplete, over-subscribed and empty sets of codes; three sets of 8    *)
(* codes with up to three levels of tables; and the shape of the fixed     *)
(* code.  Memory for no table, one, two or all.                            *)
(***************************************************************************)
EXTENDS Huffman

MCInputs ==
  [lens : [1 .. 4 -> 0 .. 4], m : {2}]
    \cup [lens : {<<1, 2, 3, 4, 5, 6, 7, 7>>, <<7, 7, 6, 5, 4, 3, 2, 1>>,
                  <<5, 2, 5, 2, 4, 3, 3, 4>>, <<3, 3, 4, 4, 2, 2, 3, 3>>}, m : {3}]
    \cup [lens : {<<3, 3, 3, 4, 4, 4, 4, 2, 3>>}, m : {2}]
MCAllocs == {0, 1, 2, 9}
=============================================================================
