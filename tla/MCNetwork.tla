---------------------------- MODULE MCNetwork ----------------------------
(* Network with three slots and three descriptors: an application with two  *)
(* handles and direct connections, which calls what it likes; a tidy one    *)
(* with a handle and the proxy; and a tidy one with two handles, both       *)
(* through the proxy or not, which may find no third slot for a request.    *)
EXTENDS Network

MCFds == 0 .. 2
MCWorlds == {[cmwap |-> TRUE, handles |-> 2, tidy |-> FALSE],
             [cmwap |-> FALSE, handles |-> 1, tidy |-> TRUE],
             [cmwap |-> FALSE, handles |-> 2, tidy |-> TRUE]}
=============================================================================
