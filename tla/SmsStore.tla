---------------------------- MODULE SmsStore ----------------------------
(***************************************************************************)
(* What the SMS configuration promises: a store of numbers, an address,    *)
(* messages and flags, one in each directory. A configuration SMS changes  *)
(* what its chunks name in one of them and nothing else, or, when it       *)
(* cannot be saved, nothing at all. Only an application that goes to       *)
(* another directory between its load and its save writes one store, with  *)
(* its changes, over another.                                              *)
(***************************************************************************)
EXTENDS Integers, Sequences, SequencesExt

CONSTANTS
  Dirs, Launch,  \* the directories, and the one an application starts in
  Numbers,    \* the places of command numbers
  MsgPlaces,  \* the places of update messages
  Vals,       \* contents; 0 is an empty place
  Default,    \* the number at each place of a fresh store
  MaxChunks   \* bound: the chunks of one SMS

VARIABLES
  store,  \* what each directory keeps
  from    \* the directory whose store is in memory

Fresh == [num |-> [i \in Numbers |-> Default[i]], url |-> 0, useUrl |-> 0,
          unicode |-> 0, msg |-> [k \in MsgPlaces |-> 0], useMsg |-> 0]

Commands ==
  [op: {"add"}, at: Numbers, val: Vals] \cup [op: {"del"}, at: Numbers, val: {0}]
  \cup [op: {"url", "unicode"}, at: {0}, val: Vals]
Messages == [op: {"msg"}, at: MsgPlaces, val: Vals]

Applied(s, c) ==
  CASE c.op \in {"add", "del"} -> [s EXCEPT !.num[c.at] = c.val]
    [] c.op = "url" -> [s EXCEPT !.url = c.val, !.useUrl = 128]
    [] c.op = "unicode" -> [s EXCEPT !.unicode = c.val]
    [] c.op = "msg" -> [s EXCEPT !.msg[c.at] = c.val, !.useMsg = 128]

(* The commands, from the first to the last. *)
AppliedAll(s, cmds) ==
  LET after[n \in 0 .. Len(cmds)] ==
        IF n = 0 THEN s ELSE Applied(after[n - 1], cmds[n])
  IN  after[Len(cmds)]

Changes == SeqOf(Commands \cup Messages, MaxChunks)

Init == store = [d \in Dirs |-> Fresh] /\ from = Launch
Load == from' \in Dirs /\ UNCHANGED store

(* The store of d becomes the one of e with some changes; no other changes. *)
Written(d, e) ==
  /\ from' = d
  /\ \A o \in Dirs \ {d} : store'[o] = store[o]
  /\ LET was == store[e]  now == store'[d] IN
       \E cmds \in Changes : now = AppliedAll(was, cmds)

Update == \E d \in Dirs : Written(d, d)
Carry == \E d \in Dirs \ {from} : Written(d, from)

Next == Load \/ Update \/ Carry
vars == <<store, from>>

Spec == Init /\ [][Next]_vars
=============================================================================
