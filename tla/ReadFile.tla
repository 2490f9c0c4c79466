------------------------------ MODULE ReadFile ------------------------------
(***************************************************************************)
(* _mr_readFile (mr/mythroad_mini.c): a file is looked up in a pack in ROM, *)
(* RAM or a file of the phone, read, and unzipped by mr_unzip and           *)
(* mr_inflate.  The model follows what is held at each of the many returns: *)
(* the open file, and the blocks of memory with the lengths they were asked *)
(* for.  The data are choices between the cases the code tells apart.       *)
(***************************************************************************)
EXTENDS Integers

CONSTANT MaxParts  \* the parts a read, and the blocks the data, may come in

ASSUME ReadFileAssumption == MaxParts \in Nat \ {0}

VARIABLES
  pc,       \* what the call does next
  pack,     \* where pack_filename is: "rom" (or RAM) or "efs"
  lookfor,  \* 0 read, 1 is it there, 2 where is it (in ROM)
  opened,   \* the file is open
  held,     \* the blocks held, each with the length it was asked for
  filelen,  \* *filelen
  oldlen,   \* the length in the pack, while *filelen is that of the data
  parts,    \* the parts of the file, then the blocks of the data, so far
  result,   \* what the call returned
  unsound   \* history: a block's codes were wrong in the middle

vars == <<pc, pack, lookfor, opened, held, filelen, oldlen, parts, result, unsound>>

Tables == {"trees", "tl", "td"}
Lengths == {"unset", "index", "packed", "real", "table"}
Blocks == (Tables \cup {"index", "file", "out"}) \X Lengths

(* The variables have their types. *)
TypeOK ==
  /\ pc \in {"look", "header", "index", "search", "buffer", "read", "method", "out", "block",
             "fixed", "fixedDistance", "trees", "lengths", "literal", "distance", "codes",
             "failed", "unzipped", "over"}
  /\ pack \in {"rom", "efs"} /\ lookfor \in 0 .. 2
  /\ opened \in BOOLEAN /\ unsound \in BOOLEAN
  /\ held \subseteq Blocks
  /\ filelen \in Lengths /\ oldlen \in Lengths
  /\ parts \in 0 .. MaxParts
  /\ result \in {"none", "null", "yes", "rom", "file", "out"}

Init ==
  /\ pc = "look" /\ pack \in {"rom", "efs"} /\ lookfor \in 0 .. 2
  /\ opened = FALSE /\ held = {} /\ unsound = FALSE
  /\ filelen = "unset" /\ oldlen = "unset" /\ parts = 0 /\ result = "none"

input == <<pack, lookfor>>
lengths == <<filelen, oldlen>>

Goto(s) == pc' = s /\ UNCHANGED result
Return(r) == pc' = "over" /\ result' = r
Malloc(b, len) == held' = held \cup {<<b, len>>}
Close == opened' = FALSE

(* A block freed with another length than it was asked for is not returned.  *)
Free(S) == held' = held \ S

-----------------------------------------------------------------------------
(* The list of a pack in ROM or RAM ends, is damaged, or has the file.       *)
LookInRom ==
  /\ pc = "look" /\ pack = "rom"
  /\ \/ Return("null") /\ UNCHANGED filelen
     \/ lookfor = 1 /\ Return("yes") /\ UNCHANGED filelen
     \/ lookfor = 2 /\ Return("rom") /\ filelen' = "packed"
     \/ lookfor = 0 /\ Goto("method") /\ filelen' = "packed"
  /\ UNCHANGED <<input, opened, held, oldlen, parts, unsound>>

Open ==
  /\ pc = "look" /\ pack = "efs"
  /\ \/ Return("null") /\ UNCHANGED opened
     \/ Goto("header") /\ opened' = TRUE
  /\ UNCHANGED <<input, held, lengths, parts, unsound>>

(* Not a pack, too short, or no memory for the index. *)
Header ==
  /\ pc = "header"
  /\ \/ Return("null") /\ Close /\ UNCHANGED held
     \/ Goto("index") /\ Malloc("index", "index") /\ UNCHANGED opened
  /\ UNCHANGED <<input, lengths, parts, unsound>>

ReadIndex ==
  /\ pc = "index"
  /\ \/ Return("null") /\ Close /\ Free({<<"index", "index">>})
     \/ Goto("search") /\ UNCHANGED <<opened, held>>
  /\ UNCHANGED <<input, lengths, parts, unsound>>

(* The index ends, is damaged, or has the file. *)
Search ==
  /\ pc = "search"
  /\ Free({<<"index", "index">>})
  /\ \/ Return("null") /\ Close /\ UNCHANGED filelen
     \/ lookfor = 1 /\ Return("yes") /\ Close /\ UNCHANGED filelen
     \/ lookfor # 1 /\ Goto("buffer") /\ filelen' = "packed" /\ UNCHANGED opened
  /\ UNCHANGED <<input, oldlen, parts, unsound>>

Buffer ==
  /\ pc = "buffer"
  /\ \/ Return("null") /\ Close /\ UNCHANGED held
     \/ Goto("read") /\ Malloc("file", filelen) /\ UNCHANGED opened
  /\ UNCHANGED <<input, lengths, parts, unsound>>

(* The seek or a read fails, a read brings a part, or the last part.         *)
Read ==
  /\ pc = "read"
  /\ \/ Return("null") /\ Close /\ Free({<<"file", filelen>>}) /\ UNCHANGED parts
     \/ parts < MaxParts /\ parts' = parts + 1 /\ UNCHANGED <<pc, result, opened, held>>
     \/ Goto("method") /\ Close /\ parts' = 0 /\ UNCHANGED held
  /\ UNCHANGED <<input, lengths, unsound>>

(* What is not zipped, or not in a way that is known, is returned as it is.  *)
Method ==
  /\ pc = "method"
  /\ Goto("out") \/ Return(IF pack = "rom" THEN "rom" ELSE "file")
  /\ UNCHANGED <<input, opened, held, lengths, parts, unsound>>

FileIfNotRom(len) == IF pack = "rom" THEN {} ELSE {<<"file", len>>}

(* Mutant: the length of the block is that of the data by now. *)
OutLate ==
  /\ pc = "out"
  /\ oldlen' = filelen /\ filelen' = "real"
  /\ \/ Goto("block") /\ Malloc("out", "real")
     \/ Return("null") /\ Free(FileIfNotRom(filelen'))
  /\ UNCHANGED <<input, opened, parts, unsound>>

(* Room for the data, whose length is in the last bytes of the file.         *)
Out ==
  /\ pc = "out"
  /\ oldlen' = filelen /\ filelen' = "real"
  /\ \/ Goto("block") /\ Malloc("out", "real")
     \/ Return("null") /\ Free(FileIfNotRom(oldlen'))
  /\ UNCHANGED <<input, opened, parts, unsound>>

-----------------------------------------------------------------------------
(* mr_inflate, block by block. *)

Table(t) == {<<t, "table">>}
Fail == Goto("failed")
NextBlock ==
  \/ Goto("unzipped") /\ UNCHANGED parts
  \/ parts < MaxParts /\ Goto("block") /\ parts' = parts + 1

(* huft_build: tables, also for a set of codes that is not complete, or none *)
(* for lengths that are all 0.                                               *)
Built(t) == Malloc(t, "table") \/ UNCHANGED held

Block ==
  /\ pc = "block"
  /\ \/ NextBlock                                         \* stored
     \/ Fail /\ UNCHANGED parts                           \* wrong type or lengths
     \/ Goto("fixed") /\ UNCHANGED parts
     \/ Goto("trees") /\ UNCHANGED parts
  /\ UNCHANGED <<input, opened, held, lengths, unsound>>

Fixed ==
  /\ pc = "fixed"
  /\ \/ Goto("fixedDistance") /\ Malloc("tl", "table")
     \/ Fail /\ UNCHANGED held
  /\ UNCHANGED <<input, opened, lengths, parts, unsound>>

FixedDistance ==
  /\ pc = "fixedDistance"
  /\ \/ Goto("codes") /\ Malloc("td", "table")
     \/ Fail /\ Free(Table("tl"))
  /\ UNCHANGED <<input, opened, lengths, parts, unsound>>

Trees ==
  /\ pc = "trees"
  /\ \/ Goto("lengths") /\ Built("trees")
     \/ Fail /\ UNCHANGED held
  /\ UNCHANGED <<input, opened, lengths, parts, unsound>>

(* The lengths of all codes; one repeated too often ends the block at once.  *)
CodeLengths ==
  /\ pc = "lengths"
  /\ \/ Goto("literal") /\ Free(Table("trees")) /\ UNCHANGED unsound
     \/ Fail /\ unsound' = TRUE /\ UNCHANGED held
  /\ UNCHANGED <<input, opened, lengths, parts>>

Literal ==
  /\ pc = "literal"
  /\ \/ Goto("distance") /\ Built("tl")
     \/ Fail /\ UNCHANGED held
  /\ UNCHANGED <<input, opened, lengths, parts, unsound>>

Distance ==
  /\ pc = "distance"
  /\ \/ Goto("codes") /\ Built("td")
     \/ Fail /\ Free(Table("tl"))
  /\ UNCHANGED <<input, opened, lengths, parts, unsound>>

Codes ==
  /\ pc = "codes"
  /\ \/ NextBlock /\ Free(Table("tl") \cup Table("td")) /\ UNCHANGED unsound
     \/ Fail /\ unsound' = TRUE /\ UNCHANGED <<held, parts>>
  /\ UNCHANGED <<input, opened, lengths>>

-----------------------------------------------------------------------------
(* The data are returned; a wrong check sum or length is only reported.      *)
Unzipped ==
  /\ pc = "unzipped"
  /\ Free(FileIfNotRom(oldlen))
  /\ Return("out")
  /\ UNCHANGED <<input, opened, lengths, parts, unsound>>

Failed ==
  /\ pc = "failed"
  /\ Free(FileIfNotRom(oldlen) \cup {<<"out", "real">>})
  /\ Return("null")
  /\ UNCHANGED <<input, opened, lengths, parts, unsound>>

Next ==
  \/ LookInRom \/ Open \/ Header \/ ReadIndex \/ Search \/ Buffer \/ Read \/ Method \/ Out
  \/ Block \/ Fixed \/ FixedDistance \/ Trees \/ CodeLengths \/ Literal \/ Distance \/ Codes
  \/ Unzipped \/ Failed

Spec == Init /\ [][Next]_vars

-----------------------------------------------------------------------------
Returned ==
  CASE result = "file" -> {<<"file", filelen>>}
    [] result = "out" -> {<<"out", filelen>>}
    [] OTHER -> {}

(* However the call ends, with whatever failing, the file is closed and the  *)
(* only memory the call holds is the block it returns, of the length it      *)
(* reports.  The one exception is the code's own: wrong codes in the middle  *)
(* of a block leave the tables of that block behind.                         *)
ReturnsClean ==
  /\ TypeOK
  /\ pc = "over" =>
       /\ ~opened
       /\ Returned \subseteq held
       /\ held \ Returned \subseteq IF unsound THEN Tables \X {"table"} ELSE {}
=============================================================================
