----------------------------- MODULE SmsCfg -----------------------------
(***************************************************************************)
(* The SMS configuration of the Mythroad machine: a block of sections in   *)
(* memory, loaded from a file, changed by the chunks of configuration SMSs *)
(* or by an application, and written back as a whole. The file is named    *)
(* without a path (the build does not define MR_CFG_USE_A_DISK), so that   *)
(* there is one in every directory an application may be in.               *)
(*                                                                         *)
(* The block is kept as its cells, on a reduced scale: a section has       *)
(* Section cells and a number NumLen of them. A chunk the code refuses     *)
(* ends its SMS after the chunks before it were applied and saved, so the  *)
(* shorter SMS stands for it.                                              *)
(***************************************************************************)
EXTENDS Integers, Sequences, SequencesExt, WorkPath

CONSTANTS
  Section,    \* MR_SECTION_LEN
  NumLen,     \* MR_MAX_NUM_LEN
  MsgSlots,   \* the sections for messages
  Numbers, MsgPlaces, Vals, Default, MaxChunks,
  MaxChanges, \* bound: the changes that wait for a save
  Requests,   \* the drives and paths an application switches to
  Asked,      \* those after which it asks where it is
  Faults      \* what may go wrong with the file: "read", "open", "write"

ASSUME SmsCfgAssumption ==
  /\ Section \in Nat \ {0} /\ NumLen \in Nat \ {0} /\ MsgSlots \in Nat
  /\ 3 + MsgSlots <= Section
  /\ Numbers \subseteq Nat /\ MsgPlaces \subseteq 0 .. MsgSlots - 1
  /\ \A i \in Numbers : Default[i] \in Int
  /\ MaxChunks \in Nat /\ MaxChanges \in Nat \ {0} /\ MaxChunks <= MaxChanges
  /\ Requests \cup Asked \subseteq [drive: STRING, path: Seq(STRING)]

BufLen == Section * (4 + MsgSlots)   \* MR_SMS_CFG_BUF_LEN
Cells == 0 .. BufLen - 1
UseMsgAt == 0    \* CFG_USE_SM_UPDATE_OFFSET
UnicodeAt == 1   \* CFG_USE_UNICODE_OFFSET
UseUrlAt == 2    \* CFG_USE_URL_UPDATE_OFFSET
MsgFlagAt == 3   \* CFG_SM_FLAG_OFFSET
NumberAt(i) == NumLen * i + Section
UrlAt == Section * 3
MsgAt(k) == Section * (k + 4)
Absent == <<>>

VARIABLES
  buf,       \* mr_sms_cfg_buf
  needSave,  \* mr_sms_cfg_need_save
  workPath,  \* dsmWorkPath
  file,      \* in each directory the file, or Absent
  from,      \* history: the directory whose file buf was read from or written to
  pending    \* history: what was changed in buf since then

vars == <<buf, needSave, workPath, file, from, pending>>

Dirs == {DsmPath} \cup {Switched(r) : r \in Requests}

Zero == [p \in Cells |-> 0]

(* Mutant: one cell too many. *)
SetBytesOneMore(b, pos, len, v) ==
  IF pos + len >= BufLen THEN b
  ELSE [p \in Cells |-> IF pos <= p /\ p <= pos + len THEN v ELSE b[p]]
(* _mr_smsSetBytes: refused when the end reaches the end of the block. *)
SetBytes(b, pos, len, v) ==
  IF pos + len >= BufLen THEN b
  ELSE [p \in Cells |-> IF pos <= p /\ p < pos + len THEN v ELSE b[p]]

AddNum(b, i, v) == SetBytes(b, NumberAt(i), NumLen, v)

(* Mutant: the address is stored and not marked as to be used. *)
UpdateURLUnmarked(b, v) == SetBytes(b, UrlAt, Section, v)

UpdateURL(b, v) == SetBytes(SetBytes(b, UseUrlAt, 1, 128), UrlAt, Section, v)
DsmSave(b, k, v) ==
  SetBytes(SetBytes(SetBytes(b, UseMsgAt, 1, 128), MsgFlagAt + k, 1, 128), MsgAt(k), Section, v)

Executed(b, c) ==
  CASE c.op = "add" -> AddNum(b, c.at, c.val)
    [] c.op = "del" -> AddNum(b, c.at, 0)
    [] c.op = "url" -> UpdateURL(b, c.val)
    [] c.op = "unicode" -> SetBytes(b, UnicodeAt, 1, c.val)
    [] c.op = "msg" -> DsmSave(b, c.at, c.val)

(* The chunks of an SMS, from the first to the last. *)
ExecutedAll(b, cmds) ==
  LET after[n \in 0 .. Len(cmds)] ==
        IF n = 0 THEN b ELSE Executed(after[n - 1], cmds[n])
  IN  after[Len(cmds)]

(* _mr_load_sms_cfg: the file, or the default numbers, which are to be saved. *)
Defaults == [p \in Cells |->
  IF \E i \in Numbers : NumberAt(i) <= p /\ p < NumberAt(i) + NumLen
    THEN Default[CHOOSE i \in Numbers : NumberAt(i) <= p /\ p < NumberAt(i) + NumLen]
    ELSE 0]
LoadedFrom(d) == IF file[d] = Absent THEN Defaults ELSE file[d]
Loaded == LoadedFrom(workPath)
LoadNeedsSave == file[workPath] = Absent

(* Or, when the file is there and cannot be opened, nothing: every caller      *)
(* goes on with the block of zeros.                                          *)
Loads == {[buf |-> Loaded, need |-> LoadNeedsSave]}
  \cup (IF "read" \in Faults /\ file[workPath] # Absent THEN {[buf |-> Zero, need |-> FALSE]} ELSE {})

-----------------------------------------------------------------------------
(* What the file says at a place: its content, when all cells agree, or -1.  *)
Field(b, pos, len) ==
  IF \A p \in pos .. pos + len - 1 : b[p] = b[pos] THEN b[pos] ELSE -1
View(b) ==
  [num |-> [i \in Numbers |-> Field(b, NumberAt(i), NumLen)],
   url |-> Field(b, UrlAt, Section), useUrl |-> b[UseUrlAt], unicode |-> b[UnicodeAt],
   msg |-> [k \in MsgPlaces |-> Field(b, MsgAt(k), Section)], useMsg |-> b[UseMsgAt]]

Store == INSTANCE SmsStore WITH
  Launch <- DsmPath, MaxChunks <- MaxChanges, store <- [d \in Dirs |-> View(LoadedFrom(d))]

(* One SMS: configuration commands, or one message to keep. *)
Sms == SeqOf(Store!Commands, MaxChunks) \cup {<<m>> : m \in Store!Messages}

Blocks == [Cells -> Vals \cup {0, 128} \cup {Default[i] : i \in Numbers}]

TypeOK ==
  /\ buf \in Blocks
  /\ workPath \in Dirs /\ from \in Dirs
  /\ DOMAIN file = Dirs /\ \A d \in Dirs : file[d] = Absent \/ file[d] \in Blocks
  /\ needSave \in BOOLEAN
  /\ pending \in Seq(Store!Commands \cup Store!Messages)

Init ==
  /\ buf = Zero
  /\ needSave = FALSE
  /\ workPath = DsmPath
  /\ file = [d \in Dirs |-> Absent]
  /\ from = DsmPath
  /\ pending = <<>>

(* _mr_save_sms_cfg of the block b, changed by cmds since it was loaded: the  *)
(* flag is cleared, the file opened and written, or the changes stay in memory*)
(* only, where they belong to the file of origin.                             *)
Save(b, need, cmds, origin) ==
  /\ needSave' = FALSE
  /\ buf' = b
  /\ UNCHANGED workPath
  /\ \/ need /\ file' = [file EXCEPT ![workPath] = b] /\ from' = workPath /\ pending' = <<>>
     \/ (need => Faults \cap {"open", "write"} # {})
        /\ from' = origin /\ pending' = cmds /\ UNCHANGED file

(* mr_smsIndiaction: load, execute the chunks, save. *)
SmsIndication(cmds) == \E l \in Loads :
  Save(ExecutedAll(l.buf, cmds), l.need \/ cmds # <<>>, cmds, workPath)

(* _mr_newSIMInd: load and save; the numbers are then only read. *)
NewSIM == \E l \in Loads : Save(l.buf, l.need, <<>>, workPath)

(* An application loads the block, changes it in place and saves it. *)
AppLoad ==
  /\ \E l \in Loads : buf' = l.buf /\ needSave' = l.need
  /\ from' = workPath
  /\ pending' = <<>>
  /\ UNCHANGED <<workPath, file>>

AppSet(c) ==
  /\ buf # Zero
  /\ Len(pending) < MaxChanges
  /\ buf' = Executed(buf, c)
  /\ needSave' = TRUE
  /\ pending' = Append(pending, c)
  /\ UNCHANGED <<workPath, file, from>>

AppSave ==
  /\ buf # Zero
  /\ Save(buf, needSave, pending, from)

(* An application goes to another directory; the block stays in memory.      *)
SwitchPath(request) ==
  /\ workPath' = Switched(request)
  /\ UNCHANGED <<buf, needSave, file, from, pending>>

Next ==
  \/ \E cmds \in Sms : SmsIndication(cmds)
  \/ NewSIM
  \/ AppLoad
  \/ \E c \in Store!Commands : AppSet(c)
  \/ AppSave
  \/ \E request \in Requests : SwitchPath(request)

Spec == Init /\ [][Next]_vars

-----------------------------------------------------------------------------
(* Every SMS and every save of an application changes the stored numbers,    *)
(* address and messages as its commands say, one by one, and nothing else;   *)
(* a save that fails changes nothing, and what it did not save comes with    *)
(* the next save or is dropped by the next load. All this holds for the file *)
(* of the present directory, and the others stay as they are.                *)
ImplementsStore == Store!Spec

(* What is in memory and not in the file is what was changed since the load. *)
NothingUnaccounted ==
  /\ TypeOK
  /\ buf # Zero => View(buf) = Store!AppliedAll(View(LoadedFrom(from)), pending)

Reached == {Switched(r) : r \in Asked}

(* dsmSwitchPath: an application that asks where it is (Y), goes elsewhere   *)
(* and switches to the answer is back in its directory, whatever drive and   *)
(* path took it there, exactly if it did not enter a hidden directory by its *)
(* name on the card. It is no matter of the block, so that the states before *)
(* the first load are enough to look at.                                     *)
PathComesBack == buf = Zero => ComesBack(Reached)
=============================================================================
