---------------------------- MODULE WorkPath ----------------------------
(***************************************************************************)
(* The directories of an application. Every file it names is taken from    *)
(* one work path, which it switches by naming a drive and a path on it:    *)
(* the card is C, and A and B are kept hidden below the launch directory.  *)
(*                                                                         *)
(* A path is the sequence of its names, as FormatPathString leaves it: the *)
(* separators, their doubling and the 128 bytes a path may have are not    *)
(* told apart. A name other than a drive has three letters or more, and    *)
(* only the hidden directory's ends in its name.                           *)
(***************************************************************************)
EXTENDS Integers, Sequences, SequencesExt

CONSTANTS
  DsmPath,   \* dsmPath: the launch directory, below the root of the card
  Initial    \* the drive a name is taken for: its first letter

Hide == ".disk"    \* DSM_HIDE_DRIVE
Sys == "mythroad"  \* DSM_ROOT_PATH_SYS
Drives == {"a", "b"}

ASSUME WorkPathAssumption == DsmPath \in Seq(STRING) /\ Hide \notin ToSet(DsmPath)

OnDrive(d) == DsmPath \o <<Hide, d>>

(* Mutant: drive B is looked for in A. *)
SwitchedBisA(request) ==
  CASE request.drive = "z" -> DsmPath
    [] request.drive = "x" -> OnDrive("a") \o <<Sys>>
    [] request.drive \in Drives -> OnDrive("a") \o request.path
    [] OTHER -> request.path

(* dsmSwitchPath with a drive: Z is the launch directory, X the system's.    *)
Switched(request) ==
  CASE request.drive = "z" -> DsmPath
    [] request.drive = "x" -> OnDrive("a") \o <<Sys>>
    [] request.drive \in Drives -> OnDrive(request.drive) \o request.path
    [] OTHER -> request.path

(* Where the first hidden directory stands in a path, or 0. *)
FirstHidden(work) ==
  LET places == {i \in DOMAIN work : work[i] = Hide}
  IN  IF places = {} THEN 0 ELSE Min(places)

(* dsmSwitchPath with Y: the work path as a drive and a path. What follows   *)
(* the first hidden directory is taken for a drive of one letter; when it is *)
(* longer, its first letter and what follows the second are reported; and    *)
(* with nothing behind it the answer is empty, which is the root of the card.*)
Reported(work) ==
  LET hidden == FirstHidden(work)
      rest == SubSeq(work, hidden + 2, Len(work))
  IN  IF hidden = 0 THEN [drive |-> "c", path |-> work]
      ELSE IF hidden = Len(work) THEN [drive |-> "c", path |-> <<>>]
      ELSE IF work[hidden + 1] \in Drives
        THEN [drive |-> work[hidden + 1], path |-> rest]
        ELSE [drive |-> Initial[work[hidden + 1]], path |-> <<"cut">> \o rest]

(* A work path that was reached by a drive, or stays clear of the drives.    *)
Proper(work) == Hide \notin ToSet(work) \/ \E d \in Drives : IsPrefix(OnDrive(d), work)

ComesBack(works) == \A work \in works : Switched(Reported(work)) = work <=> Proper(work)
=============================================================================
