------------------------------ MODULE PlainApp ------------------------------
(***************************************************************************)
(* Module Emulator with a history variable that tells the apps that never  *)
(* asked for background timers nor set hooks. For such an app nothing runs *)
(* behind the user's back.                                                 *)
(***************************************************************************)
EXTENDS Emulator

VARIABLE plain  \* history: no app of this process asked for either

PlainInit == Init /\ plain = TRUE
PlainNext ==
  /\ Next
  /\ plain' = (ui' = "none" \/ (plain /\ ~mr_timer_run_without_pause' /\ ~hooks'))
PlainSpec == PlainInit /\ [][PlainNext]_<<vars, plain>> /\ Fairness

(* An app that never asked for background timers nor set hooks has no timer *)
(* running once it is paused, nor does it run while the activity is in the  *)
(* background and its messages are handled: pause also holds back the start *)
(* of the next app.                                                         *)
PlainIsPaused == plain => PausedIsQuiet /\ BackgroundIsPaused
=============================================================================
