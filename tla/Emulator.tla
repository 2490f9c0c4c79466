------------------------------ MODULE Emulator ------------------------------
(***************************************************************************)
(* The emulator process: the handler thread of Emulator.java, which runs   *)
(* the virtual machine of module Mythroad, and the UI thread, on which     *)
(* Android drives EmulatorActivity.  The two meet in the handler's queue,  *)
(* in `running' and in Activity.finish.                                    *)
(*                                                                         *)
(* A message sent without delay waits behind those sent before it.  A      *)
(* TIMER_OUT has a delay: it comes at any time once the messages sent      *)
(* before it are done, before or after other TIMER_OUTs.                   *)
(*                                                                         *)
(* One process shows one activity, from onCreate to the death of the       *)
(* process; then a new process may start.                                  *)
(***************************************************************************)
EXTENDS Mythroad

CONSTANT MaxPosted    \* bound: with so many messages waiting nobody resumes,
                      \* stops, touches or closes

ASSUME EmulatorAssumption == MaxPosted \in Nat

VARIABLE ui           \* the life cycle of the activity; "none": no process

vars == <<machine, native, java, timers, calling, ui>>

Lifecycle == {"none", "created", "resumed", "paused", "destroyed"}

Messages == {"START", "PAUSE", "RESUME", "STOP", "EVENT", "EXIT"}

Init == MythroadInit /\ ui = "none"

-----------------------------------------------------------------------------
(* The UI thread. *)

Room == Len(posted) < MaxPosted

vm == <<machine, native, timers, calling, running>>

Send(what) == posted' = Append(posted, what) /\ UNCHANGED vm

(* emulator.init and emulator.startMrp                                     *)
onCreate ==
  ui = "none" /\ ui' = "created" /\ Send("START") /\ UNCHANGED finishing

onResume ==
  /\ ui \in {"created", "paused"}
  /\ ~finishing
  /\ Room
  /\ ui' = "resumed"
  /\ Send("RESUME")
  /\ UNCHANGED finishing

onPause ==
  ui = "resumed" /\ ui' = "paused" /\ Send("PAUSE") /\ UNCHANGED finishing

(* Mutant: the VM is stopped but the process is left.                      *)
onDestroyStops ==
  /\ ui = "paused" \/ (ui = "created" /\ finishing)
  /\ ui' = "destroyed"
  /\ Send("STOP")
  /\ UNCHANGED finishing

(* After finish(), or because Android takes back a paused activity.        *)
onDestroy ==
  /\ ui = "paused" \/ (ui = "created" /\ finishing)
  /\ ui' = "destroyed"
  /\ Send("EXIT")
  /\ UNCHANGED finishing

(* The menu entry "close": emulator.stop, then finish.                     *)
closeMrp ==
  ui = "resumed" /\ Room /\ Send("STOP") /\ finishing' = TRUE /\ UNCHANGED ui

(* The dialog of a fatal error, or the service about to start another mrp. *)
stop == ui # "none" /\ Room /\ Send("STOP") /\ UNCHANGED <<finishing, ui>>

(* A key or a touch while the activity is in front; the result of an SMS   *)
(* at any time.                                                            *)
postMrpEvent ==
  ui # "none" /\ running /\ Room /\ Send("EVENT") /\ UNCHANGED <<finishing, ui>>

(* The process is gone, and with it all its state.                         *)
Gone ==
  /\ mr_state' = "IDLE"
  /\ mr_timer_state' = "IDLE"
  /\ mr_timer_run_without_pause' = FALSE
  /\ hooks' = FALSE
  /\ old_pack_filename' = FALSE
  /\ arenas' = 0
  /\ b_vm_running' = FALSE
  /\ m_bSuspendDraw' = FALSE
  /\ running' = FALSE
  /\ finishing' = FALSE
  /\ posted' = << >>
  /\ timers' = << >>
  /\ calling' = "none"
  /\ armed' = FALSE
  /\ ui' = "none"

(* The menu entry "exit all", or Android killing a process it cannot see.  *)
killProcess == ui \in {"resumed", "paused"} /\ Gone

-----------------------------------------------------------------------------
(* The handler thread.  It takes a message when the last one is done. *)

(* The time-outs, one message nearer to the head of the queue.             *)
Nearer ==
  [i \in DOMAIN timers |->
     [timers[i] EXCEPT !.after = IF @ = 0 THEN 0 ELSE @ - 1]]

startup_i ==
  /\ running' = TRUE
  /\ \/ running /\ timers' = Nearer
        /\ UNCHANGED <<machine, native, calling, finishing>>
     \/ ~running /\ j2n_startMrp(Nearer)

(* exit_i: the process kills itself.                                       *)
exit_i == posted # << >> /\ Head(posted) = "EXIT" /\ calling = "none" /\ Gone

handleMessage ==
  /\ calling = "none"
  /\ posted # << >>
  /\ posted' = Tail(posted)
  /\ \/ Head(posted) = "START"  /\ startup_i
     \/ Head(posted) = "PAUSE"  /\ j2n_pause(Nearer)
     \/ Head(posted) = "RESUME" /\ j2n_resume(Nearer)
     \/ Head(posted) = "STOP"   /\ j2n_stop(Nearer)
     \/ Head(posted) = "EVENT"  /\ mr_event(Nearer)
  /\ UNCHANGED ui

Without(i) == SubSeq(timers, 1, i - 1) \o SubSeq(timers, i + 1, Len(timers))

(* The delay of TIMER_OUT i is over.                                       *)
timeOut(i) ==
  /\ calling = "none"
  /\ timers[i].after = 0
  /\ mr_timer(Without(i))
  /\ UNCHANGED ui

Handle == handleMessage \/ exit_i

TimeOut == \E i \in DOMAIN timers : timeOut(i)

App == AppCall /\ UNCHANGED ui

Return == calling # "none" /\ AppReturns /\ UNCHANGED ui

(* What Android does with an activity that was told to finish.             *)
Finish == finishing /\ (onPause \/ onDestroy)

Next ==
  \/ Handle \/ TimeOut \/ App \/ Return
  \/ onCreate \/ onResume \/ onPause \/ onDestroy
  \/ closeMrp \/ stop \/ postMrpEvent \/ killProcess

(* The looper hands out every message, every delay ends, the app comes     *)
(* back from every call; Android takes a finishing activity through        *)
(* onPause and onDestroy.  Nobody need start, close, touch, leave or come  *)
(* back to the emulator, and no app need make a call.                      *)
Fairness ==
  /\ WF_vars(Handle)
  /\ WF_vars(TimeOut)
  /\ WF_vars(Return)
  /\ WF_vars(Finish)

Spec == Init /\ [][Next]_vars /\ Fairness

-----------------------------------------------------------------------------
(* Properties. *)

(* The values the variables may take.  mr_state is never seen in ERROR.    *)
TypeOK ==
  /\ mr_state \in States \ {"ERROR"}
  /\ mr_timer_state \in TimerStates
  /\ mr_timer_run_without_pause \in BOOLEAN
  /\ hooks \in BOOLEAN
  /\ old_pack_filename \in BOOLEAN
  /\ arenas \in Nat
  /\ b_vm_running \in BOOLEAN
  /\ m_bSuspendDraw \in BOOLEAN
  /\ running \in BOOLEAN
  /\ finishing \in BOOLEAN
  /\ posted \in Seq(Messages)
  /\ timers \in Seq(TimeOuts)
  /\ calling \in AppHandlers \cup {"none"}
  /\ armed \in BOOLEAN
  /\ ui \in Lifecycle

(* A timer the VM believes to be running will go off: the time-out of its  *)
(* last start is in the queue.  Nothing else would ever wake the app.      *)
TimerPending ==
  mr_timer_state = "RUNNING" => \E i \in DOMAIN timers : ~timers[i].stale

(* Across starts, failed starts, changes of app and stops, in any order:   *)
(* the VM holds one arena while it is not idle, and none while it is.      *)
OneArena == arenas = IF mr_state = "IDLE" THEN 0 ELSE 1

(* A change of app that was asked for is on its way unless the activity is *)
(* in the background, however pause and resume cross the request.          *)
RestartPending ==
  mr_state = "RESTART" /\ ~m_bSuspendDraw => mr_timer_state = "RUNNING"

(* A timer the app started and neither stopped nor saw expire is running,  *)
(* or suspended while the app is paused or on the way out of it.  (An app  *)
(* with hooks for pause and resume looks after its timer itself.)          *)
TimerKept ==
  armed /\ ~hooks =>
    \/ mr_timer_state = "RUNNING"
    \/ mr_timer_state = "SUSPENDED"
       /\ (mr_state = "PAUSE" \/ calling = "resume")

(* When the app has exited for good or the VM was stopped, and the         *)
(* callbacks of its threads are cut off, no app runs and the window closes. *)
ExitCloses ==
  /\ mr_state = "STOP" => ~b_vm_running
  /\ running /\ ~b_vm_running => finishing /\ mr_state \in {"IDLE", "STOP"}

(* A stopped VM stays stopped, whatever messages sent before the stop are  *)
(* still in the queue: time-outs, resumes, keys.                           *)
StoppedStays ==
  [][running /\ mr_state = "IDLE" /\ running' => mr_state' = "IDLE"]_vars

(* An app without background timers has no running timer once it is        *)
(* paused.                                                                 *)
PausedIsQuiet ==
  mr_state = "PAUSE" /\ calling = "none" => mr_timer_state # "RUNNING"

(* When the activity is in the background and its messages are handled, no *)
(* app runs: pause also holds back the start of the next one.              *)
BackgroundIsPaused ==
  ui = "paused" /\ posted = << >> => mr_state # "RUN"

(* The process of an activity that was told to finish goes away.           *)
FinishEnds == finishing ~> ui = "none"

(* If the activity stays in front, a change of app is carried through: the *)
(* VM does not wait for ever without one (the new app may ask at once for  *)
(* another change).                                                        *)
Restart == mr_state = "RESTART" /\ mr_timer_state = "RUNNING" /\ TimeOut

RestartHappens ==
  <>[](ui = "resumed") =>
    []<>(mr_state # "RESTART") \/ []<><<Restart>>_vars

(* mr/mrporting.h, 233: the timer event is called when the timer expires.  *)
(* (A start of the timer replaces the one before; the time-out that calls  *)
(* the app's timer event is the one of the last start.)                    *)
TimerOnExpiry ==
  [][\A i \in DOMAIN timers :
       timeOut(i) /\ mr_timer_state = "RUNNING" /\ Served => ~timers[i].stale]_vars
=============================================================================
