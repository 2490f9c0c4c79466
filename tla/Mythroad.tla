------------------------------ MODULE Mythroad ------------------------------
(***************************************************************************)
(* The life cycle of the Mythroad virtual machine: mr/mythroad_mini.c and  *)
(* the porting layer under it (dsm.c, emulator.c), down to the methods of  *)
(* Emulator.java that start and stop its only timer.                       *)
(*                                                                         *)
(* All of it runs on one thread, "mrp", which takes one message at a time  *)
(* from its queue (module Emulator).  An entry point is one action here up *)
(* to the place where it calls into the app, and what the entry point does *)
(* after that is part of AppReturns: meanwhile the app makes its calls,    *)
(* each an action, and the UI thread runs too.                             *)
(*                                                                         *)
(* The app is native code loaded from a file.  It may make any call while  *)
(* it is being called, except that it makes none after it asked to leave   *)
(* (MRF_RunFile, MRF_Exit).                                                *)
(***************************************************************************)
EXTENDS Naturals, Sequences

CONSTANTS
  AppCalls,     \* the calls the apps make
  MaxTimers     \* bound: no app starts a timer with so many time-outs pending

ASSUME MythroadAssumption ==
  /\ AppCalls \subseteq {"timerStart", "timerStop", "runFile", "exit",
                         "background", "foreground", "oldPack", "hooks"}
  /\ MaxTimers \in Nat

VARIABLES
  mr_state,
  mr_timer_state,
  mr_timer_run_without_pause,
  hooks,              \* mr_pauseApp_function and mr_resumeApp_function set
  old_pack_filename,  \* whether it is set: an exit goes back to that app
  arenas,             \* how many blocks of mr_mem_get were not given back
  b_vm_running,       \* emulator.c
  m_bSuspendDraw,     \* emulator.c
  running,            \* Emulator.java
  finishing,          \* Activity.finish was called
  posted,             \* the messages sent to the handler without delay
  timers,             \* its TIMER_OUTs
  calling,            \* which call into the app the thread is in
  armed               \* history: the app is owed a call of its timer event

machine == <<mr_state, mr_timer_state, mr_timer_run_without_pause, hooks,
             old_pack_filename, arenas, armed>>
native == <<b_vm_running, m_bSuspendDraw>>
java == <<running, finishing, posted>>

States == {"IDLE", "RUN", "PAUSE", "RESTART", "STOP", "ERROR"}
TimerStates == {"IDLE", "RUNNING", "SUSPENDED"}

(* "handler" stands for the calls after which the entry point just returns: *)
(* init, event, timer, and the hooks.                                      *)
AppHandlers == {"handler", "pause", "resume", "exit"}

(* `after' counts the posted messages sent before the timer was started.   *)
(* `stale' is history: the timer was started again since.                  *)
TimeOuts == [after : Nat, stale : BOOLEAN]

MythroadInit ==
  /\ mr_state = "IDLE"
  /\ mr_timer_state = "IDLE"
  /\ mr_timer_run_without_pause = FALSE
  /\ hooks = FALSE
  /\ old_pack_filename = FALSE
  /\ arenas = 0
  /\ b_vm_running = FALSE
  /\ m_bSuspendDraw = FALSE
  /\ running = FALSE
  /\ finishing = FALSE
  /\ posted = << >>
  /\ timers = << >>
  /\ calling = "none"
  /\ armed = FALSE

-----------------------------------------------------------------------------
(* The timer.  ts: the time-outs in the queue before the operation. *)

Outdated(ts) == [i \in DOMAIN ts |-> [ts[i] EXCEPT !.stale = TRUE]]

(* An older time-out stays in the queue.                                   *)
N2J_timerStart(ts) ==
  timers' = IF running
              THEN Append(Outdated(ts),
                          [after |-> Len(posted'), stale |-> FALSE])
              ELSE ts

N2J_timerStop(ts) == timers' = IF running THEN << >> ELSE ts

MR_TIME_START(ts) == N2J_timerStart(ts) /\ mr_timer_state' = "RUNNING"

(* Mutant: the VM goes on believing that the timer runs.                   *)
MR_TIME_STOPKeepsState(ts) == N2J_timerStop(ts) /\ UNCHANGED mr_timer_state

MR_TIME_STOP(ts) == N2J_timerStop(ts) /\ mr_timer_state' = "IDLE"

TimerAsItWas(ts) == timers' = ts /\ UNCHANGED mr_timer_state

-----------------------------------------------------------------------------
(* What the app may call. *)

(* The app gets its events: it runs, or it is paused and asked for them.   *)
Served ==
  \/ mr_state = "RUN"
  \/ mr_timer_run_without_pause /\ mr_state = "PAUSE"

MRF_TimerStart ==
  /\ Len(timers) < MaxTimers
  /\ IF Served THEN MR_TIME_START(timers) /\ armed' = TRUE
               ELSE UNCHANGED <<timers, mr_timer_state, armed>>
  /\ UNCHANGED <<mr_state, mr_timer_run_without_pause, hooks,
                 old_pack_filename, arenas, finishing, native>>

MRF_TimerStop ==
  /\ MR_TIME_STOP(timers)
  /\ armed' = FALSE
  /\ UNCHANGED <<mr_state, mr_timer_run_without_pause, hooks,
                 old_pack_filename, arenas, finishing, native>>

MRF_RunFile ==
  /\ Len(timers) < MaxTimers
  /\ MR_TIME_START(timers)
  /\ mr_state' = "RESTART"
  /\ armed' = FALSE
  /\ UNCHANGED <<mr_timer_run_without_pause, hooks, old_pack_filename, arenas,
                 finishing, native>>

(* Mutant: the activity is not told.                                       *)
mr_exitNoFinish ==
  b_vm_running' = FALSE /\ UNCHANGED <<finishing, m_bSuspendDraw>>

(* dsm.c's mr_exit; N2J_finish asks the activity to finish.                *)
mr_exit ==
  /\ finishing' = (finishing \/ running)
  /\ b_vm_running' = FALSE
  /\ UNCHANGED m_bSuspendDraw

MRF_Exit ==
  \/ old_pack_filename /\ MRF_RunFile
  \/ /\ ~old_pack_filename
     /\ mr_exit
     /\ mr_state' = "STOP"
     /\ armed' = FALSE
     /\ UNCHANGED <<mr_timer_state, timers, mr_timer_run_without_pause, hooks,
                    old_pack_filename, arenas>>

(* Call 407 of _mr_TestCom.  An app that gives up its background timers    *)
(* while it is paused gives up the one that runs.                          *)
RunWithoutPause(on) ==
  /\ mr_timer_run_without_pause' = on
  /\ armed' = (armed /\ (on \/ mr_state # "PAUSE"))
  /\ UNCHANGED <<mr_state, mr_timer_state, timers, hooks, old_pack_filename,
                 arenas, finishing, native>>

(* Call 3 of _mr_TestCom1.                                                 *)
SetOldPack ==
  /\ old_pack_filename' = TRUE
  /\ UNCHANGED <<mr_state, mr_timer_state, timers, mr_timer_run_without_pause,
                 hooks, arenas, armed, finishing, native>>

(* Calls 5 and 6 of _mr_TestCom.  The hooks deal with the timer themselves  *)
(* and answer anything but MR_IGNORE.                                      *)
SetHooks ==
  /\ hooks' = TRUE
  /\ UNCHANGED <<mr_state, mr_timer_state, timers, mr_timer_run_without_pause,
                 old_pack_filename, arenas, armed, finishing, native>>

AppCall ==
  /\ calling # "none"
  /\ mr_state \in {"RUN", "PAUSE"}
  /\ UNCHANGED <<running, posted, calling>>
  /\ \/ "timerStart" \in AppCalls /\ MRF_TimerStart
     \/ "timerStop"  \in AppCalls /\ MRF_TimerStop
     \/ "runFile"    \in AppCalls /\ MRF_RunFile
     \/ "exit"       \in AppCalls /\ MRF_Exit
     \/ "background" \in AppCalls /\ RunWithoutPause(TRUE)
     \/ "foreground" \in AppCalls /\ RunWithoutPause(FALSE)
     \/ "oldPack"    \in AppCalls /\ SetOldPack
     \/ "hooks"      \in AppCalls /\ SetHooks

-----------------------------------------------------------------------------
(* The entry points.  ts: the time-outs left when the message was taken.   *)

(* What mr_stop_ex does once the app had its MR_EXIT_EVENT.  mr_timerStop  *)
(* is commented out: a time-out may stay in the queue.                     *)
StopRest(ts) ==
  /\ mr_state' = "IDLE"
  /\ mr_timer_state' = "IDLE"
  /\ mr_timer_run_without_pause' = FALSE
  /\ armed' = FALSE
  /\ arenas' = arenas - 1
  /\ timers' = ts
  /\ UNCHANGED <<hooks, old_pack_filename>>

(* j2n_stop: mr_stop, then mr_exit.  An app that runs or is paused gets    *)
(* MR_EXIT_EVENT first.  (A stop hook is taken to end in mr_stop_ex, which *)
(* the function table offers it.)                                          *)
j2n_stop(ts) ==
  \/ /\ mr_state = "IDLE"
     /\ mr_exit
     /\ timers' = ts
     /\ UNCHANGED <<machine, calling, running>>
  \/ /\ mr_state \in {"RUN", "PAUSE"}
     /\ calling' = "exit"
     /\ timers' = ts
     /\ UNCHANGED <<machine, native, running, finishing>>
  \/ /\ mr_state \in {"RESTART", "STOP"}
     /\ StopRest(ts)
     /\ mr_exit
     /\ UNCHANGED <<calling, running>>

(* Mutant: an app that cannot be loaded leaves its arena and its state.    *)
_mr_intra_startNoStop(held) ==
  /\ mr_timer_state' = "IDLE"
  /\ mr_timer_run_without_pause' = FALSE
  /\ hooks' = FALSE
  /\ armed' = FALSE
  /\ arenas' = held + 1
  /\ \/ mr_state' = "RUN"   /\ calling' = "handler"
     \/ mr_state' = "ERROR" /\ calling' = "none"

(* Takes one more arena than `held'; loads the app and calls its init, or  *)
(* finds neither it nor logo.ext and stops again, in state ERROR.          *)
_mr_intra_start(held) ==
  /\ mr_timer_state' = "IDLE"
  /\ mr_timer_run_without_pause' = FALSE
  /\ hooks' = FALSE
  /\ armed' = FALSE
  /\ \/ mr_state' = "RUN"  /\ arenas' = held + 1 /\ calling' = "handler"
     \/ mr_state' = "IDLE" /\ arenas' = held     /\ calling' = "none"

j2n_startMrp(ts) ==
  /\ b_vm_running' = TRUE
  /\ old_pack_filename' = FALSE
  /\ _mr_intra_start(arenas)
  /\ timers' = ts
  /\ UNCHANGED <<m_bSuspendDraw, finishing>>

(* Mutant: a change of app is not held back.                               *)
mr_pauseAppNotRestart(ts) ==
  /\ TimerAsItWas(ts)
  /\ \/ mr_state = "RUN" /\ mr_state' = "PAUSE" /\ calling' = "pause"
     \/ mr_state # "RUN" /\ UNCHANGED <<mr_state, calling>>

mr_pauseApp(ts) ==
  \/ /\ mr_state = "RUN"
     /\ mr_state' = "PAUSE"
     /\ calling' = IF hooks THEN "handler" ELSE "pause"
     /\ TimerAsItWas(ts)
  \/ /\ mr_state = "RESTART"
     /\ MR_TIME_STOP(ts)
     /\ UNCHANGED <<mr_state, calling>>
  \/ /\ mr_state \notin {"RUN", "RESTART"}
     /\ TimerAsItWas(ts)
     /\ UNCHANGED <<mr_state, calling>>

(* Mutants: a change of app that was held back is forgotten; an app that   *)
(* is not paused is resumed.                                               *)
mr_resumeAppNotRestart(ts) ==
  /\ TimerAsItWas(ts)
  /\ \/ mr_state = "PAUSE" /\ mr_state' = "RUN" /\ calling' = "resume"
     \/ mr_state # "PAUSE" /\ UNCHANGED <<mr_state, calling>>

mr_resumeAppAnyState(ts) ==
  \/ mr_state # "RESTART" /\ mr_state' = "RUN" /\ calling' = "resume"
     /\ TimerAsItWas(ts)
  \/ mr_state = "RESTART" /\ MR_TIME_START(ts) /\ UNCHANGED <<mr_state, calling>>

mr_resumeApp(ts) ==
  \/ /\ mr_state = "PAUSE"
     /\ mr_state' = "RUN"
     /\ calling' = IF hooks THEN "handler" ELSE "resume"
     /\ TimerAsItWas(ts)
  \/ /\ mr_state = "RESTART"
     /\ MR_TIME_START(ts)
     /\ UNCHANGED <<mr_state, calling>>
  \/ /\ mr_state \notin {"PAUSE", "RESTART"}
     /\ TimerAsItWas(ts)
     /\ UNCHANGED <<mr_state, calling>>

j2n_pause(ts) ==
  /\ m_bSuspendDraw' = TRUE
  /\ mr_pauseApp(ts)
  /\ UNCHANGED <<mr_timer_run_without_pause, hooks, old_pack_filename, arenas,
                 armed, b_vm_running, running, finishing>>

j2n_resume(ts) ==
  /\ m_bSuspendDraw' = FALSE
  /\ mr_resumeApp(ts)
  /\ UNCHANGED <<mr_timer_run_without_pause, hooks, old_pack_filename, arenas,
                 armed, b_vm_running, running, finishing>>

mr_event(ts) ==
  /\ calling' = IF Served THEN "handler" ELSE "none"
  /\ timers' = ts
  /\ UNCHANGED <<machine, native, running, finishing>>

(* Mutant: the old app is not stopped before the new one starts.           *)
mr_timerNoStop(ts) ==
  /\ timers' = ts
  /\ \/ mr_timer_state # "RUNNING" /\ UNCHANGED <<machine, calling>>
     \/ /\ mr_timer_state = "RUNNING"
        /\ mr_state = "RESTART"
        /\ _mr_intra_start(arenas)
        /\ UNCHANGED old_pack_filename
     \/ /\ mr_timer_state = "RUNNING"
        /\ mr_state # "RESTART"
        /\ mr_timer_state' = "IDLE"
        /\ armed' = (armed /\ ~Served)
        /\ calling' = IF Served THEN "handler" ELSE "none"
        /\ UNCHANGED <<mr_state, mr_timer_run_without_pause, hooks,
                       old_pack_filename, arenas>>
  /\ UNCHANGED <<native, java>>

(* The timer event of the app, or the change of app that waited for it:    *)
(* mr_stop gives back the arena of the old one (in state RESTART it calls  *)
(* nobody) and _mr_intra_start takes one for the new.                      *)
mr_timer(ts) ==
  /\ timers' = ts
  /\ \/ mr_timer_state # "RUNNING" /\ UNCHANGED <<machine, calling>>
     \/ /\ mr_timer_state = "RUNNING"
        /\ Served
        /\ mr_timer_state' = "IDLE"
        /\ armed' = FALSE
        /\ calling' = "handler"
        /\ UNCHANGED <<mr_state, mr_timer_run_without_pause, hooks,
                       old_pack_filename, arenas>>
     \/ /\ mr_timer_state = "RUNNING"
        /\ mr_state = "RESTART"
        /\ _mr_intra_start(arenas - 1)
        /\ UNCHANGED old_pack_filename
     \/ /\ mr_timer_state = "RUNNING"
        /\ ~Served
        /\ mr_state # "RESTART"
        /\ mr_timer_state' = "IDLE"
        /\ UNCHANGED <<mr_state, mr_timer_run_without_pause, hooks,
                       old_pack_filename, arenas, armed, calling>>
  /\ UNCHANGED <<native, java>>

-----------------------------------------------------------------------------
(* The app comes back; the rest of the entry point that called it. *)

(* Mutant: the two assignments of the timer's state swapped.               *)
SuspendThenStop ==
  IF ~mr_timer_run_without_pause /\ mr_timer_state = "RUNNING"
    THEN MR_TIME_STOP(timers)
    ELSE TimerAsItWas(timers)

Suspend ==
  IF ~mr_timer_run_without_pause /\ mr_timer_state = "RUNNING"
    THEN N2J_timerStop(timers) /\ mr_timer_state' = "SUSPENDED"
    ELSE TimerAsItWas(timers)

Unsuspend ==
  IF mr_timer_state = "SUSPENDED" THEN MR_TIME_START(timers)
                                  ELSE TimerAsItWas(timers)

AppReturns ==
  /\ calling' = "none"
  /\ UNCHANGED <<running, posted>>
  /\ \/ /\ calling \in {"handler", "pause", "resume"}
        /\ \/ calling = "handler" /\ TimerAsItWas(timers)
           \/ calling = "pause"   /\ Suspend
           \/ calling = "resume"  /\ Unsuspend
        /\ UNCHANGED <<mr_state, mr_timer_run_without_pause, hooks,
                       old_pack_filename, arenas, armed, native, finishing>>
     \/ calling = "exit" /\ StopRest(timers) /\ mr_exit
=============================================================================
