--------------------------- MODULE EmulatorProofs ---------------------------
(***************************************************************************)
(* Theorems about the virtual machine's life cycle (modules Mythroad and   *)
(* Emulator), for every set of calls the apps may make and every bound.    *)
(*                                                                         *)
(* The safety properties are proved together from one inductive invariant. *)
(* They are not inductive alone: what a message may do to a timer depends  *)
(* on which call into the app the thread is in, and the invariant says     *)
(* which states go with which call.                                        *)
(***************************************************************************)
EXTENDS PlainApp, TLAPS

-----------------------------------------------------------------------------
(* What the invariant needs besides the properties. *)

(* A VM that is not idle was started; a call into the app is made in a     *)
(* state that goes with it.                                                *)
CallsMatch ==
  /\ mr_state # "IDLE" => running
  /\ calling # "none" => mr_state # "IDLE"
  /\ calling = "pause" => mr_state # "RUN" /\ m_bSuspendDraw
  /\ calling = "resume" => mr_state # "PAUSE"

(* Only an app that runs or is paused is owed a call of its timer event,   *)
(* and the timer of a paused one without background timers is suspended    *)
(* once the pause is over.                                                 *)
OwedMatch ==
  /\ armed => mr_state \in {"RUN", "PAUSE"}
  /\ armed /\ ~hooks /\ mr_state = "PAUSE" /\ ~mr_timer_run_without_pause
       /\ calling # "pause" => mr_timer_state # "RUNNING"

IInv ==
  /\ TypeOK
  /\ TimerPending
  /\ OneArena
  /\ RestartPending
  /\ TimerKept
  /\ ExitCloses
  /\ CallsMatch
  /\ OwedMatch

-----------------------------------------------------------------------------
(* The queue of time-outs. *)

HasFresh(ts) == \E i \in DOMAIN ts : ~ts[i].stale

LEMMA NearerKeeps ==
  ASSUME timers \in Seq(TimeOuts)
  PROVE  /\ Nearer \in Seq(TimeOuts)
         /\ HasFresh(timers) => HasFresh(Nearer)
<1>1. /\ DOMAIN Nearer = 1 .. Len(timers)
      /\ DOMAIN timers = 1 .. Len(timers)
      /\ Len(timers) \in Nat
  BY DEF Nearer
<1>2. \A i \in 1 .. Len(timers) :
        /\ timers[i] \in TimeOuts
        /\ Nearer[i] \in TimeOuts
        /\ Nearer[i].stale = timers[i].stale
  <2> SUFFICES ASSUME NEW i \in 1 .. Len(timers)
               PROVE  /\ timers[i] \in TimeOuts
                      /\ Nearer[i] \in TimeOuts
                      /\ Nearer[i].stale = timers[i].stale
    OBVIOUS
  <2>1. timers[i] \in TimeOuts
    BY <1>1
  <2>2. PICK n \in Nat, b \in BOOLEAN :
          timers[i] = [after |-> n, stale |-> b]
    BY <2>1 DEF TimeOuts
  <2>3. Nearer[i] = [after |-> IF n = 0 THEN 0 ELSE n - 1, stale |-> b]
    BY <1>1, <2>2 DEF Nearer
  <2> QED
    BY <2>1, <2>2, <2>3 DEF TimeOuts
<1>3. Nearer \in [1 .. Len(timers) -> TimeOuts]
  BY <1>1, <1>2 DEF Nearer
<1>4. Nearer \in Seq(TimeOuts)
  BY <1>1, <1>3
<1> QED
  BY <1>1, <1>2, <1>4 DEF HasFresh

LEMMA WithoutKeeps ==
  ASSUME timers \in Seq(TimeOuts), NEW i \in DOMAIN timers
  PROVE  Without(i) \in Seq(TimeOuts)
BY DEF Without

(* After a start of the timer there is a time-out of the last start.       *)
LEMMA StartArms ==
  ASSUME NEW ts \in Seq(TimeOuts), running, posted' \in Seq(Messages),
         N2J_timerStart(ts)
  PROVE  timers' \in Seq(TimeOuts) /\ HasFresh(timers')
<1> DEFINE new == [after |-> Len(posted'), stale |-> FALSE]
<1>1. new \in TimeOuts
  BY DEF TimeOuts
<1>2. Outdated(ts) \in Seq(TimeOuts)
  <2>1. /\ Len(ts) \in Nat
        /\ DOMAIN ts = 1 .. Len(ts)
        /\ \A i \in 1 .. Len(ts) : ts[i] \in TimeOuts
    OBVIOUS
  <2>2. \A i \in 1 .. Len(ts) : [ts[i] EXCEPT !.stale = TRUE] \in TimeOuts
    BY <2>1 DEF TimeOuts
  <2>3. Outdated(ts) \in [1 .. Len(ts) -> TimeOuts]
    BY <2>1, <2>2 DEF Outdated
  <2> QED
    BY <2>1, <2>3
<1>3. timers' = Append(Outdated(ts), new)
  BY DEF N2J_timerStart
<1>4. /\ timers' \in Seq(TimeOuts)
      /\ Len(timers') = Len(Outdated(ts)) + 1
      /\ timers'[Len(Outdated(ts)) + 1] = new
  BY <1>1, <1>2, <1>3
<1>5. Len(Outdated(ts)) + 1 \in DOMAIN timers'
  BY <1>2, <1>4
<1>6. ~timers'[Len(Outdated(ts)) + 1].stale
  BY <1>4
<1> QED
  BY <1>4, <1>5, <1>6 DEF HasFresh

-----------------------------------------------------------------------------
(* The invariant in two parts: the queue, and the machine that believes to *)
(* know what is in it. *)

QueueInv ==
  /\ posted \in Seq(Messages)
  /\ timers \in Seq(TimeOuts)
  /\ mr_timer_state = "RUNNING" => HasFresh(timers)

MachineTyped ==
  /\ mr_state \in States \ {"ERROR"}
  /\ mr_timer_state \in TimerStates
  /\ mr_timer_run_without_pause \in BOOLEAN
  /\ hooks \in BOOLEAN
  /\ old_pack_filename \in BOOLEAN
  /\ arenas \in Nat
  /\ b_vm_running \in BOOLEAN
  /\ m_bSuspendDraw \in BOOLEAN
  /\ running \in BOOLEAN
  /\ finishing \in BOOLEAN
  /\ calling \in AppHandlers \cup {"none"}
  /\ armed \in BOOLEAN
  /\ ui \in Lifecycle

MachineInv ==
  /\ MachineTyped
  /\ OneArena
  /\ RestartPending
  /\ TimerKept
  /\ ExitCloses
  /\ CallsMatch
  /\ OwedMatch

LEMMA InTwoParts == IInv <=> QueueInv /\ MachineInv
BY DEF IInv, QueueInv, MachineInv, MachineTyped, TypeOK, TimerPending, HasFresh

(* The calls of the app.                                                   *)
LEMMA AppCallKeeps ==
  ASSUME MachineInv, App
  PROVE  MachineInv'
<1> USE DEF MachineInv, MachineTyped, OneArena, RestartPending, TimerKept,
            ExitCloses, CallsMatch, OwedMatch, App, AppCall, native,
            States, TimerStates, AppHandlers, Lifecycle
<1>1. CASE MRF_TimerStart
  <2>1. CASE Served
    <3>1. mr_timer_state' = "RUNNING" /\ armed' = TRUE
      BY <1>1, <2>1 DEF MRF_TimerStart, MR_TIME_START
    <3> QED
      BY <1>1, <2>1, <3>1 DEF MRF_TimerStart, Served
  <2>2. CASE ~Served
    BY <1>1, <2>2 DEF MRF_TimerStart
  <2> QED
    BY <2>1, <2>2
<1>2. CASE MRF_TimerStop
  <2>1. /\ mr_timer_state' = "IDLE"
        /\ armed' = FALSE
        /\ UNCHANGED <<mr_state, mr_timer_run_without_pause, hooks,
                       old_pack_filename, arenas, finishing, native>>
    BY <1>2 DEF MRF_TimerStop, MR_TIME_STOP
  <2>2. OwedMatch' /\ TimerKept'
    BY <2>1
  <2>3. ExitCloses' /\ RestartPending'
    BY <2>1
  <2>4. OneArena' /\ CallsMatch'
    BY <2>1
  <2>5. MachineTyped'
    BY <2>1
  <2> QED
    BY <2>2, <2>3, <2>4, <2>5
<1>3. CASE MRF_RunFile
  <2>1. /\ mr_timer_state' = "RUNNING"
        /\ mr_state' = "RESTART"
        /\ armed' = FALSE
        /\ UNCHANGED <<mr_timer_run_without_pause, hooks, old_pack_filename,
                       arenas, finishing, native>>
    BY <1>3 DEF MRF_RunFile, MR_TIME_START
  <2>2. OwedMatch' /\ TimerKept'
    BY <2>1
  <2>3. ExitCloses' /\ RestartPending'
    BY <2>1
  <2>4. OneArena' /\ CallsMatch'
    BY <2>1
  <2>5. MachineTyped'
    BY <2>1
  <2> QED
    BY <2>2, <2>3, <2>4, <2>5
<1>4. CASE MRF_Exit
  <2>1. CASE MRF_RunFile
    BY <2>1, <1>3
  <2>2. CASE /\ mr_exit
             /\ mr_state' = "STOP"
             /\ armed' = FALSE
             /\ UNCHANGED <<mr_timer_state, timers, mr_timer_run_without_pause,
                            hooks, old_pack_filename, arenas>>
    <3>1. /\ finishing' = (finishing \/ running)
          /\ b_vm_running' = FALSE
          /\ m_bSuspendDraw' = m_bSuspendDraw
      BY <2>2 DEF mr_exit
    <3>2. OwedMatch' /\ TimerKept'
      BY <2>2, <3>1
    <3>3. ExitCloses' /\ RestartPending'
      BY <2>2, <3>1
    <3>4. OneArena' /\ CallsMatch'
      BY <2>2, <3>1
    <3>5. MachineTyped'
      BY <2>2, <3>1
    <3> QED
      BY <3>2, <3>3, <3>4, <3>5
  <2> QED
    BY <1>4, <2>1, <2>2 DEF MRF_Exit
<1>5. CASE RunWithoutPause(TRUE)
  BY <1>5 DEF RunWithoutPause
<1>6. CASE RunWithoutPause(FALSE)
  <2>1. /\ mr_timer_run_without_pause' = FALSE
        /\ armed' => armed /\ mr_state # "PAUSE"
        /\ armed' \in BOOLEAN
        /\ UNCHANGED <<mr_state, mr_timer_state, timers, hooks,
                       old_pack_filename, arenas, finishing, native>>
    BY <1>6 DEF RunWithoutPause
  <2>2. OwedMatch'
    BY <2>1
  <2>3. TimerKept'
    BY <2>1
  <2>4. ExitCloses' /\ RestartPending'
    BY <2>1
  <2>5. OneArena' /\ CallsMatch'
    BY <2>1
  <2>6. MachineTyped'
    <3>1. /\ UNCHANGED <<mr_state, mr_timer_state, arenas, calling, ui>>
          /\ UNCHANGED <<hooks, old_pack_filename, b_vm_running, m_bSuspendDraw>>
          /\ UNCHANGED <<running, finishing>>
      BY <2>1
    <3>2. /\ mr_state' \in States \ {"ERROR"} /\ mr_timer_state' \in TimerStates
          /\ arenas' \in Nat /\ calling' \in AppHandlers \cup {"none"} /\ ui' \in Lifecycle
      BY <3>1
    <3>3. /\ mr_timer_run_without_pause' \in BOOLEAN /\ armed' \in BOOLEAN
      BY <2>1
    <3>4. /\ hooks' \in BOOLEAN /\ old_pack_filename' \in BOOLEAN
          /\ b_vm_running' \in BOOLEAN /\ m_bSuspendDraw' \in BOOLEAN
      BY <3>1
    <3>5. running' \in BOOLEAN /\ finishing' \in BOOLEAN
      BY <3>1
    <3> QED
      BY <3>2, <3>3, <3>4, <3>5 DEF MachineTyped
  <2> QED
    BY <2>2, <2>3, <2>4, <2>5, <2>6
<1>7. CASE SetOldPack
  BY <1>7 DEF SetOldPack
<1>8. CASE SetHooks
  BY <1>8 DEF SetHooks
<1> QED
  BY <1>1, <1>2, <1>3, <1>4, <1>5, <1>6, <1>7, <1>8

(* What every operation on the timer leaves of the queue.                  *)
LEMMA TimerOps ==
  ASSUME NEW ts \in Seq(TimeOuts), posted' \in Seq(Messages),
         HasFresh(timers) => HasFresh(ts), QueueInv, running
  PROVE  /\ MR_TIME_START(ts) => QueueInv'
         /\ MR_TIME_STOP(ts) => QueueInv'
         /\ TimerAsItWas(ts) => QueueInv'
<1>1. ASSUME MR_TIME_START(ts) PROVE QueueInv'
  <2>1. N2J_timerStart(ts)
    BY <1>1 DEF MR_TIME_START
  <2> QED
    BY <2>1, StartArms DEF QueueInv, HasFresh
<1>2. ASSUME MR_TIME_STOP(ts) PROVE QueueInv'
  BY <1>2 DEF MR_TIME_STOP, N2J_timerStop, QueueInv, HasFresh
<1>3. ASSUME TimerAsItWas(ts) PROVE QueueInv'
  BY <1>3 DEF TimerAsItWas, QueueInv, HasFresh
<1> QED
  BY <1>1, <1>2, <1>3

LEMMA AppCallKeepsQueue ==
  ASSUME QueueInv, MachineInv, App
  PROVE  QueueInv'
<1>1. /\ running
      /\ posted' \in Seq(Messages)
      /\ timers \in Seq(TimeOuts)
  BY DEF App, AppCall, MachineInv, CallsMatch, QueueInv
<1>2. \/ MR_TIME_START(timers)
      \/ MR_TIME_STOP(timers)
      \/ TimerAsItWas(timers)
  BY DEF App, AppCall, MRF_TimerStart, MRF_TimerStop, MRF_RunFile, MRF_Exit,
         RunWithoutPause, SetOldPack, SetHooks, TimerAsItWas
<1> QED
  BY <1>1, <1>2, TimerOps

(* A stop in a state other than idle.                                      *)
LEMMA Stopped ==
  ASSUME NEW ts, MachineInv, running, StopRest(ts), mr_exit, arenas' = 0,
         calling' = "none", UNCHANGED <<running, ui>>
  PROVE  MachineInv'
<1>1. /\ mr_state' = "IDLE"
      /\ mr_timer_state' = "IDLE"
      /\ mr_timer_run_without_pause' = FALSE
      /\ armed' = FALSE
      /\ hooks' = hooks
      /\ old_pack_filename' = old_pack_filename
  BY DEF StopRest
<1>2. finishing' = TRUE /\ b_vm_running' = FALSE
      /\ m_bSuspendDraw' = m_bSuspendDraw
  BY DEF mr_exit, MachineInv, MachineTyped
<1>3. MachineTyped'
  BY <1>1, <1>2 DEF MachineInv, MachineTyped, States, TimerStates
<1>4. OneArena' /\ RestartPending' /\ TimerKept'
  BY <1>1 DEF OneArena, RestartPending, TimerKept
<1>5. ExitCloses' /\ CallsMatch' /\ OwedMatch'
  BY <1>1, <1>2 DEF ExitCloses, CallsMatch, OwedMatch
<1> QED
  BY <1>3, <1>4, <1>5 DEF MachineInv

(* An app is loaded, or fails to, when no arena is held.                   *)
LEMMA Loaded ==
  ASSUME NEW held, held = 0, MachineInv, _mr_intra_start(held),
         running' = TRUE, b_vm_running' = TRUE, old_pack_filename' \in BOOLEAN,
         UNCHANGED <<m_bSuspendDraw, finishing, ui>>
  PROVE  MachineInv'
<1>1. /\ mr_timer_state' = "IDLE"
      /\ mr_timer_run_without_pause' = FALSE
      /\ hooks' = FALSE
      /\ armed' = FALSE
      /\ \/ mr_state' = "RUN"  /\ arenas' = 1 /\ calling' = "handler"
         \/ mr_state' = "IDLE" /\ arenas' = 0 /\ calling' = "none"
  BY DEF _mr_intra_start
<1>2. MachineTyped'
  <2>1. m_bSuspendDraw' \in BOOLEAN /\ finishing' \in BOOLEAN /\ ui' \in Lifecycle
    BY DEF MachineInv, MachineTyped
  <2>2. mr_state' \in States \ {"ERROR"} /\ arenas' \in Nat
        /\ calling' \in AppHandlers \cup {"none"}
    BY <1>1 DEF States, AppHandlers
  <2> QED
    BY <1>1, <2>1, <2>2 DEF MachineTyped, TimerStates
<1>3. OneArena' /\ RestartPending' /\ TimerKept'
  BY <1>1 DEF OneArena, RestartPending, TimerKept
<1>4. ExitCloses' /\ CallsMatch' /\ OwedMatch'
  BY <1>1 DEF ExitCloses, CallsMatch, OwedMatch
<1> QED
  BY <1>2, <1>3, <1>4 DEF MachineInv

(* The return of the app.                                                  *)
LEMMA ReturnKeeps ==
  ASSUME QueueInv, MachineInv, Return
  PROVE  QueueInv' /\ MachineInv'
<1>1. /\ running
      /\ calling \in AppHandlers
      /\ calling' = "none"
      /\ UNCHANGED <<running, posted, ui>>
      /\ posted' \in Seq(Messages)
      /\ timers \in Seq(TimeOuts)
  BY DEF Return, AppReturns, MachineInv, MachineTyped, CallsMatch, QueueInv
<1>2. CASE calling = "handler"
  <2>1. TimerAsItWas(timers) /\ UNCHANGED <<machine, native, finishing>>
    BY <1>2 DEF Return, AppReturns, machine, TimerAsItWas
  <2>2. QueueInv'
    BY <1>1, <2>1, TimerOps
  <2> QED
    BY <1>1, <1>2, <2>1, <2>2
    DEF MachineInv, MachineTyped, OneArena, RestartPending, TimerKept,
        ExitCloses, CallsMatch, OwedMatch, machine, native
<1>3. CASE calling = "pause"
  <2>1. /\ Suspend
        /\ UNCHANGED <<mr_state, mr_timer_run_without_pause, hooks,
                       old_pack_filename, arenas, armed, native, finishing>>
    BY <1>3 DEF Return, AppReturns
  <2>2. CASE ~mr_timer_run_without_pause /\ mr_timer_state = "RUNNING"
    <3>1. timers' = << >> /\ mr_timer_state' = "SUSPENDED"
      BY <1>1, <2>1, <2>2 DEF Suspend, N2J_timerStop
    <3>2. QueueInv'
      BY <1>1, <3>1 DEF QueueInv
    <3> QED
      BY <1>1, <1>3, <2>1, <3>1, <3>2
      DEF MachineInv, MachineTyped, OneArena, RestartPending, TimerKept,
          ExitCloses, CallsMatch, OwedMatch, native, TimerStates
  <2>3. CASE ~(~mr_timer_run_without_pause /\ mr_timer_state = "RUNNING")
    <3>1. TimerAsItWas(timers)
      BY <2>1, <2>3 DEF Suspend
    <3>2. QueueInv'
      BY <1>1, <3>1, TimerOps
    <3> QED
      BY <1>1, <1>3, <2>1, <2>3, <3>1, <3>2
      DEF MachineInv, MachineTyped, OneArena, RestartPending, TimerKept,
          ExitCloses, CallsMatch, OwedMatch, native, TimerAsItWas
  <2> QED
    BY <2>2, <2>3
<1>4. CASE calling = "resume"
  <2>1. /\ Unsuspend
        /\ UNCHANGED <<mr_state, mr_timer_run_without_pause, hooks,
                       old_pack_filename, arenas, armed, native, finishing>>
    BY <1>4 DEF Return, AppReturns
  <2>2. QueueInv'
    BY <1>1, <2>1, TimerOps DEF Unsuspend
  <2>3. mr_timer_state' = IF mr_timer_state = "SUSPENDED" THEN "RUNNING"
                                                       ELSE mr_timer_state
    BY <2>1 DEF Unsuspend, MR_TIME_START, TimerAsItWas
  <2> QED
    BY <1>1, <1>4, <2>1, <2>2, <2>3
    DEF MachineInv, MachineTyped, OneArena, RestartPending, TimerKept,
        ExitCloses, CallsMatch, OwedMatch, native, TimerStates
<1>5. CASE calling = "exit"
  <2>1. StopRest(timers) /\ mr_exit
    BY <1>5 DEF Return, AppReturns
  <2>2. QueueInv'
    BY <1>1, <2>1 DEF QueueInv, StopRest
  <2>3. arenas' = 0
    BY <1>5, <2>1 DEF StopRest, MachineInv, CallsMatch, OneArena
  <2>4. MachineInv'
    BY <1>1, <2>1, <2>3, Stopped
  <2> QED
    BY <2>2, <2>4
<1> QED
  BY <1>1, <1>2, <1>3, <1>4, <1>5 DEF AppHandlers

-----------------------------------------------------------------------------
(* The messages of the handler. *)

LEMMA StopKeeps ==
  ASSUME NEW ts, MachineInv, j2n_stop(ts), calling = "none", UNCHANGED ui
  PROVE  MachineInv'
<1>1. CASE mr_state = "IDLE"
  <2>1. mr_exit /\ UNCHANGED <<machine, calling, running>>
    BY <1>1 DEF j2n_stop
  <2>2. MachineTyped'
    BY <2>1 DEF mr_exit, machine, MachineInv, MachineTyped
  <2>3. OneArena' /\ RestartPending' /\ TimerKept' /\ OwedMatch'
    BY <1>1, <2>1
    DEF mr_exit, machine, MachineInv, OneArena, RestartPending, TimerKept,
        OwedMatch
  <2>4. ExitCloses' /\ CallsMatch'
    BY <1>1, <2>1
    DEF mr_exit, machine, MachineInv, ExitCloses, CallsMatch
  <2> QED
    BY <2>2, <2>3, <2>4 DEF MachineInv
<1>2. CASE mr_state \in {"RUN", "PAUSE"}
  <2>1. calling' = "exit" /\ UNCHANGED <<machine, native, running, finishing>>
    BY <1>2 DEF j2n_stop
  <2> QED
    BY <1>2, <2>1
    DEF MachineInv, MachineTyped, OneArena, RestartPending, TimerKept,
        ExitCloses, CallsMatch, OwedMatch, machine, native, AppHandlers
<1>3. CASE mr_state \in {"RESTART", "STOP"}
  <2>1. StopRest(ts) /\ mr_exit /\ UNCHANGED <<calling, running>>
    BY <1>3 DEF j2n_stop
  <2>2. running /\ arenas' = 0
    BY <1>3, <2>1 DEF StopRest, MachineInv, CallsMatch, OneArena
  <2> QED
    BY <2>1, <2>2, Stopped
<1> QED
  BY <1>1, <1>2, <1>3 DEF j2n_stop

LEMMA StartUpKeeps ==
  ASSUME MachineInv, startup_i, calling = "none", UNCHANGED ui
  PROVE  MachineInv'
<1>1. CASE running
  BY <1>1
  DEF startup_i, j2n_startMrp, MachineInv, MachineTyped, OneArena,
      RestartPending, TimerKept, ExitCloses, CallsMatch, OwedMatch, machine,
      native
<1>2. CASE ~running
  <2>1. /\ running' = TRUE
        /\ b_vm_running' = TRUE
        /\ old_pack_filename' = FALSE
        /\ _mr_intra_start(arenas)
        /\ UNCHANGED <<m_bSuspendDraw, finishing>>
    BY <1>2 DEF startup_i, j2n_startMrp
  <2>2. arenas = 0
    BY <1>2 DEF MachineInv, CallsMatch, OneArena
  <2> QED
    BY <2>1, <2>2, Loaded
<1> QED
  BY <1>1, <1>2

LEMMA PauseKeeps ==
  ASSUME NEW ts, MachineInv, j2n_pause(ts), calling = "none", UNCHANGED ui
  PROVE  MachineInv'
<1> USE DEF MachineInv, MachineTyped, OneArena, RestartPending, TimerKept,
            ExitCloses, CallsMatch, OwedMatch, j2n_pause, mr_pauseApp,
            TimerAsItWas, MR_TIME_STOP, AppHandlers, States, TimerStates
<1>1. CASE mr_state = "RUN"
  BY <1>1
<1>2. CASE mr_state = "RESTART"
  BY <1>2
<1>3. CASE mr_state \notin {"RUN", "RESTART"}
  BY <1>3
<1> QED
  BY <1>1, <1>2, <1>3

LEMMA ResumeKeeps ==
  ASSUME NEW ts, MachineInv, j2n_resume(ts), calling = "none", UNCHANGED ui
  PROVE  MachineInv'
<1> USE DEF MachineInv, MachineTyped, OneArena, RestartPending, TimerKept,
            ExitCloses, CallsMatch, OwedMatch, j2n_resume, mr_resumeApp,
            TimerAsItWas, MR_TIME_START, AppHandlers, States, TimerStates
<1>1. CASE mr_state = "PAUSE"
  BY <1>1
<1>2. CASE mr_state = "RESTART"
  BY <1>2
<1>3. CASE mr_state \notin {"PAUSE", "RESTART"}
  BY <1>3
<1> QED
  BY <1>1, <1>2, <1>3

LEMMA EventKeeps ==
  ASSUME NEW ts, MachineInv, mr_event(ts), calling = "none", UNCHANGED ui
  PROVE  MachineInv'
BY DEF mr_event, Served, MachineInv, MachineTyped, OneArena, RestartPending,
       TimerKept, ExitCloses, CallsMatch, OwedMatch, machine, native,
       AppHandlers

LEMMA TimerKeeps ==
  ASSUME NEW ts, MachineInv, mr_timer(ts), calling = "none", UNCHANGED ui
  PROVE  MachineInv'
<1>1. CASE mr_timer_state # "RUNNING"
  BY <1>1
  DEF mr_timer, MachineInv, MachineTyped, OneArena, RestartPending, TimerKept,
      ExitCloses, CallsMatch, OwedMatch, machine, native, java
<1>2. CASE mr_timer_state = "RUNNING" /\ Served
  BY <1>2
  DEF mr_timer, Served, MachineInv, MachineTyped, OneArena, RestartPending,
      TimerKept, ExitCloses, CallsMatch, OwedMatch, native, java, AppHandlers,
      TimerStates
<1>3. CASE mr_timer_state = "RUNNING" /\ mr_state = "RESTART"
  <2>1. /\ _mr_intra_start(arenas - 1)
        /\ UNCHANGED <<old_pack_filename, native, running, finishing>>
    BY <1>3 DEF mr_timer, Served, java
  <2>2. arenas - 1 = 0 /\ running = TRUE /\ b_vm_running = TRUE
    BY <1>3
    DEF MachineInv, MachineTyped, OneArena, CallsMatch, ExitCloses
  <2>3. running' = TRUE /\ b_vm_running' = TRUE /\ old_pack_filename' \in BOOLEAN
    BY <2>1, <2>2 DEF native, MachineInv, MachineTyped
  <2> QED
    BY <2>1, <2>2, <2>3, Loaded DEF native
<1>4. CASE mr_timer_state = "RUNNING" /\ ~Served /\ mr_state # "RESTART"
  BY <1>4
  DEF mr_timer, Served, MachineInv, MachineTyped, OneArena, RestartPending,
      TimerKept, ExitCloses, CallsMatch, OwedMatch, native, java, TimerStates
<1> QED
  BY <1>1, <1>2, <1>3, <1>4

(* The queue, whatever message is taken from it.                           *)
LEMMA MessageKeepsQueue ==
  ASSUME QueueInv, MachineInv, handleMessage
  PROVE  QueueInv'
<1>1. /\ Nearer \in Seq(TimeOuts)
      /\ HasFresh(timers) => HasFresh(Nearer)
  BY NearerKeeps DEF QueueInv
<1>2. posted' \in Seq(Messages)
  BY DEF handleMessage, QueueInv
<1>3. CASE Head(posted) \in {"START", "EVENT", "STOP"}
  <2>1. /\ timers' = Nearer
        /\ mr_timer_state' = "RUNNING" => mr_timer_state = "RUNNING"
    BY <1>3
    DEF handleMessage, startup_i, j2n_startMrp, _mr_intra_start, mr_event,
        j2n_stop, StopRest, machine
  <2> QED
    BY <1>1, <1>2, <2>1 DEF QueueInv, HasFresh
<1>4. CASE Head(posted) \in {"PAUSE", "RESUME"}
  <2>1. \/ TimerAsItWas(Nearer)
        \/ mr_state = "RESTART" /\ MR_TIME_STOP(Nearer)
        \/ mr_state = "RESTART" /\ MR_TIME_START(Nearer)
    BY <1>4
    DEF handleMessage, j2n_pause, mr_pauseApp, j2n_resume, mr_resumeApp
  <2>2. CASE TimerAsItWas(Nearer)
    BY <1>1, <1>2, <2>2 DEF TimerAsItWas, QueueInv, HasFresh
  <2>3. CASE mr_state = "RESTART"
    <3>1. running
      BY <2>3 DEF MachineInv, CallsMatch
    <3> QED
      BY <1>1, <1>2, <2>1, <3>1, TimerOps
  <2> QED
    BY <2>1, <2>2, <2>3
<1> QED
  BY <1>3, <1>4 DEF handleMessage

LEMMA TimeOutKeepsQueue ==
  ASSUME QueueInv, NEW i \in DOMAIN timers, timeOut(i)
  PROVE  QueueInv'
<1>1. Without(i) \in Seq(TimeOuts)
  BY WithoutKeeps DEF QueueInv
<1>2. /\ timers' = Without(i)
      /\ posted' = posted
      /\ mr_timer_state' # "RUNNING"
  BY DEF timeOut, mr_timer, _mr_intra_start, machine, java, Served
<1> QED
  BY <1>1, <1>2 DEF QueueInv

-----------------------------------------------------------------------------
(* The messages of the UI thread. *)

LEMMA SendKeeps ==
  ASSUME QueueInv, MachineInv, NEW m \in Messages, Send(m),
         finishing' \in BOOLEAN, finishing => finishing',
         ui' \in Lifecycle
  PROVE  QueueInv' /\ MachineInv'
<1>1. QueueInv'
  BY DEF Send, vm, machine, QueueInv, HasFresh
<1>2. MachineTyped'
  BY DEF Send, vm, machine, native, MachineInv, MachineTyped
<1>3. OneArena' /\ RestartPending' /\ TimerKept'
  BY DEF Send, vm, machine, native, MachineInv, OneArena, RestartPending,
         TimerKept
<1>4. ExitCloses' /\ CallsMatch' /\ OwedMatch'
  BY DEF Send, vm, machine, native, MachineInv, ExitCloses, CallsMatch,
         OwedMatch
<1> QED
  BY <1>1, <1>2, <1>3, <1>4 DEF MachineInv

LEMMA UIKeeps ==
  ASSUME QueueInv, MachineInv,
         \/ onCreate \/ onResume \/ onPause \/ onDestroy
         \/ closeMrp \/ stop \/ postMrpEvent
  PROVE  QueueInv' /\ MachineInv'
<1>1. /\ \E m \in Messages : Send(m)
      /\ finishing' \in BOOLEAN
      /\ finishing => finishing'
      /\ ui' \in Lifecycle
  BY DEF onCreate, onResume, onPause, onDestroy, closeMrp, stop, postMrpEvent,
         Messages, Lifecycle, MachineInv, MachineTyped
<1> QED
  BY <1>1, SendKeeps

(* A new process.                                                          *)
LEMMA GoneFresh ==
  ASSUME Gone
  PROVE  QueueInv' /\ MachineInv'
<1>1. QueueInv'
  BY DEF Gone, QueueInv
<1>2. MachineTyped'
  BY DEF Gone, MachineTyped, States, TimerStates, Lifecycle
<1>3. OneArena' /\ RestartPending' /\ TimerKept' /\ OwedMatch'
  BY DEF Gone, OneArena, RestartPending, TimerKept, OwedMatch
<1>4. ExitCloses' /\ CallsMatch'
  BY DEF Gone, ExitCloses, CallsMatch
<1> QED
  BY <1>1, <1>2, <1>3, <1>4 DEF MachineInv

-----------------------------------------------------------------------------

(* The invariant holds in every reachable state.                           *)
THEOREM VMInvariance == Spec => []IInv
<1>1. Init => IInv
  <2> SUFFICES ASSUME Init PROVE QueueInv /\ MachineInv
    BY InTwoParts
  <2>1. QueueInv
    BY DEF Init, MythroadInit, QueueInv
  <2>2. MachineTyped
    BY DEF Init, MythroadInit, MachineTyped, States, TimerStates, Lifecycle
  <2>3. OneArena /\ RestartPending /\ TimerKept /\ OwedMatch
    BY DEF Init, MythroadInit, OneArena, RestartPending, TimerKept, OwedMatch
  <2>4. ExitCloses /\ CallsMatch
    BY DEF Init, MythroadInit, ExitCloses, CallsMatch
  <2> QED
    BY <2>1, <2>2, <2>3, <2>4 DEF MachineInv
<1>2. IInv /\ [Next]_vars => IInv'
  <2> SUFFICES ASSUME QueueInv, MachineInv, [Next]_vars
               PROVE  QueueInv' /\ MachineInv'
    BY InTwoParts, PTL
  <2>1. CASE handleMessage
    <3>1. calling = "none" /\ UNCHANGED ui
      BY <2>1 DEF handleMessage
    <3>2. \/ startup_i \/ j2n_pause(Nearer) \/ j2n_resume(Nearer)
          \/ j2n_stop(Nearer) \/ mr_event(Nearer)
      BY <2>1 DEF handleMessage
    <3>3. MachineInv'
      BY <3>1, <3>2, StartUpKeeps, PauseKeeps, ResumeKeeps, StopKeeps,
         EventKeeps
    <3> QED
      BY <2>1, <3>3, MessageKeepsQueue
  <2>2. CASE TimeOut
    <3>1. PICK i \in DOMAIN timers : timeOut(i)
      BY <2>2 DEF TimeOut
    <3>2. calling = "none" /\ mr_timer(Without(i)) /\ UNCHANGED ui
      BY <3>1 DEF timeOut
    <3> QED
      BY <3>1, <3>2, TimerKeeps, TimeOutKeepsQueue
  <2>3. CASE App
    BY <2>3, AppCallKeeps, AppCallKeepsQueue
  <2>4. CASE Return
    BY <2>4, ReturnKeeps
  <2>5. CASE \/ onCreate \/ onResume \/ onPause \/ onDestroy
             \/ closeMrp \/ stop \/ postMrpEvent
    BY <2>5, UIKeeps
  <2>6. CASE exit_i \/ killProcess
    BY <2>6, GoneFresh DEF exit_i, killProcess
  <2>7. CASE UNCHANGED vars
    BY <2>7
    DEF vars, machine, native, java, QueueInv, HasFresh, MachineInv,
        MachineTyped, OneArena, RestartPending, TimerKept, ExitCloses,
        CallsMatch, OwedMatch
  <2> QED
    BY <2>1, <2>2, <2>3, <2>4, <2>5, <2>6, <2>7 DEF Next, Handle
<1> QED
  BY <1>1, <1>2, PTL DEF Spec

(* The variables keep their types.                                         *)
THEOREM VMTypeCorrect == Spec => []TypeOK
<1>1. IInv => TypeOK
  BY DEF IInv
<1> QED
  BY <1>1, VMInvariance, PTL

(* A timer the VM takes for running has its time-out in the queue: nothing *)
(* the app, the user or Android does can leave it waiting for nothing.     *)
THEOREM TimersGoOff == Spec => []TimerPending
<1>1. IInv => TimerPending
  BY DEF IInv
<1> QED
  BY <1>1, VMInvariance, PTL

(* However starts, changes of app and stops follow each other, the VM      *)
(* holds one arena exactly while it is not idle.                           *)
THEOREM ArenaHeldOnce == Spec => []OneArena
<1>1. IInv => OneArena
  BY DEF IInv
<1> QED
  BY <1>1, VMInvariance, PTL

(* A change of app waits for its timer, or for the activity to come back.  *)
THEOREM RestartsWait == Spec => []RestartPending
<1>1. IInv => RestartPending
  BY DEF IInv
<1> QED
  BY <1>1, VMInvariance, PTL

(* A timer of the app survives pause and resume.                           *)
THEOREM TimersSurvive == Spec => []TimerKept
<1>1. IInv => TimerKept
  BY DEF IInv
<1> QED
  BY <1>1, VMInvariance, PTL

(* After the last exit nothing runs and the window closes.                 *)
THEOREM ExitsClose == Spec => []ExitCloses
<1>1. IInv => ExitCloses
  BY DEF IInv
<1> QED
  BY <1>1, VMInvariance, PTL

(* No message that is still in the queue brings a stopped VM back.         *)
THEOREM StopIsFinal == Spec => StoppedStays
<1>1. IInv /\ [Next]_vars =>
        (running /\ mr_state = "IDLE" /\ running' => mr_state' = "IDLE")
  <2> SUFFICES ASSUME CallsMatch, [Next]_vars, running, mr_state = "IDLE",
                      running'
               PROVE  mr_state' = "IDLE"
    BY DEF IInv
  <2>1. CASE handleMessage
    BY <2>1
    DEF handleMessage, startup_i, j2n_pause, mr_pauseApp, j2n_resume,
        mr_resumeApp, j2n_stop, StopRest, mr_event, machine
  <2>2. CASE TimeOut
    BY <2>2 DEF TimeOut, timeOut, mr_timer, Served, machine
  <2>3. CASE App
    BY <2>3 DEF App, AppCall
  <2>4. CASE Return
    BY <2>4 DEF Return, CallsMatch
  <2>5. CASE \/ onCreate \/ onResume \/ onPause \/ onDestroy
             \/ closeMrp \/ stop \/ postMrpEvent
    BY <2>5
    DEF onCreate, onResume, onPause, onDestroy, closeMrp, stop, postMrpEvent,
        Send, vm, machine
  <2>6. CASE exit_i \/ killProcess
    BY <2>6 DEF exit_i, killProcess, Gone
  <2>7. CASE UNCHANGED vars
    BY <2>7 DEF vars, machine
  <2> QED
    BY <2>1, <2>2, <2>3, <2>4, <2>5, <2>6, <2>7 DEF Next, Handle
<1> QED
  BY <1>1, VMInvariance, PTL DEF Spec, StoppedStays

-----------------------------------------------------------------------------
(* An app without background timers and hooks.  What keeps it from running *)
(* in the background is a PAUSE message that still waits behind everything *)
(* that could start or resume an app, or, once that is handled, a state in *)
(* which only a RESUME or a START lets an app run.                         *)

Later == {"STOP", "EVENT"}

PauseWaits ==
  \E k \in DOMAIN posted :
    /\ posted[k] = "PAUSE"
    /\ \A j \in DOMAIN posted : j > k => posted[j] \in Later

OnlyLater == \A j \in DOMAIN posted : posted[j] \in Later

HeldBack ==
  /\ mr_state # "RUN"
  /\ calling \in {"none", "pause", "exit"}
  /\ calling = "none" /\ mr_state \in {"PAUSE", "RESTART"} =>
       mr_timer_state # "RUNNING"

PausedHeld == mr_state = "PAUSE" => HeldBack

BackHeld == ui = "paused" => PauseWaits \/ (OnlyLater /\ HeldBack)

PlainInv ==
  plain => ~mr_timer_run_without_pause /\ ~hooks /\ PausedHeld /\ BackHeld

(* Without background timers and hooks an app that is held back stays so,  *)
(* whatever it calls, until a RESUME or a START is handled.                *)
LEMMA AppKeepsHeld ==
  ASSUME ~mr_timer_run_without_pause, HeldBack, App \/ Return
  PROVE  HeldBack'
<1>1. CASE App
  <2>1. calling \in {"pause", "exit"} /\ calling' = calling /\ mr_state = "PAUSE"
    BY <1>1 DEF App, AppCall, HeldBack
  <2>2. mr_state' \in {"PAUSE", "RESTART", "STOP"}
    BY <1>1, <2>1
    DEF App, AppCall, MRF_TimerStart, MRF_TimerStop, MRF_RunFile, MRF_Exit,
        RunWithoutPause, SetOldPack, SetHooks
  <2> QED
    BY <2>1, <2>2 DEF HeldBack
<1>2. CASE Return
  <2>1. CASE calling = "pause"
    BY <1>2, <2>1 DEF Return, AppReturns, Suspend, TimerAsItWas, HeldBack
  <2>2. CASE calling = "exit"
    BY <1>2, <2>2 DEF Return, AppReturns, StopRest, HeldBack
  <2> QED
    BY <1>2, <2>1, <2>2 DEF HeldBack, Return
<1> QED
  BY <1>1, <1>2

LEMMA StopOrEventKeepsHeld ==
  ASSUME ~mr_timer_run_without_pause, HeldBack, calling = "none", NEW ts,
         j2n_stop(ts) \/ mr_event(ts)
  PROVE  HeldBack'
<1>1. CASE j2n_stop(ts)
  BY <1>1 DEF j2n_stop, StopRest, machine, HeldBack
<1>2. CASE mr_event(ts)
  BY <1>2 DEF mr_event, Served, machine, HeldBack
<1> QED
  BY <1>1, <1>2

LEMMA TimerKeepsHeld ==
  ASSUME ~mr_timer_run_without_pause, HeldBack, TimeOut
  PROVE  HeldBack'
<1>1. PICK i \in DOMAIN timers : calling = "none" /\ mr_timer(Without(i))
  BY DEF TimeOut, timeOut
<1>2. mr_timer_state = "RUNNING" => mr_state \notin {"RUN", "PAUSE", "RESTART"}
  BY <1>1 DEF HeldBack
<1>3. ~(mr_timer_state = "RUNNING" /\ Served)
  BY <1>2 DEF Served
<1> QED
  BY <1>1, <1>2, <1>3 DEF mr_timer, machine, HeldBack

(* Handling a PAUSE holds the app back.                                    *)
LEMMA PauseHolds ==
  ASSUME ~hooks, PausedHeld, calling = "none", NEW ts, j2n_pause(ts)
  PROVE  HeldBack'
<1>1. CASE mr_state = "RUN"
  BY <1>1 DEF j2n_pause, mr_pauseApp, HeldBack
<1>2. CASE mr_state = "RESTART"
  BY <1>2 DEF j2n_pause, mr_pauseApp, MR_TIME_STOP, HeldBack
<1>3. CASE mr_state \notin {"RUN", "RESTART"}
  BY <1>3 DEF j2n_pause, mr_pauseApp, TimerAsItWas, HeldBack, PausedHeld
<1> QED
  BY <1>1, <1>2, <1>3

(* A paused app is held back, in front or behind.                          *)
LEMMA PausedHeldKept ==
  ASSUME ~mr_timer_run_without_pause, ~hooks, PausedHeld, [Next]_vars
  PROVE  PausedHeld'
<1>1. CASE handleMessage
  <2>1. calling = "none"
    BY <1>1 DEF handleMessage
  <2>2. CASE startup_i
    BY <2>1, <2>2
    DEF startup_i, j2n_startMrp, _mr_intra_start, machine, PausedHeld, HeldBack
  <2>3. CASE j2n_pause(Nearer)
    BY <2>1, <2>3, PauseHolds DEF PausedHeld
  <2>4. CASE j2n_resume(Nearer)
    BY <2>4 DEF j2n_resume, mr_resumeApp, PausedHeld
  <2>5. CASE j2n_stop(Nearer) \/ mr_event(Nearer)
    <3>1. CASE mr_state = "PAUSE"
      BY <2>1, <2>5, <3>1, StopOrEventKeepsHeld DEF PausedHeld
    <3>2. CASE mr_state # "PAUSE"
      BY <2>5, <3>2 DEF j2n_stop, StopRest, mr_event, machine, PausedHeld
    <3> QED
      BY <3>1, <3>2
  <2> QED
    BY <1>1, <2>2, <2>3, <2>4, <2>5 DEF handleMessage
<1>2. CASE TimeOut
  <2>1. CASE mr_state = "PAUSE"
    BY <1>2, <2>1, TimerKeepsHeld DEF PausedHeld
  <2>2. CASE mr_state # "PAUSE"
    BY <1>2, <2>2
    DEF TimeOut, timeOut, mr_timer, _mr_intra_start, machine, PausedHeld
  <2> QED
    BY <2>1, <2>2
<1>3. CASE App \/ Return
  <2>1. CASE mr_state = "PAUSE"
    BY <1>3, <2>1, AppKeepsHeld DEF PausedHeld
  <2>2. CASE mr_state # "PAUSE" /\ App
    BY <2>2
    DEF App, AppCall, MRF_TimerStart, MRF_TimerStop, MRF_RunFile, MRF_Exit,
        RunWithoutPause, SetOldPack, SetHooks, PausedHeld
  <2>3. CASE mr_state # "PAUSE" /\ Return
    BY <2>3 DEF Return, AppReturns, StopRest, PausedHeld
  <2> QED
    BY <1>3, <2>1, <2>2, <2>3
<1>4. CASE exit_i \/ killProcess
  BY <1>4 DEF exit_i, killProcess, Gone, PausedHeld
<1>5. CASE \/ onCreate \/ onResume \/ onPause \/ onDestroy
           \/ closeMrp \/ stop \/ postMrpEvent \/ UNCHANGED vars
  BY <1>5
  DEF onCreate, onResume, onPause, onDestroy, closeMrp, stop, postMrpEvent,
      Send, vm, machine, vars, PausedHeld, HeldBack
<1> QED
  BY <1>1, <1>2, <1>3, <1>4, <1>5 DEF Next, Handle

(* The queue: handling a message brings the PAUSE nearer, sending one that  *)
(* starts and resumes nothing leaves it in force.                          *)
LEMMA HandledBefore ==
  ASSUME posted \in Seq(Messages), posted # << >>, posted' = Tail(posted)
  PROVE  /\ PauseWaits => PauseWaits' \/ (Head(posted) = "PAUSE" /\ OnlyLater')
         /\ OnlyLater => Head(posted) \in Later /\ OnlyLater'
<1>1. /\ Len(posted) \in Nat /\ Len(posted) > 0 /\ DOMAIN posted = 1 .. Len(posted)
      /\ DOMAIN posted' = 1 .. Len(posted) - 1
      /\ \A j \in DOMAIN posted' : j + 1 \in DOMAIN posted /\ posted'[j] = posted[j + 1]
      /\ Head(posted) = posted[1]
  OBVIOUS
<1>2. ASSUME PauseWaits
      PROVE  PauseWaits' \/ (Head(posted) = "PAUSE" /\ OnlyLater')
  <2>1. PICK k \in DOMAIN posted :
          posted[k] = "PAUSE" /\ \A j \in DOMAIN posted : j > k => posted[j] \in Later
    BY <1>2 DEF PauseWaits
  <2>2. CASE k = 1
    BY <1>1, <2>1, <2>2 DEF OnlyLater
  <2>3. CASE k # 1
    <3>1. k - 1 \in DOMAIN posted' /\ posted'[k - 1] = "PAUSE"
      BY <1>1, <2>1, <2>3
    <3>2. \A j \in DOMAIN posted' : j > k - 1 => posted'[j] \in Later
      BY <1>1, <2>1
    <3> QED
      BY <3>1, <3>2 DEF PauseWaits
  <2> QED
    BY <2>2, <2>3
<1>3. OnlyLater => Head(posted) \in Later /\ OnlyLater'
  BY <1>1 DEF OnlyLater
<1> QED
  BY <1>2, <1>3

LEMMA SentBehind ==
  ASSUME posted \in Seq(Messages), NEW what, posted' = Append(posted, what)
  PROVE  /\ what = "PAUSE" => PauseWaits'
         /\ what \in Later => (PauseWaits => PauseWaits') /\ (OnlyLater => OnlyLater')
<1>1. /\ Len(posted) \in Nat /\ DOMAIN posted = 1 .. Len(posted)
      /\ DOMAIN posted' = 1 .. Len(posted) + 1
      /\ \A j \in DOMAIN posted : posted'[j] = posted[j]
      /\ posted'[Len(posted) + 1] = what
  OBVIOUS
<1>2. what = "PAUSE" => PauseWaits'
  BY <1>1 DEF PauseWaits
<1>3. ASSUME what \in Later, PauseWaits PROVE PauseWaits'
  <2>1. PICK k \in DOMAIN posted :
          posted[k] = "PAUSE" /\ \A j \in DOMAIN posted : j > k => posted[j] \in Later
    BY <1>3 DEF PauseWaits
  <2>2. k \in DOMAIN posted' /\ posted'[k] = "PAUSE"
    BY <1>1, <2>1
  <2>3. \A j \in DOMAIN posted' : j > k => posted'[j] \in Later
    BY <1>1, <1>3, <2>1
  <2> QED
    BY <2>2, <2>3 DEF PauseWaits
<1>4. what \in Later /\ OnlyLater => OnlyLater'
  BY <1>1 DEF OnlyLater
<1> QED
  BY <1>2, <1>3, <1>4

(* Nor does any step but the activity's coming back let one run behind.    *)
LEMMA BackHeldKept ==
  ASSUME posted \in Seq(Messages), ~mr_timer_run_without_pause, ~hooks,
         PausedHeld, BackHeld, [Next]_vars
  PROVE  BackHeld'
<1> SUFFICES ASSUME ui' = "paused"
             PROVE  PauseWaits' \/ (OnlyLater' /\ HeldBack')
  BY DEF BackHeld
<1>1. CASE handleMessage
  <2>1. /\ calling = "none" /\ posted # << >> /\ posted' = Tail(posted)
        /\ PauseWaits \/ (OnlyLater /\ HeldBack)
    BY <1>1 DEF handleMessage, BackHeld
  <2>2. CASE PauseWaits'
    BY <2>2
  <2>3. CASE Head(posted) = "PAUSE" /\ OnlyLater'
    <3>1. j2n_pause(Nearer)
      BY <1>1, <2>3 DEF handleMessage
    <3> QED
      BY <2>1, <2>3, <3>1, PauseHolds
  <2>4. CASE OnlyLater /\ HeldBack
    <3>1. Head(posted) \in Later /\ OnlyLater'
      BY <2>1, <2>4, HandledBefore
    <3>2. j2n_stop(Nearer) \/ mr_event(Nearer)
      BY <1>1, <3>1 DEF handleMessage, Later
    <3> QED
      BY <2>1, <2>4, <3>1, <3>2, StopOrEventKeepsHeld
  <2> QED
    BY <2>1, <2>2, <2>3, <2>4, HandledBefore
<1>2. CASE TimeOut \/ App \/ Return
  <2>1. ui = "paused" /\ posted' = posted
    BY <1>2
    DEF TimeOut, timeOut, mr_timer, java, App, AppCall, Return, AppReturns
  <2>2. PauseWaits' = PauseWaits /\ OnlyLater' = OnlyLater
    BY <2>1 DEF PauseWaits, OnlyLater
  <2>3. HeldBack => HeldBack'
    BY <1>2, TimerKeepsHeld, AppKeepsHeld
  <2> QED
    BY <2>1, <2>2, <2>3 DEF BackHeld
<1>3. CASE onPause
  BY <1>3, SentBehind DEF onPause, Send
<1>4. CASE stop \/ postMrpEvent
  <2>1. PICK what \in Later : Send(what)
    BY <1>4 DEF stop, postMrpEvent, Later
  <2>2. ui = "paused"
    BY <1>4 DEF stop, postMrpEvent
  <2>3. HeldBack => HeldBack'
    BY <2>1 DEF Send, vm, machine, HeldBack
  <2> QED
    BY <2>1, <2>2, <2>3, SentBehind DEF Send, BackHeld
<1>5. CASE onCreate \/ onResume \/ onDestroy \/ closeMrp \/ exit_i \/ killProcess
  BY <1>5 DEF onCreate, onResume, onDestroy, closeMrp, exit_i, killProcess, Gone
<1>6. CASE UNCHANGED vars
  BY <1>6
  DEF vars, machine, java, PauseWaits, OnlyLater, HeldBack, BackHeld
<1> QED
  BY <1>1, <1>2, <1>3, <1>4, <1>5, <1>6 DEF Next, Handle

(* Without a process nothing waits to be handled, so that only a new       *)
(* process is a step.                                                      *)
NoProcess == ui = "none" => posted = << >> /\ timers = << >> /\ calling = "none"

LEMMA NoProcessKept ==
  ASSUME NoProcess, [Next]_vars
  PROVE  /\ NoProcess'
         /\ ui' = "none" => Gone \/ UNCHANGED vars
<1>1. CASE ui = "none" /\ Next
  <2>1. ~Handle /\ ~TimeOut /\ ~App /\ ~Return
    BY <1>1
    DEF NoProcess, Handle, handleMessage, exit_i, TimeOut, timeOut, App,
        AppCall, Return
  <2>2. onCreate
    BY <1>1, <2>1
    DEF Next, onResume, onPause, onDestroy, closeMrp, stop, postMrpEvent,
        killProcess
  <2> QED
    BY <2>2 DEF onCreate, NoProcess
<1>2. CASE ui # "none" /\ Next
  <2>1. ui' = "none" => Gone
    BY <1>2
    DEF Next, Handle, handleMessage, exit_i, TimeOut, timeOut, App, Return,
        onCreate, onResume, onPause, onDestroy, closeMrp, stop, postMrpEvent,
        killProcess
  <2> QED
    BY <2>1 DEF Gone, NoProcess
<1>3. CASE UNCHANGED vars
  BY <1>3 DEF vars, java, NoProcess
<1> QED
  BY <1>1, <1>2, <1>3

(* An app that asked neither for background timers nor for hooks is quiet  *)
(* while it is paused and does not run behind the user's back: whatever    *)
(* order messages, time-outs and the app's own calls come in.              *)
THEOREM PlainPaused == PlainSpec => []PlainIsPaused
<1>1. PlainInit => PlainInv /\ NoProcess
  BY DEF PlainInit, Init, MythroadInit, PlainInv, PausedHeld, BackHeld, NoProcess
<1>2. TypeOK /\ PlainInv /\ NoProcess /\ [PlainNext]_<<vars, plain>> =>
        PlainInv' /\ NoProcess'
  <2> SUFFICES ASSUME TypeOK, PlainInv, NoProcess, [PlainNext]_<<vars, plain>>
               PROVE  PlainInv' /\ NoProcess'
    OBVIOUS
  <2>1. [Next]_vars
    BY DEF PlainNext
  <2>2. NoProcess' /\ (ui' = "none" => Gone \/ UNCHANGED vars)
    BY <2>1, NoProcessKept
  <2>3. posted \in Seq(Messages)
    BY DEF TypeOK
  <2>4. PlainInv'
    <3> SUFFICES ASSUME plain'
                 PROVE  /\ ~mr_timer_run_without_pause' /\ ~hooks'
                        /\ PausedHeld' /\ BackHeld'
      BY DEF PlainInv
    <3>1. CASE Gone
      BY <3>1 DEF Gone, PausedHeld, BackHeld
    <3>2. CASE plain /\ ~mr_timer_run_without_pause' /\ ~hooks'
      <4>1. ~mr_timer_run_without_pause /\ ~hooks /\ PausedHeld /\ BackHeld
        BY <3>2 DEF PlainInv
      <4> QED
        BY <2>1, <2>3, <3>2, <4>1, PausedHeldKept, BackHeldKept
    <3>3. CASE plain /\ UNCHANGED vars
      <4>1. /\ ~mr_timer_run_without_pause /\ ~hooks /\ PausedHeld /\ BackHeld
            /\ mr_timer_run_without_pause' = mr_timer_run_without_pause
            /\ hooks' = hooks
        BY <3>3 DEF PlainInv, vars, machine
      <4> QED
        BY <2>1, <2>3, <4>1, PausedHeldKept, BackHeldKept
    <3>4. CASE ui' = "none" /\ Next /\ UNCHANGED vars
      <4>1. ui = "none"
        BY <3>4 DEF vars
      <4>2. ~Handle /\ ~TimeOut /\ ~App /\ ~Return
        BY <4>1
        DEF NoProcess, Handle, handleMessage, exit_i, TimeOut, timeOut, App,
            AppCall, Return
      <4> QED
        BY <3>4, <4>1, <4>2
        DEF Next, onCreate, onResume, onPause, onDestroy, closeMrp, stop,
            postMrpEvent, killProcess
    <3> QED
      BY <2>2, <3>1, <3>2, <3>3, <3>4 DEF PlainNext
  <2> QED
    BY <2>2, <2>4
<1>3. PlainInv => PlainIsPaused
  <2>1. ASSUME PausedHeld, BackHeld PROVE PausedIsQuiet /\ BackgroundIsPaused
    BY <2>1 DEF PausedHeld, BackHeld, HeldBack, PauseWaits, PausedIsQuiet,
                BackgroundIsPaused
  <2> QED
    BY <2>1 DEF PlainInv, PlainIsPaused
<1>4. [PlainNext]_<<vars, plain>> => [Next]_vars
  BY DEF PlainNext
<1>5. PlainInit => Init
  BY DEF PlainInit
<1> QED
  BY <1>1, <1>2, <1>3, <1>4, <1>5, VMTypeCorrect, PTL DEF PlainSpec, Spec
=============================================================================
