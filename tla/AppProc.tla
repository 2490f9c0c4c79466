------------------------------- MODULE AppProc -------------------------------
(***************************************************************************)
(* The processes the mrps run in: AppProcessManager.java and AppProcess    *)
(* of the launcher.  A slot stands for the service AppService0 .. 4, each  *)
(* in a process of its own.  Requests, the callbacks of Android's service  *)
(* connections and the answers of the processes are all handled by the     *)
(* launcher's main thread, one at a time: each is one action.              *)
(*                                                                         *)
(* Android's side, external: a bound connection is called back when its    *)
(* process is up and again when the process died, until it is unbound; the *)
(* process is then started again for those still bound.  A process dies    *)
(* whenever its mrp exits.                                                 *)
(***************************************************************************)
EXTENDS Naturals, SequencesExt

CONSTANTS
  MAX_PROC_COUNT,
  Marks,       \* paths of mrps
  NoMark,
  MaxConns     \* bound: no request for a slot with so many connections and
               \* answers outstanding

ASSUME AppProcAssumption ==
  /\ MAX_PROC_COUNT \in Nat
  /\ NoMark \notin Marks
  /\ MaxConns \in Nat

Slots == 0 .. MAX_PROC_COUNT - 1

VARIABLES
  mProcList,  \* app: whether the slot has its AppProcess; late: it became
              \* ready more than ten seconds ago
  conns,      \* the connections bound to each slot, oldest first
  hasConn,    \* Item.conn is set; it is then the last of conns
  hellos      \* answers to HELLO on their way

vars == <<mProcList, conns, hasConn, hellos>>

ItemStates == {"IDLE", "WAITING", "CONNECTED", "RUNNING"}
Items == [state : ItemStates, mark : Marks \cup {NoMark},
          app : BOOLEAN, late : BOOLEAN]
Connections == [mark : Marks, status : {"waiting", "connected", "lost"}]

\* Item.reset
Idle == [state |-> "IDLE", mark |-> NoMark, app |-> FALSE, late |-> FALSE]

Init ==
  /\ mProcList = [i \in Slots |-> Idle]
  /\ conns = [i \in Slots |-> << >>]
  /\ hasConn = [i \in Slots |-> FALSE]
  /\ hellos = [i \in Slots |-> 0]
-----------------------------------------------------------------------------
(* Requests *)

InState(s) == {i \in Slots : mProcList[i].state = s}

First(S) == CHOOSE i \in S : \A j \in S : i <= j

\* The connections of slot i after unbindProc(i)
unbindProc(i) == IF hasConn[i] THEN Front(conns[i]) ELSE conns[i]

\* Mutant: a slot that has a connection is not bound again.
binProcBoundAlready(i, item, bound, mark) ==
  /\ Len(bound) + hellos[i] < MaxConns
  /\ conns' = [conns EXCEPT ![i] =
       IF bound = << >> THEN <<[mark |-> mark, status |-> "waiting"]>> ELSE bound]
  /\ hasConn' = [hasConn EXCEPT ![i] = TRUE]
  /\ mProcList' = [mProcList EXCEPT ![i] =
       [item EXCEPT !.state = "WAITING", !.mark = mark, !.late = FALSE]]
  /\ UNCHANGED hellos

\* The connections bound so far are `bound', the slot's fields `item'.
binProc(i, item, bound, mark) ==
  /\ Len(bound) + hellos[i] < MaxConns
  /\ conns' = [conns EXCEPT ![i] = Append(bound, [mark |-> mark, status |-> "waiting"])]
  /\ hasConn' = [hasConn EXCEPT ![i] = TRUE]
  /\ mProcList' = [mProcList EXCEPT ![i] =
       [item EXCEPT !.state = "WAITING", !.mark = mark, !.late = FALSE]]
  /\ UNCHANGED hellos

\* resetProc and exitProc, then binProc.  (MSG_EXIT is only answered.)
Retake(i, mark) == binProc(i, Idle, unbindProc(i), mark)

\* A null pointer on the main thread: the launcher dies, Android unbinds.
Crash ==
  /\ mProcList' = [i \in Slots |-> Idle]
  /\ conns' = [i \in Slots |-> << >>]
  /\ hasConn' = [i \in Slots |-> FALSE]
  /\ hellos' = [i \in Slots |-> 0]

\* getIdleIndex without an index of the caller's, and binProc of its result.
\* A waiting slot is reset but not unbound.  Of the running ones any may be
\* the one that was not active for the longest time.
TakeAny(mark) ==
  \/ /\ InState("IDLE") # {}
     /\ LET i == First(InState("IDLE")) IN binProc(i, mProcList[i], conns[i], mark)
  \/ /\ InState("IDLE") = {}
     /\ InState("WAITING") # {}
     /\ LET i == First(InState("WAITING")) IN binProc(i, Idle, conns[i], mark)
  \/ /\ InState("IDLE") \cup InState("WAITING") = {}
     /\ IF \E i \in InState("RUNNING") : ~mProcList[i].app
        THEN Crash
        ELSE \E i \in InState("RUNNING") : Retake(i, mark)

\* With an index, which comes with foce
Take(def, mark) ==
  CASE mProcList[def].state = "IDLE" ->
         binProc(def, mProcList[def], conns[def], mark)
    [] mProcList[def].state \in {"WAITING", "RUNNING"} -> Retake(def, mark)
    [] OTHER -> TakeAny(mark)

Acquire(def, mark) == IF def \in Slots THEN Take(def, mark) ELSE TakeAny(mark)

\* onSuccess at once if the mark runs; a mark that is waiting gets a slot more,
\* or, after ten seconds, its slot again; a connected one is bound again.
\* def is MAX_PROC_COUNT for -1.
requestIdleProcess(def, mark) ==
  LET own  == {i \in Slots : mProcList[i].mark = mark}
      p    == First(own)
      item == mProcList[p]
  IN  \/ own = {} /\ Acquire(def, mark)
      \/ /\ own # {} /\ item.state = "RUNNING"
         /\ IF item.app THEN UNCHANGED vars ELSE Crash
      \/ /\ own # {} /\ item.state = "WAITING" /\ ~item.late
         /\ Acquire(def, mark)
      \/ /\ own # {}
         /\ item.state \in {"IDLE", "WAITING"}
         /\ item.state = "WAITING" => item.late
         /\ Retake(p, mark)
      \/ /\ own # {} /\ item.state = "CONNECTED"
         /\ binProc(p, item, conns[p], mark)

tenSeconds(i) ==
  /\ mProcList[i].state = "WAITING"
  /\ ~mProcList[i].late
  /\ mProcList' = [mProcList EXCEPT ![i].late = TRUE]
  /\ UNCHANGED <<conns, hasConn, hellos>>
-----------------------------------------------------------------------------
(* What the processes and Android answer *)

\* The new AppProcess says HELLO.  The callback of connection k, which starts
\* its mrp in the process, is onSuccess.
onServiceConnected(i, k) ==
  /\ conns[i][k].status = "waiting"
  /\ \A j \in DOMAIN conns[i] : conns[i][j].status # "lost"
  /\ conns' = [conns EXCEPT ![i][k].status = "connected"]
  /\ mProcList' = [mProcList EXCEPT ![i].state = "CONNECTED", ![i].app = TRUE]
  /\ hellos' = [hellos EXCEPT ![i] = @ + 1]
  /\ UNCHANGED hasConn

markAsRunning(i) == mProcList' = [mProcList EXCEPT ![i].state = "RUNNING"]

\* AppProcess.handleMessage, case MSG_HELLO
hello(i) ==
  /\ hellos[i] > 0
  /\ markAsRunning(i)
  /\ hellos' = [hellos EXCEPT ![i] = @ - 1]
  /\ UNCHANGED <<conns, hasConn>>

\* The process of slot i is gone; of its answers some are already in the queue.
processDies(i) ==
  /\ \E k \in DOMAIN conns[i] : conns[i][k].status = "connected"
  /\ conns' = [conns EXCEPT ![i] =
       [k \in DOMAIN @ |-> IF @[k].status = "connected"
                           THEN [@[k] EXCEPT !.status = "lost"] ELSE @[k]]]
  /\ \E n \in 0 .. hellos[i] : hellos' = [hellos EXCEPT ![i] = n]
  /\ UNCHANGED <<mProcList, hasConn>>

\* Mutant: the connection is unbound but the slot not reset.
onServiceDisconnectedNoReset(i, k) ==
  /\ conns[i][k].status = "lost"
  /\ hellos[i] = 0
  /\ conns' = [conns EXCEPT ![i] =
       LET left == [@ EXCEPT ![k].status = "waiting"]
       IN  IF hasConn[i] THEN Front(left) ELSE left]
  /\ hasConn' = [hasConn EXCEPT ![i] = FALSE]
  /\ UNCHANGED <<mProcList, hellos>>

\* Mutant: the slot's connection is unbound but still thought to be bound.
onServiceDisconnectedKeepsConn(i, k) ==
  /\ conns[i][k].status = "lost"
  /\ hellos[i] = 0
  /\ conns' = [conns EXCEPT ![i] =
       LET left == [@ EXCEPT ![k].status = "waiting"]
       IN  IF hasConn[i] THEN Front(left) ELSE left]
  /\ mProcList' = [mProcList EXCEPT ![i] = Idle]
  /\ UNCHANGED <<hasConn, hellos>>

\* Unbinds the slot's connection, which need not be the one called back: that
\* one, if it stays bound, waits for the process to start again.
onServiceDisconnected(i, k) ==
  /\ conns[i][k].status = "lost"
  /\ hellos[i] = 0
  /\ conns' = [conns EXCEPT ![i] =
       LET left == [@ EXCEPT ![k].status = "waiting"]
       IN  IF hasConn[i] THEN Front(left) ELSE left]
  /\ hasConn' = [hasConn EXCEPT ![i] = FALSE]
  /\ mProcList' = [mProcList EXCEPT ![i] = Idle]
  /\ UNCHANGED hellos

Request == \E def \in Slots \cup {MAX_PROC_COUNT}, m \in Marks : requestIdleProcess(def, m)

Connected(i) == \E k \in DOMAIN conns[i] : onServiceConnected(i, k)
Disconnected(i) == \E k \in DOMAIN conns[i] : onServiceDisconnected(i, k)

Next ==
  \/ Request
  \/ \E i \in Slots :
       tenSeconds(i) \/ Connected(i) \/ hello(i) \/ processDies(i) \/ Disconnected(i)

\* Android starts the process of a bound service and reports its death; a
\* process answers while it lives.  Nobody need ask for anything.
Fairness ==
  \A i \in Slots :
    WF_vars(Connected(i)) /\ WF_vars(hello(i)) /\ WF_vars(Disconnected(i))

Spec == Init /\ [][Next]_vars /\ Fairness
-----------------------------------------------------------------------------
(* Properties *)

\* Every slot's fields are in range; Item.conn, if set, is a bound connection.
TypeOK ==
  /\ mProcList \in [Slots -> Items]
  /\ conns \in [Slots -> Seq(Connections)]
  /\ hasConn \in [Slots -> BOOLEAN]
  /\ hellos \in [Slots -> Nat]
  /\ \A i \in Slots : hasConn[i] => conns[i] # << >>

\* Every slot that is kept for a mrp is bound to a connection that answers the
\* request for that mrp, and while it waits that connection has not been
\* answered yet: no slot waits for nothing.
SlotBound ==
  \A i \in Slots :
    LET item == mProcList[i]
        own  == Last(conns[i])
    IN  /\ item.mark # NoMark => hasConn[i] /\ conns[i] # << >> /\ own.mark = item.mark
        /\ item.state = "WAITING" => item.mark # NoMark /\ own.status = "waiting"

\* A connected slot, which no other request may take, is waiting for an answer
\* or about to learn that its process died.
NotStuck ==
  \A i \in Slots :
    mProcList[i].state = "CONNECTED" =>
      hellos[i] > 0 \/ \E k \in DOMAIN conns[i] : conns[i][k].status = "lost"

\* A slot does not stay on the way up for ever.
Settles ==
  \A i \in Slots :
    mProcList[i].state \in {"WAITING", "CONNECTED"} ~>
      mProcList[i].state \in {"IDLE", "RUNNING"}

\* AppProcessManager.java, 199: a slot still waiting when another mrp needs one
\* is killed.  (The connection it waited for never starts its mrp in it.)
WaitingKilled ==
  [][\A i \in Slots :
       mProcList[i].state = "WAITING" /\ mProcList'[i].mark \notin {mProcList[i].mark, NoMark} =>
         \A k \in DOMAIN conns'[i] : conns'[i][k].mark # mProcList[i].mark]_vars
=============================================================================
