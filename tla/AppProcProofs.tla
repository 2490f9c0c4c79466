---------------------------- MODULE AppProcProofs ----------------------------
(***************************************************************************)
(* For every number of slots and every set of mrps: no slot waits for      *)
(* nothing, neither before its process is up nor after.                    *)
(***************************************************************************)
EXTENDS AppProc, SequenceTheorems, TLAPS

\* The three state properties are preserved together: the guards of the
\* callbacks compare what each of them says of a slot.
Inv == TypeOK /\ SlotBound /\ NotStuck

\* The new connection is the slot's last one and waits.
LEMMA BindKeeps ==
  ASSUME Inv, NEW i \in Slots, NEW item \in Items, NEW bound \in Seq(Connections),
         NEW mark \in Marks, binProc(i, item, bound, mark)
  PROVE  Inv'
<1> DEFINE conn == [mark |-> mark, status |-> "waiting"]
<1>1. mark # NoMark
  BY AppProcAssumption
<1>2. /\ conn \in Connections
      /\ [item EXCEPT !.state = "WAITING", !.mark = mark, !.late = FALSE] \in Items
  BY DEF Connections, Items, ItemStates
<1>3. /\ Append(bound, conn) \in Seq(Connections)
      /\ Append(bound, conn) # << >>
      /\ Last(Append(bound, conn)) = conn
  BY <1>2 DEF Last
<1>4. TypeOK'
  BY <1>2, <1>3 DEF Inv, TypeOK, binProc
<1>5. SlotBound'
  BY <1>1, <1>3 DEF Inv, TypeOK, SlotBound, binProc, Items
<1>6. NotStuck'
  BY DEF Inv, TypeOK, NotStuck, binProc, Items
<1> QED BY <1>4, <1>5, <1>6 DEF Inv

\* What unbindProc leaves is a sequence of connections.
LEMMA UnbindTyped ==
  ASSUME TypeOK, NEW i \in Slots
  PROVE  unbindProc(i) \in Seq(Connections)
BY DEF TypeOK, unbindProc, Front

LEMMA IdleTyped == Idle \in Items
BY DEF Idle, Items, ItemStates

LEMMA RetakeKeeps ==
  ASSUME Inv, NEW i \in Slots, NEW mark \in Marks, Retake(i, mark)
  PROVE  Inv'
BY BindKeeps, UnbindTyped, IdleTyped DEF Retake, Inv

LEMMA CrashKeeps ==
  ASSUME Crash
  PROVE  Inv'
BY IdleTyped, AppProcAssumption DEF Crash, Inv, TypeOK, SlotBound, NotStuck, Idle

\* A bind of a slot that does not exist changes nothing, so it does not matter
\* here whether getIdleIndex finds one.
LEMMA BindElsewhere ==
  ASSUME Inv, NEW i, i \notin Slots, NEW item, NEW bound, NEW mark,
         binProc(i, item, bound, mark)
  PROVE  Inv'
<1>1. /\ mProcList' = mProcList
      /\ conns' = conns
      /\ hasConn' = hasConn
      /\ hellos' = hellos
  BY DEF binProc, Inv, TypeOK
<1> QED BY <1>1 DEF Inv, TypeOK, SlotBound, NotStuck

LEMMA TakeAnyKeeps ==
  ASSUME Inv, NEW mark \in Marks, TakeAny(mark)
  PROVE  Inv'
<1> DEFINE idle    == First(InState("IDLE"))
           waiting == First(InState("WAITING"))
<1>1. CASE binProc(idle, mProcList[idle], conns[idle], mark)
  <2>1. CASE idle \in Slots
    BY <1>1, <2>1, BindKeeps DEF Inv, TypeOK
  <2>2. CASE idle \notin Slots
    BY <1>1, <2>2, BindElsewhere
  <2> QED BY <2>1, <2>2
<1>2. CASE binProc(waiting, Idle, conns[waiting], mark)
  <2>1. CASE waiting \in Slots
    BY <1>2, <2>1, BindKeeps, IdleTyped DEF Inv, TypeOK
  <2>2. CASE waiting \notin Slots
    BY <1>2, <2>2, BindElsewhere
  <2> QED BY <2>1, <2>2
<1>3. CASE Crash
  BY <1>3, CrashKeeps
<1>4. CASE \E i \in InState("RUNNING") : Retake(i, mark)
  BY <1>4, RetakeKeeps DEF InState
<1> QED BY <1>1, <1>2, <1>3, <1>4 DEF TakeAny

LEMMA AcquireKeeps ==
  ASSUME Inv, NEW def, NEW mark \in Marks, Acquire(def, mark)
  PROVE  Inv'
<1>1. CASE TakeAny(mark)
  BY <1>1, TakeAnyKeeps
<1>2. CASE def \in Slots /\ Retake(def, mark)
  BY <1>2, RetakeKeeps
<1>3. CASE def \in Slots /\ binProc(def, mProcList[def], conns[def], mark)
  BY <1>3, BindKeeps DEF Inv, TypeOK
<1> QED BY <1>1, <1>2, <1>3 DEF Acquire, Take

LEMMA RequestKeeps ==
  ASSUME Inv, NEW def, NEW mark \in Marks, requestIdleProcess(def, mark)
  PROVE  Inv'
<1> DEFINE p == First({i \in Slots : mProcList[i].mark = mark})
<1>1. CASE Acquire(def, mark)
  BY <1>1, AcquireKeeps
<1>2. CASE UNCHANGED vars
  BY <1>2 DEF vars, Inv, TypeOK, SlotBound, NotStuck
<1>3. CASE Crash
  BY <1>3, CrashKeeps
<1>4. CASE Retake(p, mark)
  <2>1. CASE p \in Slots
    BY <1>4, <2>1, RetakeKeeps
  <2>2. CASE p \notin Slots
    BY <1>4, <2>2, BindElsewhere DEF Retake
  <2> QED BY <2>1, <2>2
<1>5. CASE binProc(p, mProcList[p], conns[p], mark)
  <2>1. CASE p \in Slots
    BY <1>5, <2>1, BindKeeps DEF Inv, TypeOK
  <2>2. CASE p \notin Slots
    BY <1>5, <2>2, BindElsewhere
  <2> QED BY <2>1, <2>2
<1> QED BY <1>1, <1>2, <1>3, <1>4, <1>5 DEF requestIdleProcess
-----------------------------------------------------------------------------
LEMMA TenSecondsKeeps ==
  ASSUME Inv, NEW i \in Slots, tenSeconds(i)
  PROVE  Inv'
<1>1. [mProcList[i] EXCEPT !.late = TRUE] \in Items
  BY DEF Inv, TypeOK, Items
<1>2. TypeOK'
  BY <1>1 DEF Inv, TypeOK, tenSeconds
<1>3. SlotBound' /\ NotStuck'
  BY DEF Inv, TypeOK, SlotBound, NotStuck, tenSeconds, Items
<1> QED BY <1>2, <1>3 DEF Inv

LEMMA HelloKeeps ==
  ASSUME Inv, NEW i \in Slots, hello(i)
  PROVE  Inv'
<1>1. [mProcList[i] EXCEPT !.state = "RUNNING"] \in Items
  BY DEF Inv, TypeOK, Items, ItemStates
<1>2. TypeOK'
  BY <1>1 DEF Inv, TypeOK, hello, markAsRunning
<1>3. SlotBound' /\ NotStuck'
  BY DEF Inv, TypeOK, SlotBound, NotStuck, hello, markAsRunning, Items
<1> QED BY <1>2, <1>3 DEF Inv

\* A callback changes the status of connections and nothing else of them.
LEMMA Restated ==
  ASSUME NEW s \in Seq(Connections), NEW t \in Seq(Connections),
         Len(t) = Len(s), \A k \in DOMAIN s : t[k].mark = s[k].mark, s # << >>
  PROVE  t # << >> /\ Last(t).mark = Last(s).mark
BY DEF Last

LEMMA ConnectedKeeps ==
  ASSUME Inv, NEW i \in Slots, Connected(i)
  PROVE  Inv'
<1> PICK k \in DOMAIN conns[i] : onServiceConnected(i, k)
  BY DEF Connected
<1> DEFINE t == [conns[i] EXCEPT ![k].status = "connected"]
<1>1. /\ conns[i] \in Seq(Connections)
      /\ conns[i][k] \in Connections
  BY DEF Inv, TypeOK
<1>2. [conns[i][k] EXCEPT !.status = "connected"] \in Connections
  BY <1>1 DEF Connections
<1>3. t \in Seq(Connections) /\ Len(t) = Len(conns[i])
  BY <1>1, <1>2
<1>4. \A j \in DOMAIN conns[i] : t[j].mark = conns[i][j].mark
  BY <1>1 DEF Connections
<1>5. conns[i] # << >> => t # << >> /\ Last(t).mark = Last(conns[i]).mark
  BY <1>1, <1>3, <1>4, Restated
<1>6. /\ conns' = [conns EXCEPT ![i] = t]
      /\ [mProcList[i] EXCEPT !.state = "CONNECTED", !.app = TRUE] \in Items
      /\ mProcList' = [mProcList EXCEPT ![i] =
           [mProcList[i] EXCEPT !.state = "CONNECTED", !.app = TRUE]]
      /\ hellos' = [hellos EXCEPT ![i] = hellos[i] + 1]
      /\ hasConn' = hasConn
  BY DEF onServiceConnected, Inv, TypeOK, Items, ItemStates
<1> HIDE DEF t
<1>7. TypeOK'
  BY <1>3, <1>5, <1>6 DEF Inv, TypeOK
<1>8. SlotBound'
  BY <1>5, <1>6 DEF Inv, TypeOK, SlotBound, Items
<1>9. NotStuck'
  BY <1>6 DEF Inv, TypeOK, NotStuck, Items
<1> QED BY <1>7, <1>8, <1>9 DEF Inv

LEMMA DiesKeeps ==
  ASSUME Inv, NEW i \in Slots, processDies(i)
  PROVE  Inv'
<1> DEFINE s == conns[i]
           t == [k \in DOMAIN s |-> IF s[k].status = "connected"
                                    THEN [s[k] EXCEPT !.status = "lost"] ELSE s[k]]
<1>1. s \in Seq(Connections)
  BY DEF Inv, TypeOK
<1>2. \A k \in DOMAIN s : s[k] \in Connections
  BY <1>1
<1>3. \A k \in DOMAIN s : t[k] \in Connections /\ t[k].mark = s[k].mark
  BY <1>2 DEF Connections
<1>4. t \in Seq(Connections) /\ Len(t) = Len(s)
  <2>1. DOMAIN t = 1 .. Len(s)
    BY <1>1
  <2>2. Len(s) \in Nat /\ t = [k \in 1 .. Len(s) |-> t[k]]
    BY <1>1, <2>1
  <2>3. DOMAIN s = 1 .. Len(s)
    BY <1>1
  <2> HIDE DEF s, t
  <2>4. t \in [1 .. Len(s) -> Connections]
    BY <1>3, <2>2, <2>3
  <2>5. t \in Seq(Connections)
    BY <2>2, <2>4, SeqDef
  <2> QED BY <2>1, <2>2, <2>5, LenProperties
<1>5. s # << >> => t # << >> /\ Last(t).mark = Last(s).mark
  BY <1>1, <1>3, <1>4, Restated
<1>6. s # << >> /\ Last(s).status = "waiting" => Last(t).status = "waiting"
  BY <1>1, <1>4 DEF Last
<1>7. \E k \in DOMAIN t : t[k].status = "lost"
  BY <1>2 DEF processDies, Connections
<1>8. /\ conns' = [conns EXCEPT ![i] = t]
      /\ hellos' \in [Slots -> Nat]
      /\ \A j \in Slots : j # i => hellos'[j] = hellos[j]
      /\ UNCHANGED <<mProcList, hasConn>>
  BY DEF processDies, Inv, TypeOK
<1>9. conns'[i] = t /\ \A j \in Slots : j # i => conns'[j] = conns[j]
  BY <1>8 DEF Inv, TypeOK
<1> HIDE DEF t
<1>10. TypeOK'
  BY <1>4, <1>5, <1>8 DEF Inv, TypeOK
<1>11. SlotBound'
  BY <1>5, <1>6, <1>8, <1>9 DEF Inv, TypeOK, SlotBound
<1>12. NotStuck'
  BY <1>7, <1>8, <1>9 DEF Inv, TypeOK, NotStuck
<1> QED BY <1>10, <1>11, <1>12 DEF Inv

LEMMA DisconnectedKeeps ==
  ASSUME Inv, NEW i \in Slots, Disconnected(i)
  PROVE  Inv'
<1> PICK k \in DOMAIN conns[i] : onServiceDisconnected(i, k)
  BY DEF Disconnected
<1> DEFINE left == [conns[i] EXCEPT ![k].status = "waiting"]
           t    == IF hasConn[i] THEN Front(left) ELSE left
<1>1. /\ conns[i] \in Seq(Connections)
      /\ conns[i][k] \in Connections
      /\ conns[i] # << >>
  BY DEF Inv, TypeOK
<1>2. [conns[i][k] EXCEPT !.status = "waiting"] \in Connections
  BY <1>1 DEF Connections
<1>3. left \in Seq(Connections) /\ Len(left) = Len(conns[i])
  BY <1>1, <1>2
<1>4. t \in Seq(Connections)
  <2> HIDE DEF left
  <2> QED BY <1>1, <1>3 DEF Front
<1>5. /\ conns' = [conns EXCEPT ![i] = t]
      /\ mProcList' = [mProcList EXCEPT ![i] = Idle]
      /\ hasConn' = [hasConn EXCEPT ![i] = FALSE]
      /\ hellos' = hellos
  BY DEF onServiceDisconnected
<1> HIDE DEF t
<1>6. TypeOK'
  BY <1>4, <1>5, IdleTyped DEF Inv, TypeOK
<1>7. SlotBound' /\ NotStuck'
  BY <1>5 DEF Inv, TypeOK, SlotBound, NotStuck, Idle
<1> QED BY <1>6, <1>7 DEF Inv
-----------------------------------------------------------------------------
\* The three properties hold in every state: requestIdleProcess, the
\* callbacks of the connections and the answers of the processes keep them.
THEOREM ProcInvariance == Spec => []Inv
<1>1. Init => Inv
  BY IdleTyped, AppProcAssumption DEF Init, Inv, TypeOK, SlotBound, NotStuck, Idle
<1>2. Inv /\ [Next]_vars => Inv'
  <2> SUFFICES ASSUME Inv, [Next]_vars PROVE Inv'
    OBVIOUS
  <2>1. CASE Request
    BY <2>1, RequestKeeps DEF Request
  <2>2. ASSUME NEW i \in Slots, tenSeconds(i) PROVE Inv'
    BY <2>2, TenSecondsKeeps
  <2>3. ASSUME NEW i \in Slots, Connected(i) PROVE Inv'
    BY <2>3, ConnectedKeeps
  <2>4. ASSUME NEW i \in Slots, hello(i) PROVE Inv'
    BY <2>4, HelloKeeps
  <2>5. ASSUME NEW i \in Slots, processDies(i) PROVE Inv'
    BY <2>5, DiesKeeps
  <2>6. ASSUME NEW i \in Slots, Disconnected(i) PROVE Inv'
    BY <2>6, DisconnectedKeeps
  <2>7. CASE UNCHANGED vars
    BY <2>7 DEF vars, Inv, TypeOK, SlotBound, NotStuck
  <2> QED BY <2>1, <2>2, <2>3, <2>4, <2>5, <2>6, <2>7 DEF Next
<1> QED BY <1>1, <1>2, PTL DEF Spec

\* Every slot's fields stay in range; Item.conn is never a stale connection.
THEOREM ProcTypeCorrect == Spec => []TypeOK
<1>1. Inv => TypeOK
  BY DEF Inv
<1> QED BY <1>1, ProcInvariance, PTL

\* A slot kept for a mrp is bound for it, and bound anew while it waits
\* (binProc, onServiceDisconnected).
THEOREM SlotsBound == Spec => []SlotBound
<1>1. Inv => SlotBound
  BY DEF Inv
<1> QED BY <1>1, ProcInvariance, PTL

\* A connected slot has an answer or a disconnection coming (MSG_HELLO,
\* onServiceDisconnected).
THEOREM ConnectedMovesOn == Spec => []NotStuck
<1>1. Inv => NotStuck
  BY DEF Inv
<1> QED BY <1>1, ProcInvariance, PTL
-----------------------------------------------------------------------------
(* A slot settles *)

\* The fairness of Spec, with the conditions under which the actions are enabled
\* written out, since the prover does not know ENABLED.
HelloDue(i) == hellos[i] > 0
LostDue(i) == hellos[i] = 0 /\ \E k \in DOMAIN conns[i] : conns[i][k].status = "lost"
ConnectDue(i) ==
  /\ \E k \in DOMAIN conns[i] : conns[i][k].status = "waiting"
  /\ \A k \in DOMAIN conns[i] : conns[i][k].status # "lost"

Runs ==
  \A i \in Slots :
    /\ []<>~HelloDue(i) \/ []<><<hello(i)>>_vars
    /\ []<>~LostDue(i) \/ []<><<Disconnected(i)>>_vars
    /\ []<>~ConnectDue(i) \/ []<><<Connected(i)>>_vars

Rising(i) == mProcList[i].state \in {"WAITING", "CONNECTED"}
Settled(i) == mProcList[i].state \in {"IDLE", "RUNNING"}
Lost(i) == \E k \in DOMAIN conns[i] : conns[i][k].status = "lost"

\* What a request leaves of a slot on its way up: the answers that are coming
\* and the connections that were lost.
Kept(i) == hellos'[i] = hellos[i] /\ (Lost(i) => Lost(i)')

\* A lost connection stays when another one is bound, also in a slot that was
\* waiting, whose last connection is unbound first.
LEMMA LostStays ==
  ASSUME NEW s \in Seq(Connections), NEW c \in Connections
  PROVE  /\ \A k \in DOMAIN s : k \in DOMAIN Append(s, c) /\ Append(s, c)[k] = s[k]
         /\ s # << >> /\ Last(s).status = "waiting" =>
              \A k \in DOMAIN s : s[k].status = "lost" =>
                k \in DOMAIN Front(s) /\ Front(s)[k] = s[k]
<1>1. \A k \in DOMAIN s : k \in DOMAIN Append(s, c) /\ Append(s, c)[k] = s[k]
  OBVIOUS
<1>2. ASSUME s # << >>, Last(s).status = "waiting", NEW k \in DOMAIN s, s[k].status = "lost"
      PROVE  k \in DOMAIN Front(s) /\ Front(s)[k] = s[k]
  <2>1. k # Len(s)
    BY <1>2 DEF Last
  <2>2. k \in 1 .. Len(s) - 1
    BY <2>1
  <2> QED BY <2>2 DEF Front
<1> QED BY <1>1, <1>2

LEMMA BindKeepsLost ==
  ASSUME Inv, NEW i \in Slots, Rising(i), NEW j, NEW item, NEW mark \in Marks, NEW bound,
         bound = conns[j] \/ (bound = unbindProc(j) /\ mProcList[j].state # "CONNECTED"),
         binProc(j, item, bound, mark)
  PROVE  Kept(i)
<1> DEFINE c == [mark |-> mark, status |-> "waiting"]
<1>1. hellos' = hellos /\ conns' = [conns EXCEPT ![j] = Append(bound, c)]
  BY DEF binProc
<1>2. c \in Connections /\ conns[i] \in Seq(Connections)
  BY DEF Connections, Inv, TypeOK
<1>3. CASE j # i
  BY <1>1, <1>3 DEF Kept, Lost, Inv, TypeOK
<1>4. CASE j = i
  <2>1. conns'[i] = Append(bound, c)
    BY <1>1, <1>4 DEF Inv, TypeOK
  <2>2. CASE bound = conns[i]
    BY <1>1, <1>2, <2>1, <2>2, LostStays DEF Kept, Lost
  <2>3. CASE bound = unbindProc(i) /\ mProcList[i].state # "CONNECTED"
    <3>1. mProcList[i].state = "WAITING"
      BY <2>3 DEF Rising
    <3>2. conns[i] # << >> /\ Last(conns[i]).status = "waiting" /\ hasConn[i]
      BY <3>1 DEF Inv, SlotBound
    <3>3. bound = Front(conns[i]) /\ bound \in Seq(Connections)
      BY <2>3, <3>2, UnbindTyped DEF unbindProc, Inv
    <3>4. ASSUME NEW k \in DOMAIN conns[i], conns[i][k].status = "lost"
          PROVE  k \in DOMAIN conns'[i] /\ conns'[i][k].status = "lost"
      <4>1. k \in DOMAIN bound /\ bound[k] = conns[i][k]
        BY <1>2, <3>2, <3>3, <3>4, LostStays
      <4>2. k \in DOMAIN Append(bound, c) /\ Append(bound, c)[k] = bound[k]
        BY <1>2, <3>3, <4>1, LostStays
      <4> QED BY <2>1, <3>4, <4>1, <4>2
    <3> QED BY <1>1, <3>4 DEF Kept, Lost
  <2> QED BY <1>4, <2>2, <2>3
<1> QED BY <1>3, <1>4

LEMMA CrashSettles ==
  ASSUME Crash, NEW i \in Slots
  PROVE  Settled(i)'
BY DEF Crash, Settled, Idle

LEMMA RequestKeepsLost ==
  ASSUME Inv, NEW i \in Slots, Rising(i), NEW def, NEW mark \in Marks,
         requestIdleProcess(def, mark)
  PROVE  Kept(i) \/ Settled(i)'
<1> DEFINE p       == First({j \in Slots : mProcList[j].mark = mark})
           idle    == First(InState("IDLE"))
           waiting == First(InState("WAITING"))
<1>1. ASSUME TakeAny(mark) PROVE Kept(i) \/ Settled(i)'
  <2>1. CASE binProc(idle, mProcList[idle], conns[idle], mark)
    BY <2>1, BindKeepsLost
  <2>2. CASE binProc(waiting, Idle, conns[waiting], mark)
    BY <2>2, BindKeepsLost
  <2>3. CASE Crash
    BY <2>3, CrashSettles
  <2>4. CASE \E j \in InState("RUNNING") : Retake(j, mark)
    <3> PICK j \in InState("RUNNING") : Retake(j, mark)
      BY <2>4
    <3> QED BY BindKeepsLost DEF Retake, InState
  <2> QED BY <1>1, <2>1, <2>2, <2>3, <2>4 DEF TakeAny
<1>2. CASE Acquire(def, mark)
  <2>1. CASE def \in Slots /\ Retake(def, mark) /\ mProcList[def].state \in {"WAITING", "RUNNING"}
    BY <2>1, BindKeepsLost DEF Retake
  <2>2. CASE binProc(def, mProcList[def], conns[def], mark)
    BY <2>2, BindKeepsLost
  <2> QED BY <1>1, <1>2, <2>1, <2>2 DEF Acquire, Take
<1>3. CASE UNCHANGED vars
  BY <1>3 DEF vars, Kept, Lost
<1>4. CASE Crash
  BY <1>4, CrashSettles
<1>5. CASE mProcList[p].state \in {"IDLE", "WAITING"} /\ Retake(p, mark)
  BY <1>5, BindKeepsLost DEF Retake
<1>6. CASE binProc(p, mProcList[p], conns[p], mark)
  BY <1>6, BindKeepsLost
<1> QED BY <1>2, <1>3, <1>4, <1>5, <1>6 DEF requestIdleProcess

\* The steps of a slot on its way up: an answer comes, or a connection was lost,
\* or it still waits for its process.
Greeted(i) == Rising(i) /\ hellos[i] > 0
Broken(i) == Rising(i) /\ LostDue(i)
Starting(i) == Rising(i) /\ hellos[i] = 0 /\ ~Lost(i)

LEMMA Stages ==
  ASSUME Inv, NEW i \in Slots
  PROVE  /\ Rising(i) <=> ~Settled(i)
         /\ Rising(i) => Greeted(i) \/ Broken(i) \/ Starting(i)
         /\ Greeted(i) => HelloDue(i)
         /\ Broken(i) => LostDue(i)
         /\ Starting(i) => ConnectDue(i)
<1>1. Rising(i) <=> ~Settled(i)
  BY DEF Rising, Settled, Inv, TypeOK, Items, ItemStates
<1>2. hellos[i] \in Nat
  BY DEF Inv, TypeOK
<1>3. Rising(i) => Greeted(i) \/ Broken(i) \/ Starting(i)
  BY <1>2 DEF Greeted, Broken, Starting, LostDue, Lost
<1>4. ASSUME Starting(i) PROVE ConnectDue(i)
  <2>1. mProcList[i].state = "WAITING"
    BY <1>4 DEF Starting, Rising, Inv, NotStuck, Lost
  <2>2. conns[i] \in Seq(Connections) /\ conns[i] # << >> /\ Last(conns[i]).status = "waiting"
    BY <2>1 DEF Inv, TypeOK, SlotBound
  <2>3. Len(conns[i]) \in DOMAIN conns[i]
    BY <2>2
  <2> QED BY <1>4, <2>2, <2>3 DEF Starting, Lost, ConnectDue, Last
<1> QED BY <1>1, <1>3, <1>4 DEF Greeted, HelloDue, Broken

\* Other slots' callbacks leave a slot alone.
LEMMA OthersStay ==
  ASSUME Inv, NEW i \in Slots, NEW j \in Slots \ {i},
         tenSeconds(j) \/ Connected(j) \/ hello(j) \/ processDies(j) \/ Disconnected(j)
  PROVE  mProcList'[i] = mProcList[i] /\ conns'[i] = conns[i] /\ hellos'[i] = hellos[i]
<1>1. CASE tenSeconds(j)
  BY <1>1 DEF tenSeconds, Inv, TypeOK
<1>2. CASE Connected(j)
  BY <1>2 DEF Connected, onServiceConnected, Inv, TypeOK
<1>3. CASE hello(j)
  BY <1>3 DEF hello, markAsRunning, Inv, TypeOK
<1>4. CASE processDies(j)
  BY <1>4 DEF processDies, Inv, TypeOK
<1>5. CASE Disconnected(j)
  BY <1>5 DEF Disconnected, onServiceDisconnected, Inv, TypeOK
<1> QED BY <1>1, <1>2, <1>3, <1>4, <1>5

\* A process that dies leaves its connections lost.
LEMMA DyingLoses ==
  ASSUME Inv, NEW i \in Slots, processDies(i)
  PROVE  Lost(i)' /\ hellos'[i] \in 0 .. hellos[i]
<1>1. conns[i] \in Seq(Connections)
  BY DEF Inv, TypeOK
<1>2. PICK k \in DOMAIN conns[i] : conns[i][k].status = "connected"
  BY DEF processDies
<1>3. conns[i][k] \in Connections
  BY <1>1, <1>2
<1>4. conns'[i] = [m \in DOMAIN conns[i] |->
                     IF conns[i][m].status = "connected"
                       THEN [conns[i][m] EXCEPT !.status = "lost"] ELSE conns[i][m]]
  BY DEF processDies, Inv, TypeOK
<1>5. k \in DOMAIN conns'[i] /\ conns'[i][k].status = "lost"
  BY <1>2, <1>3, <1>4 DEF Connections
<1>6. hellos'[i] \in 0 .. hellos[i]
  BY DEF processDies, Inv, TypeOK
<1> QED BY <1>5, <1>6 DEF Lost

LEMMA SettleSteps ==
  ASSUME Inv, Inv', NEW i \in Slots, [Next]_vars
  PROVE  /\ Greeted(i) => Greeted(i)' \/ Broken(i)' \/ Settled(i)'
         /\ Broken(i) => Broken(i)' \/ Settled(i)'
         /\ hello(i) => Settled(i)'
         /\ Disconnected(i) => Settled(i)'
         /\ Connected(i) => Greeted(i)'
<1>1. hellos[i] \in Nat /\ hellos'[i] \in Nat /\ (Rising(i)' <=> ~Settled(i)')
  BY DEF Rising, Settled, Inv, TypeOK, Items, ItemStates
<1>2. hello(i) => Settled(i)'
  BY DEF hello, markAsRunning, Settled, Inv, TypeOK
<1>3. Disconnected(i) => Settled(i)'
  BY DEF Disconnected, onServiceDisconnected, Idle, Settled, Inv, TypeOK
<1>4. Connected(i) => Greeted(i)' /\ ~Lost(i)
  BY DEF Connected, onServiceConnected, Greeted, Rising, Lost, Inv, TypeOK
<1>5. ASSUME Rising(i), ~hello(i), ~Disconnected(i), ~Connected(i)
      PROVE  \/ Settled(i)'
             \/ Kept(i)
             \/ Lost(i)' /\ hellos'[i] \in 0 .. hellos[i]
  <2>1. CASE Request
    BY <1>5, <2>1, RequestKeepsLost DEF Request
  <2>2. ASSUME NEW j \in Slots,
               tenSeconds(j) \/ Connected(j) \/ hello(j) \/ processDies(j) \/ Disconnected(j)
        PROVE  Kept(i) \/ (Lost(i)' /\ hellos'[i] \in 0 .. hellos[i])
    <3>1. CASE j # i
      BY <2>2, <3>1, OthersStay DEF Kept, Lost
    <3>2. CASE tenSeconds(i)
      BY <3>2 DEF tenSeconds, Kept, Lost
    <3>3. CASE processDies(i)
      BY <3>3, DyingLoses
    <3> QED BY <1>5, <2>2, <3>1, <3>2, <3>3
  <2>3. CASE UNCHANGED vars
    BY <2>3 DEF vars, Kept, Lost
  <2> QED BY <2>1, <2>2, <2>3 DEF Next
<1>6. ASSUME Greeted(i) PROVE Greeted(i)' \/ Broken(i)' \/ Settled(i)'
  BY <1>1, <1>2, <1>3, <1>4, <1>5, <1>6 DEF Greeted, Broken, LostDue, Lost, Kept
<1>7. ASSUME Broken(i) PROVE Broken(i)' \/ Settled(i)'
  <2>1. Lost(i) /\ hellos[i] = 0 /\ Rising(i) /\ ~Connected(i)
    BY <1>4, <1>7 DEF Broken, LostDue, Lost
  <2> QED BY <1>1, <1>2, <1>3, <1>5, <2>1 DEF Broken, LostDue, Lost, Kept
<1> QED BY <1>2, <1>3, <1>4, <1>6, <1>7

\* For any number of slots and mrps, no slot stays on its way up for ever:
\* whatever is requested meanwhile, its process answers or is lost.
THEOREM SlotsSettle == Spec /\ Runs => Settles
<1> SUFFICES ASSUME NEW i \in Slots
             PROVE  Spec /\ Runs =>
                      (mProcList[i].state \in {"WAITING", "CONNECTED"} ~>
                         mProcList[i].state \in {"IDLE", "RUNNING"})
  BY DEF Settles
<1> DEFINE R == Rising(i)
<1> DEFINE S == Settled(i)
<1> DEFINE A == Greeted(i)
<1> DEFINE B == Broken(i)
<1> DEFINE C == Starting(i)
<1>1. Inv => /\ R <=> ~S
             /\ R => A \/ B \/ C
             /\ A => HelloDue(i)
             /\ B => LostDue(i)
             /\ C => ConnectDue(i)
  BY Stages
<1>2. Inv /\ Inv' /\ [Next]_vars =>
        /\ A => A' \/ B' \/ S'
        /\ B => B' \/ S'
        /\ hello(i) => S'
        /\ Disconnected(i) => S'
        /\ Connected(i) => A'
  BY SettleSteps
<1>3. Runs => /\ []<>~HelloDue(i) \/ []<><<hello(i)>>_vars
              /\ []<>~LostDue(i) \/ []<><<Disconnected(i)>>_vars
              /\ []<>~ConnectDue(i) \/ []<><<Connected(i)>>_vars
  BY DEF Runs
<1>4. Spec => []Inv /\ [][Next]_vars
  BY ProcInvariance, PTL DEF Spec
<1> HIDE DEF R, S, A, B, C
<1>5. []Inv /\ [][Next]_vars /\ Runs => (R ~> S)
  BY <1>1, <1>2, <1>3, PTL
<1> QED BY <1>4, <1>5, PTL DEF R, S, Rising, Settled
=============================================================================
