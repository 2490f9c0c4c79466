-------------------------- MODULE HostLookupProofs --------------------------
(***************************************************************************)
(* Theorems about host lookups (module HostLookup), for any number of them *)
(* and every application.                                                  *)
(*                                                                         *)
(* Nothing in the code ties an answer to its lookup: the callback, the     *)
(* buffer and the message are shared.  The invariant says why an           *)
(* application that waits gets its own all the same: while a lookup is on  *)
(* its way, in a thread or in the queue, it is the only one.               *)
(***************************************************************************)
EXTENDS HostLookup, SequenceTheorems, TLAPS

-----------------------------------------------------------------------------
(* What the invariant needs besides the properties. *)

Active(r) == thread[r] \in {"resolving", "resolved"}

(* A lookup that was not asked for has no thread, heard nothing and is not   *)
(* that of the callback.                                                     *)
Unasked == \A r \in Lookups : r > asked =>
  thread[r] = "none" /\ heard[r] = <<>> /\ callBack # r

(* A thread that has no answer yet, or has not posted it, is that of the     *)
(* registered callback, which was not called yet; what it read is in the     *)
(* buffer.                                                                   *)
ThreadIsMine == \A r \in Lookups : Active(r) =>
  /\ callBack = r /\ waits = {r} /\ queue = <<>> /\ heard[r] = <<>>
  /\ thread[r] = "resolved" => dnsBuf = r

(* A message in the queue is alone there and for the registered callback. *)
MessageIsMine == queue # <<>> =>
  /\ Len(queue) = 1 /\ queue[1] \in {callBack, Bad}
  /\ callBack \in Lookups /\ waits = {callBack} /\ heard[callBack] = <<>>

(* There is an answer in the buffer when a thread has resolved its name. *)
BufferFilled == \A r \in Lookups : thread[r] = "resolved" => dnsBuf \in Lookups

HeardOnce ==
  /\ heard[Nobody] = <<>>
  /\ \A r \in Lookups : heard[r] = <<>> \/ \E v \in {r, Bad} : heard[r] = <<v>>

IInv ==
  /\ TypeOK
  /\ Unasked
  /\ BufferFilled
  /\ app = "patient" => HeardOnce
  /\ app = "patient" /\ running => ThreadIsMine /\ MessageIsMine

-----------------------------------------------------------------------------
LEMMA NobodyApart == /\ Nobody \notin Lookups /\ Bad \notin Lookups
                     /\ \A r \in Lookups : r \in Int
  BY HostLookupAssumption DEF Nobody, Bad, Lookups

(* The queue. *)
LEMMA QueueTyped ==
  ASSUME queue \in Seq(Lookups \cup {Bad})
  PROVE  /\ \A v \in Lookups \cup {Bad} : Append(queue, v) \in Seq(Lookups \cup {Bad})
         /\ \A v : queue = <<>> => Append(queue, v) = <<v>> /\ Len(<<v>>) = 1 /\ <<v>>[1] = v
         /\ queue # <<>> => /\ Tail(queue) \in Seq(Lookups \cup {Bad})
                            /\ Head(queue) = queue[1] /\ queue[1] \in Lookups \cup {Bad}
                            /\ Len(queue) = 1 => Tail(queue) = <<>>
<1> DEFINE S == Lookups \cup {Bad}
<1>1. \A v \in S : Append(queue, v) \in Seq(S) BY AppendProperties
<1>2. ASSUME NEW v, queue = <<>>
      PROVE  Append(queue, v) = <<v>> /\ Len(<<v>>) = 1 /\ <<v>>[1] = v
  BY <1>2
<1>3. ASSUME queue # <<>>
      PROVE  /\ Tail(queue) \in Seq(S) /\ Head(queue) = queue[1] /\ queue[1] \in S
             /\ Len(queue) = 1 => Tail(queue) = <<>>
  <2>1. Tail(queue) \in Seq(S) /\ Len(Tail(queue)) = Len(queue) - 1 /\ Head(queue) \in S
    BY <1>3, HeadTailProperties
  <2>2. Head(queue) = queue[1] BY <1>3
  <2>3. Len(queue) = 1 => Tail(queue) = <<>>
    <3>1. Len(queue) = 1 => Len(Tail(queue)) = 0 BY <2>1
    <3>2. Tail(queue) # <<>> => Len(Tail(queue)) # 0
      <4>1. \A s \in Seq(S) : s # <<>> => Len(s) \in Nat \ {0} BY EmptySeq
      <4>2. QED BY <2>1, <4>1
    <3>3. QED BY <3>1, <3>2
  <2>4. QED BY <2>1, <2>2, <2>3
<1>4. QED BY <1>1, <1>2, <1>3

LEMMA InitHolds == Init => IInv
<1> SUFFICES ASSUME Init PROVE IInv
  OBVIOUS
<1> USE NobodyApart
<1>1. TypeOK
  <2>1. asked \in 0 .. MaxLookup BY HostLookupAssumption DEF Init
  <2>2. {callBack, tid, dnsBuf, joining} \subseteq Lookups \cup {Nobody} BY DEF Init
  <2>3. queue \in Seq(Lookups \cup {Bad}) BY DEF Init
  <2>4. heard \in [Lookups \cup {Nobody} -> Seq(Lookups \cup {Bad})] BY DEF Init
  <2>5. QED BY <2>1, <2>2, <2>3, <2>4 DEF Init, TypeOK
<1>2. Unasked /\ BufferFilled /\ HeardOnce /\ ThreadIsMine /\ MessageIsMine
  BY DEF Init, Unasked, BufferFilled, HeardOnce, ThreadIsMine, MessageIsMine, Active
<1>3. QED BY <1>1, <1>2 DEF IInv

-----------------------------------------------------------------------------
(* The calls of the application. *)
LEMMA GetHostByNameKeeps == ASSUME IInv, GetHostByName PROVE IInv'
<1> USE NobodyApart
<1> DEFINE n == asked + 1
<1>1. n \in Lookups /\ asked' = n /\ asked' \in 0 .. MaxLookup /\ n > asked /\ callBack' = n
      /\ \A r \in Lookups : r > n => r > asked /\ r # n
  BY HostLookupAssumption DEF IInv, TypeOK, GetHostByName, Lookups
<1>2. thread[n] = "none" /\ heard[n] = <<>> BY <1>1 DEF IInv, Unasked
<1>3. \/ tid' = n /\ thread' = [thread EXCEPT ![n] = "resolving"] /\ waits' = waits \cup {n}
      \/ UNCHANGED <<tid, thread, waits>>
  BY <1>1 DEF GetHostByName
<1>4. UNCHANGED <<app, dnsBuf, queue, joining, running, heard>> /\ running
      /\ (app = "patient" => waits = {})
  BY DEF GetHostByName, HandlerFree
<1> HIDE DEF n
<1>5. TypeOK' BY <1>1, <1>3, <1>4 DEF IInv, TypeOK
<1>6. \A r \in Lookups : r # n => thread'[r] = thread[r]
  BY <1>3 DEF IInv, TypeOK
<1>7. thread'[n] \in {"none", "resolving"} /\ (thread'[n] = "resolving" => waits' = waits \cup {n})
  BY <1>1, <1>2, <1>3 DEF IInv, TypeOK
<1>8. Unasked' /\ BufferFilled'
  BY <1>1, <1>4, <1>6, <1>7 DEF IInv, Unasked, BufferFilled
<1>9. app' = "patient" => HeardOnce' BY <1>4 DEF IInv, HeardOnce
<1>10. ASSUME app' = "patient" PROVE ThreadIsMine' /\ MessageIsMine'
  <2>1. waits = {} /\ queue = <<>> /\ \A r \in Lookups : ~Active(r)
    BY <1>4, <1>10 DEF IInv, ThreadIsMine, MessageIsMine
  <2>2. MessageIsMine' BY <1>4, <2>1 DEF MessageIsMine
  <2>3. ASSUME NEW r \in Lookups, Active(r)'
        PROVE  r = n /\ thread'[n] = "resolving"
    BY <1>6, <1>7, <2>1, <2>3 DEF Active
  <2>4. ThreadIsMine' BY <1>1, <1>2, <1>4, <1>7, <2>1, <2>3 DEF ThreadIsMine
  <2>5. QED BY <2>2, <2>4
<1>11. QED BY <1>5, <1>8, <1>9, <1>10 DEF IInv

LEMMA CloseNetworkKeeps == ASSUME IInv, CloseNetwork PROVE IInv'
<1>1. app = "patient" => waits = {} BY DEF CloseNetwork
<1>2. TypeOK' BY DEF IInv, TypeOK, CloseNetwork
<1>3. Unasked' /\ BufferFilled' /\ (app' = "patient" => HeardOnce')
  BY DEF IInv, CloseNetwork, Unasked, BufferFilled, HeardOnce
<1>4. app' = "patient" => ThreadIsMine' /\ MessageIsMine'
  BY <1>1 DEF IInv, CloseNetwork, HandlerFree, ThreadIsMine, MessageIsMine, Active
<1>5. QED BY <1>2, <1>3, <1>4 DEF IInv

LEMMA JoinedKeeps == ASSUME IInv, Joined PROVE IInv'
<1>1. TypeOK' BY DEF IInv, TypeOK, Joined
<1>2. Unasked' /\ BufferFilled' /\ (app' = "patient" => HeardOnce')
  BY DEF IInv, Joined, Unasked, BufferFilled, HeardOnce
<1>3. app' = "patient" /\ running' => ThreadIsMine' /\ MessageIsMine'
  BY DEF IInv, Joined, ThreadIsMine, MessageIsMine, Active
<1>4. QED BY <1>1, <1>2, <1>3 DEF IInv

LEMMA InitNetworkKeeps == ASSUME IInv, InitNetwork PROVE IInv'
<1> USE NobodyApart
<1>1. app = "patient" => waits = {} BY DEF InitNetwork
<1>2. TypeOK' BY DEF IInv, TypeOK, InitNetwork
<1>3. Unasked' /\ BufferFilled' /\ (app' = "patient" => HeardOnce')
  BY DEF IInv, InitNetwork, Unasked, BufferFilled, HeardOnce
<1>4. app' = "patient" => ThreadIsMine' /\ MessageIsMine'
  BY <1>1 DEF IInv, InitNetwork, HandlerFree, ThreadIsMine, MessageIsMine, Active
<1>5. QED BY <1>2, <1>3, <1>4 DEF IInv

LEMMA ExitKeeps == ASSUME IInv, Exit PROVE IInv'
<1>1. TypeOK' BY DEF IInv, TypeOK, Exit
<1>2. Unasked' /\ BufferFilled' /\ (app' = "patient" => HeardOnce')
  BY DEF IInv, Exit, Unasked, BufferFilled, HeardOnce
<1>3. ~running' BY DEF Exit
<1>4. QED BY <1>1, <1>2, <1>3 DEF IInv

-----------------------------------------------------------------------------
(* The handler calls the callback. *)
LEMMA DeliverKeeps == ASSUME IInv, Deliver PROVE IInv'
<1> USE NobodyApart
<1>1. /\ queue # <<>> /\ queue' = Tail(queue)
      /\ UNCHANGED <<app, asked, callBack, tid, thread, dnsBuf, joining, running>>
  BY DEF Deliver
<1>2. /\ queue \in Seq(Lookups \cup {Bad}) /\ heard \in [Lookups \cup {Nobody} -> Seq(Lookups \cup {Bad})]
      /\ callBack \in Lookups \cup {Nobody}
  BY DEF IInv, TypeOK
<1>3. /\ queue' \in Seq(Lookups \cup {Bad}) /\ Head(queue) = queue[1] /\ queue[1] \in Lookups \cup {Bad}
      /\ Len(queue) = 1 => queue' = <<>>
  BY <1>1, <1>2, QueueTyped
<1>4. IF running THEN /\ heard' = [heard EXCEPT ![callBack] = Append(heard[callBack], queue[1])]
                      /\ waits' = waits \ {callBack}
      ELSE UNCHANGED <<heard, waits>>
  BY <1>3 DEF Deliver
<1>B. BufferFilled' BY <1>1 DEF IInv, BufferFilled
<1>5. TypeOK'
  <2>1. heard' \in [Lookups \cup {Nobody} -> Seq(Lookups \cup {Bad})]
    <3>1. Append(heard[callBack], queue[1]) \in Seq(Lookups \cup {Bad}) BY <1>2, <1>3
    <3>2. QED BY <1>2, <1>4, <3>1
  <2>2. QED BY <1>1, <1>3, <1>4, <2>1 DEF IInv, TypeOK
<1>6. \A r \in Lookups \cup {Nobody} : r # callBack => heard'[r] = heard[r]
  BY <1>2, <1>4
<1>7. CASE app = "patient" /\ running
  <2>1. /\ Len(queue) = 1 /\ queue[1] \in {callBack, Bad}
        /\ callBack \in Lookups /\ waits = {callBack} /\ heard[callBack] = <<>>
        /\ \A r \in Lookups : ~Active(r)
    BY <1>1, <1>7 DEF IInv, MessageIsMine, ThreadIsMine
  <2>2. heard'[callBack] = <<queue[1]>> BY <1>2, <1>4, <1>7, <2>1
  <2>3. Unasked'
    <3>1. \A r \in Lookups : r > asked => r # callBack BY DEF IInv, Unasked
    <3>2. QED BY <1>1, <1>6, <3>1 DEF IInv, Unasked
  <2>4. HeardOnce'
    <3>1. heard'[Nobody] = <<>> BY <1>6, <1>7, <2>1 DEF IInv, HeardOnce
    <3>2. ASSUME NEW r \in Lookups
          PROVE  heard'[r] = <<>> \/ \E v \in {r, Bad} : heard'[r] = <<v>>
      <4>1. CASE r = callBack BY <4>1, <2>1, <2>2
      <4>2. CASE r # callBack BY <4>2, <1>6, <1>7 DEF IInv, HeardOnce
      <4>3. QED BY <4>1, <4>2
    <3>3. QED BY <3>1, <3>2 DEF HeardOnce
  <2>5. queue' = <<>> BY <1>3, <2>1
  <2>6. ThreadIsMine' /\ MessageIsMine' BY <1>1, <2>1, <2>5 DEF ThreadIsMine, MessageIsMine, Active
  <2>7. QED BY <1>5, <1>B, <2>3, <2>4, <2>6 DEF IInv
<1>8. CASE ~running
  <2>1. UNCHANGED <<heard, waits>> BY <1>4, <1>8
  <2>2. Unasked' /\ (app' = "patient" => HeardOnce') BY <1>1, <2>1 DEF IInv, Unasked, HeardOnce
  <2>3. QED BY <1>1, <1>5, <1>B, <1>8, <2>2 DEF IInv
<1>9. CASE app # "patient" /\ running
  <2>1. Unasked'
    <3>1. \A r \in Lookups : r > asked => r # callBack BY DEF IInv, Unasked
    <3>2. QED BY <1>1, <1>6, <3>1 DEF IInv, Unasked
  <2>2. QED BY <1>1, <1>5, <1>B, <1>9, <2>1 DEF IInv
<1>10. QED BY <1>7, <1>8, <1>9

-----------------------------------------------------------------------------
(* The threads. *)
LEMMA ResolveKeeps == ASSUME IInv, NEW r \in Lookups, Resolve(r) PROVE IInv'
<1> USE NobodyApart
<1>1. /\ thread[r] = "resolving"
      /\ UNCHANGED <<app, asked, callBack, tid, joining, running, heard, waits>>
      /\ \/ dnsBuf' = r /\ thread' = [thread EXCEPT ![r] = "resolved"] /\ queue' = queue
         \/ /\ queue' = IF running THEN Append(queue, Bad) ELSE queue
            /\ thread' = [thread EXCEPT ![r] = "over"] /\ dnsBuf' = dnsBuf
  BY DEF Resolve, Requested
<1>2. \A o \in Lookups : o # r => thread'[o] = thread[o]
  BY <1>1 DEF IInv, TypeOK
<1>3. \/ thread'[r] = "resolved" /\ dnsBuf' = r /\ queue' = queue
      \/ /\ thread'[r] = "over" /\ dnsBuf' = dnsBuf
         /\ queue' = IF running THEN Append(queue, Bad) ELSE queue
  BY <1>1 DEF IInv, TypeOK
<1>4. TypeOK'
  <2>1. queue' \in Seq(Lookups \cup {Bad})
    <3>1. queue \in Seq(Lookups \cup {Bad}) BY DEF IInv, TypeOK
    <3>2. Append(queue, Bad) \in Seq(Lookups \cup {Bad}) BY <3>1, QueueTyped
    <3>3. QED BY <1>3, <3>1, <3>2
  <2>2. /\ dnsBuf' \in Lookups \cup {Nobody}
        /\ thread' \in [Lookups -> {"none", "resolving", "resolved", "posted", "over"}]
    BY <1>1 DEF IInv, TypeOK
  <2>3. QED BY <1>1, <2>1, <2>2 DEF IInv, TypeOK
<1>5. Unasked' /\ BufferFilled' /\ (app' = "patient" => HeardOnce')
  <2>1. ~(r > asked) BY <1>1 DEF IInv, Unasked
  <2>2. QED BY <1>1, <1>2, <1>3, <2>1 DEF IInv, Unasked, BufferFilled, HeardOnce
<1>6. ASSUME app' = "patient", running' PROVE ThreadIsMine' /\ MessageIsMine'
  <2>1. /\ callBack = r /\ waits = {r} /\ queue = <<>> /\ heard[r] = <<>>
        /\ \A o \in Lookups : Active(o) => o = r
    BY <1>1, <1>6 DEF IInv, ThreadIsMine, Active
  <2>2. \A o \in Lookups : Active(o)' => o = r /\ Active(r)'
    BY <1>2, <2>1 DEF Active
  <2>3. CASE thread'[r] = "resolved"
    BY <1>1, <1>3, <2>1, <2>2, <2>3 DEF ThreadIsMine, MessageIsMine
  <2>4. CASE thread'[r] = "over"
    <3>1. queue' = <<Bad>> /\ Len(queue') = 1 /\ queue'[1] = Bad
      BY <1>1, <1>3, <1>6, <2>1, <2>4, QueueTyped DEF IInv, TypeOK
    <3>2. \A o \in Lookups : ~Active(o)' BY <2>2, <2>4 DEF Active
    <3>3. QED BY <1>1, <2>1, <3>1, <3>2 DEF ThreadIsMine, MessageIsMine
  <2>5. QED BY <1>3, <2>3, <2>4
<1>7. QED BY <1>4, <1>5, <1>6 DEF IInv

LEMMA PostKeeps == ASSUME IInv, NEW r \in Lookups, Post(r) PROVE IInv'
<1> USE NobodyApart
<1>1. /\ thread[r] = "resolved" /\ dnsBuf \in Lookups
      /\ UNCHANGED <<app, asked, callBack, tid, dnsBuf, joining, running, heard, waits>>
      /\ queue' = IF running THEN Append(queue, dnsBuf) ELSE queue
      /\ thread' = [thread EXCEPT ![r] = "posted"]
  BY DEF IInv, BufferFilled, Post, Requested
<1>2. thread'[r] = "posted" /\ \A o \in Lookups : o # r => thread'[o] = thread[o]
  BY <1>1 DEF IInv, TypeOK
<1>3. TypeOK'
  <2>1. queue' \in Seq(Lookups \cup {Bad})
    BY <1>1, QueueTyped DEF IInv, TypeOK
  <2>2. QED BY <1>1, <2>1 DEF IInv, TypeOK
<1>4. Unasked' /\ BufferFilled' /\ (app' = "patient" => HeardOnce')
  <2>1. ~(r > asked) BY <1>1 DEF IInv, Unasked
  <2>2. QED BY <1>1, <1>2, <2>1 DEF IInv, Unasked, BufferFilled, HeardOnce
<1>5. ASSUME app' = "patient", running' PROVE ThreadIsMine' /\ MessageIsMine'
  <2>1. /\ callBack = r /\ waits = {r} /\ queue = <<>> /\ heard[r] = <<>> /\ dnsBuf = r
        /\ \A o \in Lookups : Active(o) => o = r
    BY <1>1, <1>5 DEF IInv, ThreadIsMine, Active
  <2>2. \A o \in Lookups : ~Active(o)' BY <1>2, <2>1 DEF Active
  <2>3. queue' = <<r>> /\ Len(queue') = 1 /\ queue'[1] = r
    BY <1>1, <1>5, <2>1, QueueTyped DEF IInv, TypeOK
  <2>4. QED BY <1>1, <2>1, <2>2, <2>3 DEF ThreadIsMine, MessageIsMine
<1>6. QED BY <1>3, <1>4, <1>5 DEF IInv

LEMMA ForgetKeeps == ASSUME IInv, NEW r \in Lookups, Forget(r) PROVE IInv'
<1>1. /\ thread[r] = "posted" /\ tid' = Nobody /\ thread' = [thread EXCEPT ![r] = "over"]
      /\ UNCHANGED <<app, asked, callBack, dnsBuf, queue, joining, running, heard, waits>>
  BY DEF Forget
<1>2. thread'[r] = "over" /\ \A o \in Lookups : o # r => thread'[o] = thread[o]
  BY <1>1 DEF IInv, TypeOK
<1>3. TypeOK' BY <1>1 DEF IInv, TypeOK
<1>4. Unasked' /\ BufferFilled' /\ (app' = "patient" => HeardOnce')
  <2>1. ~(r > asked) BY <1>1 DEF IInv, Unasked
  <2>2. QED BY <1>1, <1>2, <2>1 DEF IInv, Unasked, BufferFilled, HeardOnce
<1>5. \A o \in Lookups : Active(o)' => Active(o) /\ thread'[o] = thread[o]
  BY <1>2 DEF Active
<1>6. app' = "patient" /\ running' => ThreadIsMine' /\ MessageIsMine'
  BY <1>1, <1>5 DEF IInv, ThreadIsMine, MessageIsMine
<1>7. QED BY <1>3, <1>4, <1>6 DEF IInv

LEMMA StutterKeeps == ASSUME IInv, UNCHANGED vars PROVE IInv'
  BY DEF IInv, TypeOK, Unasked, BufferFilled, HeardOnce, ThreadIsMine, MessageIsMine, Active, vars

-----------------------------------------------------------------------------
(* The invariant holds in every state. *)
THEOREM LookupInvariance == Spec => []IInv
<1>1. IInv /\ [Next]_vars => IInv'
  BY GetHostByNameKeeps, DeliverKeeps, CloseNetworkKeeps, JoinedKeeps, InitNetworkKeeps,
     ExitKeeps, ResolveKeeps, PostKeeps, ForgetKeeps, StutterKeeps DEF Next, Thread
<1>2. QED BY <1>1, InitHolds, PTL DEF Spec

(* What an application that waits for its answers hears is one value.        *)
LEMMA HeardIsOne ==
  ASSUME HeardOnce, NEW r \in Lookups
  PROVE  Len(heard[r]) <= 1 /\ \A i \in DOMAIN heard[r] : heard[r][i] \in {r, Bad}
<1>1. CASE heard[r] = <<>> BY <1>1
<1>2. CASE \E v \in {r, Bad} : heard[r] = <<v>> BY <1>2
<1>3. QED BY <1>1, <1>2 DEF HeardOnce

(* For any number of lookups, an application that waits for each answer      *)
(* hears the answer to its own lookup: buffer and callback, shared by all    *)
(* threads, are its own until the message is delivered.                      *)
THEOREM AnswersAreMine == Spec => []AnswerIsMine
<1>1. IInv => AnswerIsMine BY HeardIsOne DEF IInv, AnswerIsMine
<1>2. QED BY <1>1, LookupInvariance, PTL

(* And it is called once at most for each lookup, and never for none.        *)
THEOREM AnswersOnce == Spec => []OneAnswer
<1>1. IInv => OneAnswer
  <2>1. IInv => TypeOK BY DEF IInv
  <2>2. IInv /\ app = "patient" => HeardOnce BY DEF IInv
  <2>3. HeardOnce => heard[Nobody] = <<>> /\ \A r \in Lookups : Len(heard[r]) <= 1
    BY HeardIsOne DEF HeardOnce
  <2>4. QED BY <2>1, <2>2, <2>3 DEF OneAnswer
<1>2. QED BY <1>1, LookupInvariance, PTL

-----------------------------------------------------------------------------
(* What must happen.  The fairness is that of FairSpec, with the conditions  *)
(* under which the actions are enabled written out, since the prover does    *)
(* not know ENABLED: a thread can go on before it is over, the handler can   *)
(* deliver when it does not wait in a join, and a join can end when the      *)
(* thread has.                                                               *)
Busy(r) == thread[r] \in {"resolving", "resolved", "posted"}
Deliverable == joining = Nobody /\ queue # <<>>
Joinable == joining # Nobody /\ thread[joining] = "over"

Runs ==
  /\ []<>~Deliverable \/ []<><<Deliver>>_vars
  /\ []<>~Joinable \/ []<><<Joined>>_vars
  /\ \A r \in Lookups : []<>~Busy(r) \/ []<><<Thread(r)>>_vars

(* A lookup a patient application waits for is in its thread or in the       *)
(* queue, and the handler is free to deliver it.                             *)
OnItsWay == app = "patient" => \A r \in waits :
  /\ running /\ joining = Nobody
  /\ Active(r) \/ queue # <<>>

(* The thread the network knows of, or waits for, was started. *)
ThreadKnown ==
  /\ tid # Nobody => thread[tid] # "none"
  /\ joining # Nobody => thread[joining] # "none"

LEMMA NeverEmpty ==
  ASSUME NEW S, NEW q \in Seq(S), NEW v \in S
  PROVE  Append(q, v) # <<>>
<1>1. Append(q, v) \in Seq(S) /\ Len(Append(q, v)) = Len(q) + 1
  BY AppendProperties
<1>2. Len(q) \in Nat
  OBVIOUS
<1>3. QED
  BY <1>1, <1>2

LEMMA LiveInit == Init => OnItsWay /\ ThreadKnown
  BY DEF Init, OnItsWay, ThreadKnown

LEMMA OnItsWayKeeps ==
  ASSUME IInv, OnItsWay, [Next]_vars
  PROVE  OnItsWay'
<1> SUFFICES ASSUME app' = "patient", NEW r \in waits'
             PROVE  running' /\ joining' = Nobody /\ (Active(r)' \/ queue' # <<>>)
  BY DEF OnItsWay
<1> USE NobodyApart DEF Active
<1>1. app = "patient" /\ r \in Lookups /\ waits' \subseteq Lookups
  <2>1. app' = app
    BY DEF Next, GetHostByName, Deliver, CloseNetwork, Joined, InitNetwork, Exit, Thread,
       Resolve, Post, Forget, vars
  <2>2. waits' \subseteq Lookups
    BY GetHostByNameKeeps, DeliverKeeps, CloseNetworkKeeps, JoinedKeeps, InitNetworkKeeps,
       ExitKeeps, ResolveKeeps, PostKeeps, ForgetKeeps, StutterKeeps
       DEF Next, Thread, IInv, TypeOK
  <2>3. QED BY <2>1, <2>2
<1>2. CASE GetHostByName
  <2>1. waits = {} /\ running' /\ joining' = Nobody
    BY <1>1, <1>2 DEF GetHostByName, HandlerFree
  <2>2. /\ r = asked' /\ asked' \in Lookups
        /\ thread' = [thread EXCEPT ![asked'] = "resolving"]
    BY <1>2, <2>1, HostLookupAssumption DEF GetHostByName, IInv, TypeOK, Lookups
  <2>3. thread'[r] = "resolving" BY <2>2 DEF IInv, TypeOK
  <2>4. QED BY <2>1, <2>3
<1>3. CASE Deliver
  <2>1. r \in waits BY <1>3 DEF Deliver
  <2>2. running BY <1>1, <2>1 DEF OnItsWay
  <2>3. waits = {callBack} /\ waits' = waits \ {callBack}
    BY <1>1, <1>3, <2>2 DEF IInv, MessageIsMine, Deliver
  <2>4. QED BY <2>1, <2>3
<1>4. CASE CloseNetwork \/ InitNetwork \/ Exit
  BY <1>4 DEF CloseNetwork, InitNetwork, Exit
<1>5. CASE Joined
  BY <1>1, <1>5 DEF OnItsWay, Joined
<1>6. ASSUME NEW q \in Lookups, Thread(q) PROVE running' /\ joining' = Nobody /\ (Active(r)' \/ queue' # <<>>)
  <2>1. /\ UNCHANGED <<running, joining, waits>> /\ r \in waits
        /\ running /\ joining = Nobody /\ (Active(r) \/ queue # <<>>)
    <3>1. UNCHANGED <<running, joining, waits>>
      BY <1>6 DEF Thread, Resolve, Post, Forget
    <3>2. r \in waits BY <3>1
    <3>3. running /\ joining = Nobody /\ (Active(r) \/ queue # <<>>)
      BY <1>1, <3>2 DEF OnItsWay
    <3>4. QED BY <3>1, <3>2, <3>3
  <2>2. \A v \in Lookups \cup {Bad} : Append(queue, v) # <<>>
    BY NeverEmpty DEF IInv, TypeOK
  <2>3. queue' = queue \/ queue' # <<>>
    BY <1>6, <2>2 DEF Thread, Resolve, Post, Forget, Requested, IInv, BufferFilled
  <2>4. CASE Active(r) /\ q # r
    BY <1>1, <1>6, <2>1, <2>4 DEF Thread, Resolve, Post, Forget, IInv, TypeOK
  <2>5. CASE Active(r) /\ q = r
    <3>1. \/ thread' = [thread EXCEPT ![r] = "resolved"]
          \/ \E v \in Lookups \cup {Bad} : queue' = Append(queue, v)
      BY <1>6, <2>1, <2>5 DEF Thread, Resolve, Post, Forget, Requested, IInv, BufferFilled
    <3>2. QED BY <1>1, <2>1, <2>2, <3>1 DEF IInv, TypeOK
  <2>6. CASE queue # <<>>
    BY <2>1, <2>3, <2>6
  <2>7. QED BY <2>1, <2>4, <2>5, <2>6
<1>7. CASE UNCHANGED vars
  BY <1>1, <1>7 DEF OnItsWay, vars
<1>8. QED BY <1>2, <1>3, <1>4, <1>5, <1>6, <1>7 DEF Next

LEMMA ThreadKnownKeeps ==
  ASSUME IInv, ThreadKnown, [Next]_vars
  PROVE  ThreadKnown'
<1> USE NobodyApart
<1>1. CASE GetHostByName
  <2>1. asked' \in Lookups
    BY <1>1, HostLookupAssumption DEF GetHostByName, IInv, TypeOK, Lookups
  <2>2. QED BY <1>1, <2>1 DEF GetHostByName, ThreadKnown, IInv, TypeOK
<1>2. CASE Deliver \/ CloseNetwork \/ Joined \/ InitNetwork \/ Exit
  BY <1>2 DEF Deliver, CloseNetwork, Joined, InitNetwork, Exit, ThreadKnown
<1>3. ASSUME NEW q \in Lookups, Thread(q) PROVE ThreadKnown'
  <2>1. /\ joining' = joining /\ tid' \in {tid, Nobody}
        /\ \A o \in Lookups : thread'[o] = "none" => thread[o] = "none"
    BY <1>3 DEF Thread, Resolve, Post, Forget, IInv, TypeOK
  <2>2. QED BY <2>1 DEF ThreadKnown, IInv, TypeOK
<1>4. CASE UNCHANGED vars
  BY <1>4 DEF ThreadKnown, vars
<1>5. QED BY <1>1, <1>2, <1>3, <1>4 DEF Next

LEMMA LiveInvariance == Spec => [](IInv /\ OnItsWay /\ ThreadKnown)
  BY LookupInvariance, LiveInit, OnItsWayKeeps, ThreadKnownKeeps, PTL DEF Spec

(* The steps a lookup that is waited for goes through. *)
Looking(r, s) == r \in waits /\ thread[r] = s
Coming(r) == r \in waits /\ Deliverable

LEMMA WaitSteps ==
  ASSUME IInv, OnItsWay, OnItsWay', app = "patient", NEW r \in Lookups, [Next]_vars
  PROVE  /\ app' = "patient"
         /\ r \in waits => Looking(r, "resolving") \/ Looking(r, "resolved") \/ Coming(r)
         /\ Looking(r, "resolved") => (Looking(r, "resolved") \/ Coming(r) \/ r \notin waits)'
         /\ Coming(r) => (Coming(r) \/ r \notin waits)'
         /\ Looking(r, "resolving") /\ Thread(r) =>
              (Looking(r, "resolved") \/ Coming(r) \/ r \notin waits)'
         /\ Looking(r, "resolved") /\ Thread(r) => (Coming(r) \/ r \notin waits)'
         /\ Coming(r) /\ Deliver => (r \notin waits)'
<1> USE NobodyApart DEF Looking, Coming, Deliverable
<1>1. app' = "patient"
  BY DEF Next, GetHostByName, Deliver, CloseNetwork, Joined, InitNetwork, Exit, Thread,
     Resolve, Post, Forget, vars
<1>2. r \in waits => joining = Nobody /\ (Active(r) \/ queue # <<>>)
  BY DEF OnItsWay
<1>3. r \in waits' => joining' = Nobody /\ (Active(r)' \/ queue' # <<>>)
  BY <1>1 DEF OnItsWay
<1>4. ASSUME r \in waits, thread[r] = "resolved" PROVE thread'[r] # "resolving"
  <2>1. CASE GetHostByName BY <1>4, <2>1 DEF GetHostByName
  <2>2. CASE ~GetHostByName
    BY <1>4, <2>2 DEF Next, Deliver, CloseNetwork, Joined, InitNetwork, Exit, Thread,
       Resolve, Post, Forget, vars, IInv, TypeOK
  <2>3. QED BY <2>1, <2>2
<1>5. ASSUME queue # <<>>, ~Deliver PROVE queue' # <<>>
  <2>1. \A v \in Lookups \cup {Bad} : Append(queue, v) # <<>>
    BY NeverEmpty DEF IInv, TypeOK
  <2>2. QED
    BY <1>5, <2>1 DEF IInv, BufferFilled, Next, GetHostByName, CloseNetwork, Joined, InitNetwork, Exit, Thread,
       Resolve, Post, Forget, Requested, vars
<1>6. ASSUME Coming(r), Deliver PROVE r \notin waits'
  <2>1. running BY <1>6 DEF OnItsWay
  <2>2. waits = {callBack} /\ waits' = waits \ {callBack}
    BY <1>6, <2>1 DEF IInv, MessageIsMine, Deliver
  <2>3. QED BY <2>2
<1>7. Thread(r) /\ thread[r] = "resolving" => thread'[r] # "resolving"
  BY DEF Thread, Resolve, Post, Forget, IInv, TypeOK
<1>8. Thread(r) /\ thread[r] = "resolved" => thread'[r] = "posted"
  BY DEF Thread, Resolve, Post, Forget, IInv, TypeOK
<1>9. QED
  BY <1>1, <1>2, <1>3, <1>4, <1>5, <1>6, <1>7, <1>8 DEF Active

(* For any number of lookups, one that a patient application waits for is    *)
(* answered, unless the application exits.                                   *)
THEOREM LookupsAnswered == Spec /\ Runs => Answered
<1> SUFFICES ASSUME NEW r \in Lookups
             PROVE  Spec /\ Runs /\ app = "patient" => ((r \in waits) ~> (r \notin waits))
  BY DEF Answered
<1> DEFINE LInv == IInv /\ OnItsWay
<1> DEFINE R == Looking(r, "resolving")
<1> DEFINE S == Looking(r, "resolved")
<1> DEFINE C == Coming(r)
<1> DEFINE W == r \in waits
<1> DEFINE P == app = "patient"
<1>1. LInv /\ LInv' /\ P /\ [Next]_vars =>
        /\ P'
        /\ W => R \/ S \/ C
        /\ S => S' \/ C' \/ ~W'
        /\ C => C' \/ ~W'
        /\ R /\ Thread(r) => S' \/ C' \/ ~W'
        /\ S /\ Thread(r) => C' \/ ~W'
        /\ C /\ Deliver => ~W'
  BY WaitSteps
<1>2. R \/ S => Busy(r)
  BY DEF Looking, Busy
<1>3. C => Deliverable
  BY DEF Coming
<1>4. Runs => /\ []<>~Deliverable \/ []<><<Deliver>>_vars
              /\ []<>~Busy(r) \/ []<><<Thread(r)>>_vars
  BY DEF Runs
<1>5. R \/ S \/ C => W
  BY DEF Looking, Coming
<1>6. Spec => []LInv /\ [][Next]_vars
  BY LiveInvariance, PTL DEF Spec
<1>7. (r \notin waits) <=> ~W
  OBVIOUS
<1> HIDE DEF LInv, R, S, C, W, P
<1>8. []LInv /\ [][Next]_vars /\ P /\ Runs => (W ~> ~W)
  BY <1>1, <1>2, <1>3, <1>4, <1>5, PTL
<1>9. QED
  BY <1>6, <1>7, <1>8, PTL DEF P, W

(* The steps of the thread a join waits for. *)
Joining(r, s) == joining = r /\ thread[r] = s

LEMMA JoinSteps ==
  ASSUME IInv, ThreadKnown, NEW r \in Lookups, [Next]_vars
  PROVE  /\ joining = r => \E s \in {"resolving", "resolved", "posted", "over"} : Joining(r, s)
         /\ Joining(r, "resolving") =>
              \E s \in {"resolving", "resolved", "over"} : Joining(r, s)'
         /\ Joining(r, "resolved") => Joining(r, "resolved")' \/ Joining(r, "posted")'
         /\ Joining(r, "posted") => Joining(r, "posted")' \/ Joining(r, "over")'
         /\ Joining(r, "over") => Joining(r, "over")' \/ joining' = Nobody
         /\ Thread(r) => thread'[r] # thread[r]
         /\ Joining(r, "over") /\ Joined => joining' = Nobody
<1> USE NobodyApart DEF Joining
<1>1. joining = r => thread[r] \in {"resolving", "resolved", "posted", "over"}
  BY DEF ThreadKnown, IInv, TypeOK
<1>2. ASSUME joining = r, thread[r] # "over" PROVE joining' = r
  BY <1>2 DEF Next, GetHostByName, HandlerFree, Deliver, CloseNetwork, Joined, InitNetwork,
     Exit, Thread, Resolve, Post, Forget, vars
<1>3. ASSUME joining = r PROVE joining' = r \/ joining' = Nobody
  BY <1>3 DEF Next, GetHostByName, HandlerFree, Deliver, CloseNetwork, Joined, InitNetwork,
     Exit, Thread, Resolve, Post, Forget, vars
<1>4. ASSUME joining = r
      PROVE  /\ thread[r] = "resolving" => thread'[r] \in {"resolving", "resolved", "over"}
             /\ thread[r] = "resolved" => thread'[r] \in {"resolved", "posted"}
             /\ thread[r] = "posted" => thread'[r] \in {"posted", "over"}
             /\ thread[r] = "over" => thread'[r] = "over"
  BY <1>4 DEF Next, GetHostByName, HandlerFree, Deliver, CloseNetwork, Joined, InitNetwork,
     Exit, Thread, Resolve, Post, Forget, vars, IInv, TypeOK
<1>5. Thread(r) => thread'[r] # thread[r]
  BY DEF Thread, Resolve, Post, Forget, IInv, TypeOK
<1>6. Joined => joining' = Nobody
  BY DEF Joined
<1>7. QED
  BY <1>1, <1>2, <1>3, <1>4, <1>5, <1>6

(* mr_closeNetwork returns, whatever the application did before: the thread  *)
(* it joins ends without the handler.                                        *)
THEOREM ClosingReturns == Spec /\ Runs => CloseReturns
<1> SUFFICES ASSUME NEW r \in Lookups
             PROVE  Spec /\ Runs => ((joining = r) ~> (joining = Nobody))
  BY DEF CloseReturns
<1> DEFINE LInv == IInv /\ ThreadKnown
<1> DEFINE J == joining = r
<1> DEFINE A == Joining(r, "resolving")
<1> DEFINE B == Joining(r, "resolved")
<1> DEFINE C == Joining(r, "posted")
<1> DEFINE D == Joining(r, "over")
<1> DEFINE N == joining = Nobody
<1>1. LInv /\ [Next]_vars =>
        /\ J => A \/ B \/ C \/ D
        /\ A => A' \/ B' \/ D'
        /\ B => B' \/ C'
        /\ C => C' \/ D'
        /\ D => D' \/ N'
        /\ A /\ Thread(r) => ~A'
        /\ B /\ Thread(r) => ~B'
        /\ C /\ Thread(r) => ~C'
        /\ D /\ Joined => N'
  BY JoinSteps DEF Joining
<1>2. A \/ B \/ C => Busy(r)
  BY DEF Joining, Busy
<1>3. D => Joinable
  BY NobodyApart DEF Joining, Joinable
<1>4. Runs => /\ []<>~Joinable \/ []<><<Joined>>_vars
              /\ []<>~Busy(r) \/ []<><<Thread(r)>>_vars
  BY DEF Runs
<1>5. Spec => []LInv /\ [][Next]_vars
  BY LiveInvariance, PTL DEF Spec
<1> HIDE DEF LInv, J, A, B, C, D, N
<1>6. []LInv /\ [][Next]_vars /\ Runs => (J ~> N)
  BY <1>1, <1>2, <1>3, <1>4, PTL
<1>7. QED
  BY <1>5, <1>6, PTL DEF J, N
=============================================================================
