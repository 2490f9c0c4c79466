-------------------------- MODULE DownloadsProofs --------------------------
(***************************************************************************)
(* Theorems about downloads (module Downloads), for any number of them, of *)
(* paths and of retries, and any settings.                                 *)
(*                                                                         *)
(* OneWriter is not inductive: that two threads never write one path comes *)
(* from the table, which has one download for a path whoever holds which   *)
(* lock; that what a thread has loaded is the file of the path comes from  *)
(* its being alone; and that a download starts once, from the queue having *)
(* each waiting download once.                                             *)
(***************************************************************************)
EXTENDS Downloads, SequenceTheorems, TLAPS

-----------------------------------------------------------------------------
(* What the invariant needs besides the properties. *)

InTable == {"open", "load", "finally", "remove"}

(* The table is that of the downloads between Add and Remove, one of a path. *)
TableMatches == table = {d \in Dls : pc[d] \in InTable}
OnePerPath == \A d, e \in table : PathOf[d] = PathOf[e] => d = e

(* The queue has downloads that wait, each once. *)
QueueMatches ==
  /\ \A i \in 1 .. Len(queue) : pc[queue[i]] = "queued"
  /\ \A i, j \in 1 .. Len(queue) : queue[i] = queue[j] => i = j

(* A thread that loads writes a file that is still there. *)
WritersMatch == \A d \in Dls :
  /\ writes[d] \in {"none", "temp", "path"}
  /\ pc[d] = "load" <=> writes[d] # "none"
  /\ writes[d] = "temp" => PathOf[d] \in temp

IInv ==
  /\ TypeOK
  /\ TableMatches
  /\ OnePerPath
  /\ QueueMatches
  /\ WritersMatch

LEMMA PathsFixed ==
  ASSUME TypeOK, UNCHANGED world
  PROVE  PathOf' = PathOf /\ PathOf \in [Dls -> Paths]
  BY DownloadsAssumption DEF TypeOK, PathOf

-----------------------------------------------------------------------------
(* The queue. *)
LEMMA QueueAppend ==
  ASSUME queue \in Seq(Dls), NEW d \in Dls
  PROVE  /\ Append(queue, d) \in Seq(Dls)
         /\ Len(Append(queue, d)) = Len(queue) + 1
         /\ Len(queue) \in Nat
         /\ \A i \in 1 .. Len(queue) : queue[i] \in Dls /\ Append(queue, d)[i] = queue[i]
         /\ Append(queue, d)[Len(queue) + 1] = d
<1>1. Len(queue) \in Nat /\ \A i \in 1 .. Len(queue) : queue[i] \in Dls
  BY LenProperties
<1>2. /\ Append(queue, d) \in Seq(Dls) /\ Len(Append(queue, d)) = Len(queue) + 1
      /\ \A i \in 1 .. Len(queue) : Append(queue, d)[i] = queue[i]
      /\ Append(queue, d)[Len(queue) + 1] = d
  BY AppendProperties
<1>3. QED BY <1>1, <1>2

LEMMA QueueTail ==
  ASSUME queue \in Seq(Dls), queue # <<>>
  PROVE  /\ Tail(queue) \in Seq(Dls)
         /\ Len(queue) \in Nat \ {0} /\ Len(Tail(queue)) = Len(queue) - 1
         /\ \A i \in 1 .. Len(Tail(queue)) : Tail(queue)[i] = queue[i + 1]
         /\ \A i \in 1 .. Len(queue) : queue[i] \in Dls
         /\ Head(queue) = queue[1] /\ Head(queue) \in Dls
<1>1. Len(queue) \in Nat /\ \A i \in 1 .. Len(queue) : queue[i] \in Dls
  BY LenProperties
<1>2. /\ Tail(queue) \in Seq(Dls) /\ Len(Tail(queue)) = Len(queue) - 1 /\ Head(queue) \in Dls
      /\ \A i \in 1 .. Len(Tail(queue)) : Tail(queue)[i] = queue[i + 1]
  BY HeadTailProperties
<1>3. Len(queue) # 0
  <2>1. \A s \in Seq(Dls) : s # <<>> => Len(s) \in Nat \ {0} BY EmptySeq
  <2>2. QED BY <2>1
<1>4. Head(queue) = queue[1] OBVIOUS
<1>5. QED BY <1>1, <1>2, <1>3, <1>4

(* A step of one download that does not touch the queue.                     *)
StepOf(d, s) ==
  /\ pc' = [pc EXCEPT ![d] = s]
  /\ UNCHANGED <<world, queue>>

LEMMA StepKeepsQueue ==
  ASSUME IInv, NEW d \in Dls, NEW s \in Steps, StepOf(d, s), pc[d] # "queued"
  PROVE  /\ pc' \in [Dls -> Steps] /\ pc'[d] = s
         /\ \A e \in Dls : e # d => pc'[e] = pc[e]
         /\ QueueMatches'
<1>1. /\ pc' \in [Dls -> Steps] /\ pc'[d] = s /\ queue' = queue /\ queue \in Seq(Dls)
      /\ \A e \in Dls : e # d => pc'[e] = pc[e]
  BY DEF IInv, TypeOK, StepOf
<1>2. \A i \in 1 .. Len(queue) : queue[i] \in Dls BY <1>1, LenProperties
<1>3. QueueMatches' BY <1>1, <1>2 DEF IInv, QueueMatches
<1>4. QED BY <1>1, <1>3

(* A step outside the attempts leaves the table and the files alone. *)
LEMMA StepAside ==
  ASSUME IInv, NEW d \in Dls, NEW s \in Steps, StepOf(d, s), pc[d] # "queued",
         pc[d] # "load", s # "load", s \in InTable <=> pc[d] \in InTable,
         UNCHANGED <<table, disk>>
  PROVE  /\ pc' \in [Dls -> Steps]
         /\ TableMatches' /\ OnePerPath' /\ QueueMatches' /\ WritersMatch'
<1>1. /\ pc' \in [Dls -> Steps] /\ pc'[d] = s /\ QueueMatches'
      /\ \A e \in Dls : e # d => pc'[e] = pc[e]
  BY StepKeepsQueue
<1>2. PathOf' = PathOf /\ PathOf \in [Dls -> Paths] BY PathsFixed DEF IInv, StepOf
<1>3. TableMatches' BY <1>1 DEF IInv, TableMatches
<1>4. OnePerPath' BY <1>2 DEF IInv, OnePerPath
<1>5. WritersMatch' BY <1>1, <1>2 DEF IInv, WritersMatch, disk
<1>6. QED BY <1>1, <1>3, <1>4, <1>5

-----------------------------------------------------------------------------
LEMMA HearTyped ==
  ASSUME heard \in [Dls -> SUBSET Callbacks], NEW d \in Dls,
         UNCHANGED heard \/ \E x \in Callbacks : Hear(d, x)
  PROVE  heard' \in [Dls -> SUBSET Callbacks]
<1>1. CASE UNCHANGED heard BY <1>1
<1>2. ASSUME NEW x \in Callbacks, Hear(d, x) PROVE heard' \in [Dls -> SUBSET Callbacks]
  <2>1. heard[d] \cup {x} \in SUBSET Callbacks OBVIOUS
  <2>2. heard' = [heard EXCEPT ![d] = heard[d] \cup {x}] BY <1>2 DEF Hear
  <2>3. QED BY <2>1, <2>2
<1>3. QED BY <1>1, <1>2

LEMMA InitHolds == Init => IInv
<1> SUFFICES ASSUME Init PROVE IInv
  OBVIOUS
<1>1. TypeOK
  <2>1. queue \in Seq(Dls) BY DEF Init
  <2>2. tries \in [Dls -> 0 .. MaxRetry] BY DownloadsAssumption DEF Init
  <2>3. final \in [Paths -> FileStates] BY DownloadsAssumption DEF Init
  <2>4. pc \in [Dls -> Steps] BY DEF Init, Steps
  <2>5. lck \in [Paths -> Dls \cup {None}] /\ opened \in [Dls -> Dls \cup {None}] BY DEF Init
  <2>6. writes \in [Dls -> {"none", "temp", "path", "gone"}] BY DEF Init
  <2>7. QED BY <2>1, <2>2, <2>3, <2>4, <2>5, <2>6 DEF Init, TypeOK
<1>2. TableMatches /\ OnePerPath BY DEF Init, TableMatches, OnePerPath, InTable
<1>3. QueueMatches BY DEF Init, QueueMatches
<1>4. WritersMatch BY DEF Init, WritersMatch
<1>5. QED BY <1>1, <1>2, <1>3, <1>4 DEF IInv

(* The caller. *)
LEMMA StartKeeps ==
  ASSUME IInv, NEW d \in Dls, UNCHANGED world, Start(d) \/ Ask(d)
  PROVE  IInv'
<1>1. PICK s \in {"lock", "over", "enqueue"} : StepOf(d, s)
  BY DEF Start, Started, Ask, Goto, StepOf, tasks
<1>2. pc[d] = "new" /\ UNCHANGED <<heard, tasks, locks, disk>>
  BY DEF Start, Ask
<1>3. s \in Steps /\ s \notin InTable /\ s # "load" /\ pc[d] \notin InTable
  BY <1>2 DEF Steps, InTable
<1>4. pc' \in [Dls -> Steps] /\ TableMatches' /\ OnePerPath' /\ QueueMatches' /\ WritersMatch'
  BY <1>1, <1>2, <1>3, StepAside DEF tasks
<1>5. TypeOK' BY <1>2, <1>4 DEF IInv, TypeOK, tasks, locks, disk
<1>6. QED BY <1>4, <1>5 DEF IInv

LEMMA AddToQueueKeeps == ASSUME IInv, NEW d \in Dls, UNCHANGED world, AddToQueue(d) PROVE IInv'
<1>1. /\ pc[d] = "enqueue" /\ queue' = Append(queue, d) /\ pc' = [pc EXCEPT ![d] = "queued"]
      /\ UNCHANGED <<world, heard, table, retry, tries, locks, disk>>
  BY DEF AddToQueue, Goto
<1>2. /\ pc' \in [Dls -> Steps] /\ pc'[d] = "queued"
      /\ \A e \in Dls : e # d => pc'[e] = pc[e]
  BY <1>1 DEF IInv, TypeOK, Steps
<1>3. /\ queue' \in Seq(Dls) /\ Len(queue') = Len(queue) + 1 /\ Len(queue) \in Nat
      /\ \A i \in 1 .. Len(queue) : queue[i] \in Dls /\ queue'[i] = queue[i]
      /\ queue'[Len(queue) + 1] = d
  BY <1>1, QueueAppend DEF IInv, TypeOK
<1>4. QueueMatches'
  <2>1. \A i \in 1 .. Len(queue) : queue[i] # d /\ pc[queue[i]] = "queued"
    BY <1>1 DEF IInv, QueueMatches
  <2>2. \A i \in 1 .. Len(queue') : i \in 1 .. Len(queue) \/ i = Len(queue) + 1
    BY <1>3
  <2>3. \A i \in 1 .. Len(queue') : pc'[queue'[i]] = "queued"
    BY <1>2, <1>3, <2>1, <2>2
  <2>4. \A i, j \in 1 .. Len(queue') : queue'[i] = queue'[j] => i = j
    BY <1>3, <2>1, <2>2 DEF IInv, QueueMatches
  <2>5. QED BY <2>3, <2>4 DEF QueueMatches
<1>5. PathOf' = PathOf /\ PathOf \in [Dls -> Paths] BY PathsFixed DEF IInv
<1>6. TableMatches' BY <1>1, <1>2 DEF IInv, TableMatches, InTable
<1>7. OnePerPath' BY <1>1, <1>5 DEF IInv, OnePerPath
<1>8. WritersMatch' BY <1>1, <1>2, <1>5 DEF IInv, WritersMatch, disk
<1>9. TypeOK' BY <1>1, <1>2, <1>3 DEF IInv, TypeOK, locks, disk
<1>10. QED BY <1>4, <1>6, <1>7, <1>8, <1>9 DEF IInv

-----------------------------------------------------------------------------
(* The locks: whoever holds which, nothing else depends on it. *)
LEMMA LocksKeep ==
  ASSUME IInv, NEW d \in Dls, UNCHANGED world, OpenLock(d) \/ Lock(d) \/ Release(d) \/ Delete(d)
  PROVE  IInv'
<1>1. PICK s \in {"locking", "over", "release", "add", "delete"} : StepOf(d, s)
  BY DEF OpenLock, Lock, Release, Delete, Close, Goto, StepOf, tasks
<1>2. pc[d] \in {"lock", "locking", "release", "delete"} /\ UNCHANGED <<tasks, disk>>
  BY DEF OpenLock, Lock, Release, Delete
<1>3. s \in Steps /\ s \notin InTable /\ s # "load" /\ pc[d] \notin InTable
  BY <1>2 DEF Steps, InTable
<1>4. pc' \in [Dls -> Steps] /\ TableMatches' /\ OnePerPath' /\ QueueMatches' /\ WritersMatch'
  BY <1>1, <1>2, <1>3, StepAside DEF tasks
<1>5. heard' \in [Dls -> SUBSET Callbacks]
  <2>1. UNCHANGED heard \/ \E x \in Callbacks : Hear(d, x)
    BY DEF OpenLock, Lock, Release, Delete, Close, Callbacks
  <2>2. QED BY <2>1, HearTyped DEF IInv, TypeOK
<1>6. holds' \subseteq Dls /\ lock' \subseteq Dls
  BY DEF IInv, TypeOK, OpenLock, Lock, Release, Delete, LetGo
<1>7. lck' \in [Paths -> Dls \cup {None}]
  <2>1. PathOf \in [Dls -> Paths] BY PathsFixed DEF IInv
  <2>2. lck' = lck \/ \E f \in Dls \cup {None} : lck' = [lck EXCEPT ![PathOf[d]] = f]
    <3>1. CASE OpenLock(d) BY <2>1, <3>1 DEF IInv, TypeOK, OpenLock
    <3>2. CASE Delete(d) BY <3>2 DEF Delete
    <3>3. QED BY <3>1, <3>2 DEF Lock, Release
  <2>3. QED BY <2>1, <2>2 DEF IInv, TypeOK
<1>8. opened' \in [Dls -> Dls \cup {None}]
  <2>1. PathOf \in [Dls -> Paths] BY PathsFixed DEF IInv
  <2>2. opened' = opened \/ \E f \in Dls \cup {None} : opened' = [opened EXCEPT ![d] = f]
    <3>1. CASE OpenLock(d) BY <2>1, <3>1 DEF IInv, TypeOK, OpenLock
    <3>2. QED BY <3>1 DEF Lock, Release, Delete, LetGo, Forget
  <2>3. QED BY <2>2 DEF IInv, TypeOK
<1>9. TypeOK' BY <1>2, <1>4, <1>5, <1>6, <1>7, <1>8 DEF IInv, TypeOK, tasks, disk
<1>10. QED BY <1>4, <1>9 DEF IInv

LEMMA CollectKeeps == ASSUME IInv, NEW d \in Dls, UNCHANGED world, Collect(d) PROVE IInv'
<1>1. UNCHANGED <<world, pc, tasks, lck, lock, heard, disk>> BY DEF Collect
<1>2. TypeOK' BY <1>1 DEF IInv, TypeOK, Collect, LetGo, Forget, tasks, disk
<1>3. PathOf' = PathOf BY PathsFixed DEF IInv
<1>4. QED BY <1>1, <1>2, <1>3
          DEF IInv, TableMatches, OnePerPath, QueueMatches, WritersMatch, tasks, disk

(* The table: a second download of a path is refused. *)
LEMMA AddKeeps == ASSUME IInv, NEW d \in Dls, UNCHANGED world, Add(d) PROVE IInv'
<1>1. pc[d] = "add" /\ UNCHANGED <<world, queue, retry, tries, lck, opened, holds, heard, disk>>
  BY DEF Add
<1>2. CASE StepOf(d, "over") /\ lock' = lock \ {d} /\ UNCHANGED table
  <2>1. pc' \in [Dls -> Steps] /\ TableMatches' /\ OnePerPath' /\ QueueMatches' /\ WritersMatch'
    BY <1>1, <1>2, StepAside DEF Steps, InTable
  <2>2. TypeOK' BY <1>1, <1>2, <2>1 DEF IInv, TypeOK, disk
  <2>3. QED BY <2>1, <2>2 DEF IInv
<1>3. CASE StepOf(d, "open") /\ ~Running(PathOf[d]) /\ table' = table \cup {d} /\ UNCHANGED lock
  <2>1. /\ pc' \in [Dls -> Steps] /\ pc'[d] = "open" /\ \A e \in Dls : e # d => pc'[e] = pc[e]
        /\ QueueMatches'
    BY <1>1, <1>3, StepKeepsQueue DEF Steps
  <2>2. PathOf' = PathOf /\ PathOf \in [Dls -> Paths] BY PathsFixed DEF IInv
  <2>3. TableMatches' BY <1>3, <2>1 DEF IInv, TableMatches, InTable
  <2>4. OnePerPath' BY <1>3, <2>2 DEF IInv, OnePerPath, Running
  <2>5. WritersMatch' BY <1>1, <2>1, <2>2 DEF IInv, WritersMatch, disk
  <2>6. TypeOK' BY <1>1, <1>3, <2>1 DEF IInv, TypeOK, disk
  <2>7. QED BY <2>1, <2>3, <2>4, <2>5, <2>6 DEF IInv
<1>4. QED BY <1>1, <1>2, <1>3 DEF Add, Goto, StepOf

LEMMA RemoveKeeps == ASSUME IInv, NEW d \in Dls, UNCHANGED world, Remove(d) PROVE IInv'
<1>1. /\ pc[d] = "remove" /\ StepOf(d, "check") /\ table' = {e \in table : PathOf[e] # PathOf[d]}
      /\ UNCHANGED <<world, queue, retry, tries, locks, heard, disk>>
  BY DEF Remove, Goto, StepOf
<1>2. /\ pc' \in [Dls -> Steps] /\ pc'[d] = "check" /\ \A e \in Dls : e # d => pc'[e] = pc[e]
      /\ QueueMatches'
  BY <1>1, StepKeepsQueue DEF Steps
<1>3. PathOf' = PathOf /\ PathOf \in [Dls -> Paths] BY PathsFixed DEF IInv
<1>4. \A e \in table : PathOf[e] = PathOf[d] => e = d
  BY <1>1 DEF IInv, TableMatches, OnePerPath, InTable
<1>5. TableMatches' BY <1>1, <1>2, <1>4 DEF IInv, TableMatches, InTable
<1>6. OnePerPath' BY <1>1, <1>3 DEF IInv, OnePerPath
<1>7. WritersMatch' BY <1>1, <1>2, <1>3 DEF IInv, WritersMatch, disk
<1>8. TypeOK' BY <1>1, <1>2 DEF IInv, TypeOK, locks, disk
<1>9. QED BY <1>2, <1>5, <1>6, <1>7, <1>8 DEF IInv

-----------------------------------------------------------------------------
(* An attempt. No other thread writes the path, so none loses its file. *)
LEMMA Alone ==
  ASSUME IInv, NEW d \in Dls, pc[d] \in {"open", "load"},
         NEW e \in Dls, e # d, PathOf[e] = PathOf[d]
  PROVE  writes[e] = "none" /\ pc[e] # "load"
<1>1. d \in table /\ (pc[e] = "load" => e \in table) BY DEF IInv, TableMatches, InTable
<1>2. e \notin table BY <1>1 DEF IInv, OnePerPath
<1>3. QED BY <1>1, <1>2 DEF IInv, WritersMatch

(* What Writing leaves, when one alone writes. *)
LEMMA WritingAlone ==
  ASSUME IInv, NEW d \in Dls, pc[d] \in {"open", "load"}, NEW w \in {"none", "temp", "path"},
         Writing(d, w, {}) \/ Writing(d, w, Gone(d, PathOf[d]))
  PROVE  /\ writes' \in [Dls -> {"none", "temp", "path", "gone"}]
         /\ writes'[d] = w /\ \A e \in Dls : e # d => writes'[e] = writes[e]
<1>1. \A e \in Gone(d, PathOf[d]) : FALSE
  BY Alone DEF Gone
<1>2. writes' = [e \in Dls |-> IF e = d THEN w ELSE writes[e]]
  BY <1>1 DEF Writing
<1>3. QED BY <1>2 DEF IInv, TypeOK

(* A step of an attempt, which may change the files of its own path. *)
LEMMA AttemptStep ==
  ASSUME IInv, NEW d \in Dls, pc[d] \in {"open", "load"},
         NEW s \in {"load", "finally"}, StepOf(d, s), table' = table,
         NEW w \in {"none", "temp", "path"},
         Writing(d, w, {}) \/ Writing(d, w, Gone(d, PathOf[d])),
         s = "load" <=> w # "none", w = "temp" => PathOf[d] \in temp',
         \A p \in temp : p # PathOf[d] => p \in temp'
  PROVE  /\ pc' \in [Dls -> Steps] /\ writes' \in [Dls -> {"none", "temp", "path", "gone"}]
         /\ TableMatches' /\ OnePerPath' /\ QueueMatches' /\ WritersMatch'
<1>1. s \in Steps /\ s \in InTable /\ pc[d] \in InTable BY DEF Steps, InTable
<1>2. /\ pc' \in [Dls -> Steps] /\ pc'[d] = s /\ \A e \in Dls : e # d => pc'[e] = pc[e]
      /\ QueueMatches'
  BY <1>1, StepKeepsQueue
<1>3. PathOf' = PathOf /\ PathOf \in [Dls -> Paths] BY PathsFixed DEF IInv, StepOf
<1>4. TableMatches' BY <1>1, <1>2 DEF IInv, TableMatches
<1>5. OnePerPath' BY <1>3 DEF IInv, OnePerPath
<1>6. /\ writes' \in [Dls -> {"none", "temp", "path", "gone"}]
      /\ writes'[d] = w /\ \A e \in Dls : e # d => writes'[e] = writes[e]
  BY WritingAlone
<1>7. WritersMatch'
  <2>1. ASSUME NEW e \in Dls, e # d, writes[e] = "temp" PROVE PathOf[e] \in temp'
    <3>1. PathOf[e] # PathOf[d] BY <2>1, Alone
    <3>2. QED BY <2>1, <3>1 DEF IInv, WritersMatch
  <2>2. ASSUME NEW e \in Dls
        PROVE  /\ writes'[e] \in {"none", "temp", "path"}
               /\ pc'[e] = "load" <=> writes'[e] # "none"
               /\ writes'[e] = "temp" => PathOf[e] \in temp'
    <3>1. CASE e = d BY <1>2, <1>6, <3>1
    <3>2. CASE e # d BY <1>2, <1>6, <2>1, <3>2 DEF IInv, WritersMatch
    <3>3. QED BY <3>1, <3>2
  <2>3. QED BY <1>3, <2>2 DEF WritersMatch
<1>8. QED BY <1>2, <1>4, <1>5, <1>6, <1>7

LEMMA OpenKeeps == ASSUME IInv, NEW d \in Dls, UNCHANGED world, Open(d) PROVE IInv'
<1>1. pc[d] = "open" /\ UNCHANGED <<world, tasks, locks>> BY DEF Open
<1>2. PathOf[d] \in Paths /\ final \in [Paths -> FileStates] /\ temp \subseteq Paths
      /\ heard \in [Dls -> SUBSET Callbacks]
  BY PathsFixed DEF IInv, TypeOK
<1>3. CASE /\ StepOf(d, "finally") /\ Hear(d, "finish") /\ UNCHANGED disk
  <2>1. "finally" \in Steps /\ "finally" \in InTable /\ pc[d] \in InTable
    BY <1>1 DEF Steps, InTable
  <2>2. pc' \in [Dls -> Steps] /\ TableMatches' /\ OnePerPath' /\ QueueMatches' /\ WritersMatch'
    BY <1>1, <1>3, <2>1, StepAside DEF tasks
  <2>3. heard' \in [Dls -> SUBSET Callbacks] BY <1>2, <1>3, HearTyped DEF Callbacks
  <2>4. TypeOK' BY <1>1, <1>3, <2>2, <2>3 DEF IInv, TypeOK, tasks, locks, disk
  <2>5. QED BY <2>2, <2>4 DEF IInv
<1>4. CASE /\ StepOf(d, "load") /\ UNCHANGED <<heard, temp>>
           /\ final' = [final EXCEPT ![PathOf[d]] = "part"]
           /\ Writing(d, "path", Gone(d, PathOf[d]))
  <2>1. /\ pc' \in [Dls -> Steps] /\ writes' \in [Dls -> {"none", "temp", "path", "gone"}]
        /\ TableMatches' /\ OnePerPath' /\ QueueMatches' /\ WritersMatch'
    BY <1>1, <1>4, AttemptStep DEF tasks
  <2>2. final' \in [Paths -> FileStates] BY <1>2, <1>4 DEF FileStates
  <2>3. TypeOK' BY <1>1, <1>4, <2>1, <2>2 DEF IInv, TypeOK, tasks, locks
  <2>4. QED BY <2>1, <2>3 DEF IInv
<1>5. CASE /\ StepOf(d, "load") /\ UNCHANGED <<heard, final>>
           /\ temp' = temp \cup {PathOf[d]} /\ Writing(d, "temp", {})
  <2>1. /\ pc' \in [Dls -> Steps] /\ writes' \in [Dls -> {"none", "temp", "path", "gone"}]
        /\ TableMatches' /\ OnePerPath' /\ QueueMatches' /\ WritersMatch'
    BY <1>1, <1>5, AttemptStep DEF tasks
  <2>2. TypeOK' BY <1>1, <1>2, <1>5, <2>1 DEF IInv, TypeOK, tasks, locks
  <2>3. QED BY <2>1, <2>2 DEF IInv
<1>6. QED BY <1>1, <1>3, <1>4, <1>5 DEF Open, Goto, StepOf, tasks

LEMMA LoadKeeps ==
  ASSUME IInv, NEW d \in Dls, UNCHANGED world, Complete(d) \/ Break(d)
  PROVE  IInv'
<1>1. pc[d] = "load" /\ StepOf(d, "finally") /\ UNCHANGED <<world, queue, table, tries, locks>>
  BY DEF Complete, Break, Goto, StepOf, tasks
<1>2. PathOf[d] \in Paths /\ final \in [Paths -> FileStates] /\ temp \subseteq Paths
      /\ heard \in [Dls -> SUBSET Callbacks] /\ retry \subseteq Dls
  BY PathsFixed DEF IInv, TypeOK
<1>3. Writing(d, "none", {}) \/ Writing(d, "none", Gone(d, PathOf[d]))
  BY DEF Complete, Break
<1>4. temp' \subseteq temp /\ \A p \in temp : p # PathOf[d] => p \in temp'
  BY DEF Complete, Break
<1>5. /\ pc' \in [Dls -> Steps] /\ writes' \in [Dls -> {"none", "temp", "path", "gone"}]
      /\ TableMatches' /\ OnePerPath' /\ QueueMatches' /\ WritersMatch'
  BY <1>1, <1>3, <1>4, AttemptStep
<1>6. final' \in [Paths -> FileStates]
  <2>1. final' = final \/ final' = [final EXCEPT ![PathOf[d]] = "whole"] BY DEF Complete, Break
  <2>2. QED BY <1>2, <2>1 DEF FileStates
<1>7. heard' \in [Dls -> SUBSET Callbacks]
  <2>1. UNCHANGED heard \/ \E x \in Callbacks : Hear(d, x) BY DEF Complete, Break, Callbacks
  <2>2. QED BY <1>2, <2>1, HearTyped
<1>8. retry' \subseteq Dls BY <1>2 DEF Complete, Break, tasks
<1>9. TypeOK' BY <1>1, <1>2, <1>4, <1>5, <1>6, <1>7, <1>8 DEF IInv, TypeOK, locks
<1>10. QED BY <1>5, <1>9 DEF IInv

LEMMA FinallyKeeps == ASSUME IInv, NEW d \in Dls, UNCHANGED world, Finally(d) PROVE IInv'
<1>1. PICK s \in {"open", "remove"} : StepOf(d, s) BY DEF Finally, Goto, StepOf
<1>2. /\ pc[d] = "finally" /\ UNCHANGED <<world, queue, table, lck, opened, holds, heard, disk>>
      /\ lock' \subseteq lock /\ retry' \subseteq retry
      /\ tries' = tries \/ (tries[d] < MaxRetry /\ tries' = [tries EXCEPT ![d] = tries[d] + 1])
  BY DEF Finally
<1>3. s \in Steps /\ s \in InTable /\ s # "load" /\ pc[d] \in InTable
  BY <1>2 DEF Steps, InTable
<1>4. pc' \in [Dls -> Steps] /\ TableMatches' /\ OnePerPath' /\ QueueMatches' /\ WritersMatch'
  BY <1>1, <1>2, <1>3, StepAside
<1>5. tries' \in [Dls -> 0 .. MaxRetry]
  <2>1. tries \in [Dls -> 0 .. MaxRetry] /\ MaxRetry \in Nat
    BY DownloadsAssumption DEF IInv, TypeOK
  <2>2. QED BY <1>2, <2>1
<1>6. TypeOK' BY <1>2, <1>4, <1>5 DEF IInv, TypeOK, disk
<1>7. QED BY <1>4, <1>6 DEF IInv

-----------------------------------------------------------------------------
(* The queue is looked at, and the first of it started. *)
LEMMA CheckQueueKeeps == ASSUME IInv, NEW d \in Dls, UNCHANGED world, CheckQueue(d) PROVE IInv'
<1>1. PICK s \in {"pop", "release"} : StepOf(d, s) BY DEF CheckQueue, Goto, StepOf, tasks
<1>2. pc[d] = "check" /\ UNCHANGED <<world, tasks, locks, heard, disk>> BY DEF CheckQueue
<1>3. s \in Steps /\ s \notin InTable /\ s # "load" /\ pc[d] \notin InTable
  BY <1>2 DEF Steps, InTable
<1>4. pc' \in [Dls -> Steps] /\ TableMatches' /\ OnePerPath' /\ QueueMatches' /\ WritersMatch'
  BY <1>1, <1>2, <1>3, StepAside DEF tasks
<1>5. TypeOK' BY <1>2, <1>4 DEF IInv, TypeOK, tasks, locks, disk
<1>6. QED BY <1>4, <1>5 DEF IInv

LEMMA PopKeeps == ASSUME IInv, NEW d \in Dls, UNCHANGED world, Pop(d) PROVE IInv'
<1>1. /\ pc[d] = "pop" /\ lock' \subseteq lock
      /\ UNCHANGED <<world, table, retry, tries, lck, opened, holds, heard, disk>>
  BY DEF Pop
<1>2. CASE queue = <<>>
  <2>1. StepOf(d, "thrown") BY <1>1, <1>2 DEF Pop, Goto, StepOf
  <2>2. pc' \in [Dls -> Steps] /\ TableMatches' /\ OnePerPath' /\ QueueMatches' /\ WritersMatch'
    BY <1>1, <2>1, StepAside DEF Steps, InTable
  <2>3. queue' = queue BY <2>1 DEF StepOf
  <2>4. TypeOK' BY <1>1, <2>2, <2>3 DEF IInv, TypeOK, disk
  <2>5. QED BY <2>2, <2>4 DEF IInv
<1>3. CASE queue # <<>>
  <2>1. /\ queue' \in Seq(Dls)
        /\ Len(queue) \in Nat \ {0} /\ Len(queue') = Len(queue) - 1
        /\ \A i \in 1 .. Len(queue') : queue'[i] = queue[i + 1]
        /\ \A i \in 1 .. Len(queue) : queue[i] \in Dls
        /\ Head(queue) = queue[1] /\ Head(queue) \in Dls
    <3>1. queue \in Seq(Dls) BY DEF IInv, TypeOK
    <3>2. queue' = Tail(queue) BY <1>3 DEF Pop
    <3>3. QED BY <1>3, <3>1, <3>2, QueueTail
  <2> DEFINE n == Head(queue)
  <2>2. pc[n] = "queued" /\ n # d BY <1>1, <2>1 DEF IInv, QueueMatches
  <2>3. PICK s \in {"lock", "over"} : pc' = [pc EXCEPT ![n] = s, ![d] = "release"]
    BY <1>3 DEF Pop
  <2>4. n \in Dls BY <2>1
  <2> HIDE DEF n
  <2>5. /\ pc' \in [Dls -> Steps] /\ pc'[n] = s /\ pc'[d] = "release"
        /\ \A e \in Dls : e # d /\ e # n => pc'[e] = pc[e]
    BY <2>2, <2>3, <2>4 DEF IInv, TypeOK, Steps
  <2>6. \A e \in Dls : /\ pc'[e] \in InTable <=> pc[e] \in InTable
                       /\ pc'[e] = "load" <=> pc[e] = "load"
    BY <1>1, <2>2, <2>5 DEF InTable
  <2>7. TableMatches' /\ OnePerPath' /\ WritersMatch'
    <3>1. PathOf' = PathOf BY PathsFixed DEF IInv
    <3>2. TableMatches' BY <1>1, <2>6 DEF IInv, TableMatches
    <3>3. OnePerPath' BY <1>1, <3>1 DEF IInv, OnePerPath
    <3>4. WritersMatch' BY <1>1, <2>6, <3>1 DEF IInv, WritersMatch, disk
    <3>5. QED BY <3>2, <3>3, <3>4
  <2>8. QueueMatches'
    <3>1. \A i \in 1 .. Len(queue') : i + 1 \in 1 .. Len(queue) /\ 1 \in 1 .. Len(queue) /\ i + 1 # 1
      BY <2>1
    <3>2. \A i \in 1 .. Len(queue') : queue'[i] \in Dls /\ pc[queue'[i]] = "queued" /\ queue'[i] # n
      BY <2>1, <3>1 DEF IInv, QueueMatches, n
    <3>3. \A i \in 1 .. Len(queue') : pc'[queue'[i]] = "queued"
      BY <1>1, <2>5, <3>2
    <3>4. \A i, j \in 1 .. Len(queue') : queue'[i] = queue'[j] => i = j
      BY <2>1, <3>1 DEF IInv, QueueMatches
    <3>5. QED BY <3>3, <3>4 DEF QueueMatches
  <2>9. TypeOK' BY <1>1, <2>1, <2>5 DEF IInv, TypeOK, disk
  <2>10. QED BY <2>7, <2>8, <2>9 DEF IInv
<1>4. QED BY <1>2, <1>3

LEMMA StutterKeeps == ASSUME IInv, UNCHANGED vars PROVE IInv'
<1>1. UNCHANGED world BY DEF vars
<1>2. PathOf' = PathOf BY <1>1, PathsFixed DEF IInv
<1>3. QED BY <1>2 DEF IInv, TypeOK, TableMatches, OnePerPath, QueueMatches, WritersMatch, vars,
             tasks, locks, disk

-----------------------------------------------------------------------------
LEMMA NextKeeps == ASSUME IInv, [Next]_vars PROVE IInv'
<1>1. CASE UNCHANGED vars BY <1>1, StutterKeeps
<1>2. ASSUME UNCHANGED world, NEW d \in Dls,
             Start(d) \/ AddToQueue(d) \/ Ask(d) \/ Thread(d) \/ Collect(d)
      PROVE  IInv'
  BY <1>2, StartKeeps, AddToQueueKeeps, LocksKeep, CollectKeeps, AddKeeps, OpenKeeps, LoadKeeps,
     FinallyKeeps, RemoveKeeps, CheckQueueKeeps, PopKeeps DEF Thread
<1>3. QED BY <1>1, <1>2 DEF Next

(* The invariant holds in every state. *)
THEOREM DownloadInvariance == Spec => []IInv
  BY InitHolds, NextKeeps, PTL DEF Spec

(* However many downloads of one path are started, queued and tried again,   *)
(* and whichever of them hold a lock of the path, one thread at a time works *)
(* on its files, and the table lists the threads that do.                    *)
THEOREM WritersAlone == Spec => []OneWriter
<1>1. IInv => OneWriter
  <2> SUFFICES ASSUME IInv PROVE OneWriter
    OBVIOUS
  <2>1. TypeOK BY DEF IInv
  <2>2. ASSUME NEW d \in Dls, NEW e \in Dls, d # e, PathOf[d] = PathOf[e]
        PROVE  ~({pc[d], pc[e]} \subseteq {"open", "load", "finally"})
    BY <2>2 DEF IInv, TableMatches, OnePerPath, InTable
  <2>3. table = {d \in Dls : pc[d] \in {"open", "load", "finally", "remove"}}
    BY DEF IInv, TableMatches, InTable
  <2>4. QED BY <2>1, <2>2, <2>3 DEF OneWriter
<1>2. QED BY <1>1, DownloadInvariance, PTL

(* No download is started a second time by a thread that takes it from the   *)
(* queue.                                                                    *)
THEOREM StartsOnce == Spec => StartedOnce
<1> DEFINE Once == \A d \in Dls :
      pc'[d] = "lock" /\ pc[d] # "lock" => pc[d] \in {"new", "queued"}
<1>1. IInv /\ [Next]_vars => [Once]_vars
  <2> SUFFICES ASSUME IInv, Next, NEW e \in Dls, pc'[e] = "lock", pc[e] # "lock"
               PROVE  pc[e] \in {"new", "queued"}
    OBVIOUS
  <2>1. PICK d \in Dls : Start(d) \/ AddToQueue(d) \/ Ask(d) \/ Thread(d) \/ Collect(d)
    BY DEF Next
  <2>2. pc \in [Dls -> Steps] BY DEF IInv, TypeOK
  <2>3. CASE Start(d) \/ Ask(d) BY <2>2, <2>3 DEF Start, Started, Ask, Goto
  <2>4. CASE Pop(d) /\ queue # <<>>
    <3>1. Head(queue) \in Dls /\ pc[Head(queue)] = "queued"
      <4>1. queue \in Seq(Dls) BY DEF IInv, TypeOK
      <4>2. Head(queue) = queue[1] /\ Head(queue) \in Dls /\ 1 \in 1 .. Len(queue)
        BY <2>4, <4>1, QueueTail
      <4>3. QED BY <4>2 DEF IInv, QueueMatches
    <3>2. QED BY <2>2, <2>4, <3>1 DEF Pop
  <2>5. CASE \E s \in Steps : s # "lock" /\ Goto(d, s) BY <2>2, <2>5 DEF Goto
  <2>6. CASE Collect(d) BY <2>6 DEF Collect
  <2>7. CASE AddToQueue(d) \/ (Thread(d) /\ ~(Pop(d) /\ queue # <<>>))
    <3>1. \E s \in Steps : s # "lock" /\ Goto(d, s)
      BY <2>7 DEF AddToQueue, Thread, OpenLock, Lock, Add, Open, Complete, Break, Finally, Remove,
         CheckQueue, Pop, Release, Delete, Close, Steps
    <3>2. QED BY <2>5, <3>1
  <2>8. QED BY <2>1, <2>3, <2>4, <2>6, <2>7
<1>2. QED BY <1>1, DownloadInvariance, PTL DEF Spec, StartedOnce

-----------------------------------------------------------------------------
(* What a thread has loaded is the whole file at the path when its listener  *)
(* hears onFinish, for no other thread touched it; and a file that appears   *)
(* where there was none is whole.                                            *)
THEOREM FinishesWhole == Spec => FinishIsWhole
<1> DEFINE Whole ==
      /\ \A d \in Dls : pc[d] = "load" /\ "finish" \in heard'[d] \ heard[d]
                          => final'[PathOf[d]] = "whole"
      /\ \A p \in Paths : final[p] = "none" => final'[p] # "part"
<1>1. IInv /\ [Next]_vars => [Whole]_vars
  <2> SUFFICES ASSUME IInv, Next PROVE Whole
    OBVIOUS
  <2>1. PICK d \in Dls : Start(d) \/ AddToQueue(d) \/ Ask(d) \/ Thread(d) \/ Collect(d)
    BY DEF Next
  <2>2. /\ heard \in [Dls -> SUBSET Callbacks] /\ PathOf \in [Dls -> Paths]
        /\ final \in [Paths -> FileStates] /\ UNCHANGED world
    <3>1. UNCHANGED world BY DEF Next
    <3>2. QED BY <3>1, PathsFixed DEF IInv, TypeOK
  <2>3. \A p \in Paths : final[p] = "none" => final'[p] # "part"
    <3>1. CASE Open(d) BY <2>2, <3>1 DEF Open, disk
    <3>2. CASE Complete(d) BY <2>2, <3>2 DEF Complete
    <3>3. CASE UNCHANGED final BY <3>3
    <3>4. QED
      BY <2>1, <3>1, <3>2, <3>3
      DEF Thread, Start, AddToQueue, Ask, Collect, OpenLock, Lock, Add, Break, Finally, Remove,
          CheckQueue, Pop, Release, Delete, disk
  <2>4. ASSUME NEW e \in Dls, pc[e] = "load", "finish" \in heard'[e] \ heard[e]
        PROVE  final'[PathOf[e]] = "whole"
    <3>1. CASE UNCHANGED heard BY <2>4, <3>1
    <3>2. CASE Hear(d, "close") BY <2>2, <2>4, <3>2 DEF Hear
    <3>3. CASE Open(d)
      <4>1. e # d BY <2>4, <3>3 DEF Open
      <4>2. QED BY <2>2, <2>4, <3>3, <4>1 DEF Open, Hear
    <3>4. CASE Complete(d)
      <4>1. e = d BY <2>2, <2>4, <3>4 DEF Complete, Hear
      <4>2. writes[d] # "gone" BY DEF IInv, WritersMatch
      <4>3. final' = [final EXCEPT ![PathOf[d]] = "whole"] \/ UNCHANGED heard
        BY <3>4, <4>2 DEF Complete
      <4>4. QED BY <2>2, <2>4, <4>1, <4>3
    <3>5. QED
      BY <2>1, <3>1, <3>2, <3>3, <3>4
      DEF Thread, Start, AddToQueue, Ask, Collect, OpenLock, Lock, Add, Break, Finally, Remove,
          CheckQueue, Pop, Release, Delete, Close
  <2>5. QED BY <2>3, <2>4
<1>2. QED BY <1>1, DownloadInvariance, PTL DEF Spec, FinishIsWhole
=============================================================================
