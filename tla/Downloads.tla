---------------------------- MODULE Downloads ----------------------------
(***************************************************************************)
(* DownloadManager and Downloader: the caller's thread, one thread per     *)
(* download, the table of running downloads, the queue of those over the   *)
(* limit, the lock file of each path and the two files a download writes.  *)
(***************************************************************************)
EXTENDS Integers, Sequences, FiniteSets

CONSTANTS
  Dls,       \* the downloads asked for, and the questions, each once
  Paths,
  Worlds,    \* settings: MAX_DOWNLOAD_TASK (-1 for none), the path of each
             \* download, the ones of Dls that only ask, the files there are,
             \* and whether the network is a wifi
  MaxRetry,  \* MAX_RETRY_TIMES
  None

FileStates == {"none", "part", "whole"}

ASSUME DownloadsAssumption ==
  /\ Worlds \subseteq [limit : Nat \cup {-1}, path : [Dls -> Paths], asks : SUBSET Dls,
                       files : [Paths -> FileStates], wifi : BOOLEAN]
  /\ MaxRetry \in Nat
  /\ None \notin Dls

VARIABLES
  world,   \* the settings, fixed
  pc,      \* where each download is
  queue,   \* DownloadManager.queue
  table,   \* DownloadManager.hashMap: the downloads that are running
  lck,     \* the .lck file at each path, named by the download that made it
  opened,  \* the .lck file a download that locks it or holds its lock has open
  holds,   \* the downloads whose stream holds the lock of its file
  lock,    \* the downloads whose variable lock refers to that stream
  retry,   \* the downloads whose last attempt timed out
  tries,   \* retryTimes
  final,   \* the file at each path
  temp,    \* the paths with a .tmp file
  writes,  \* where the file is that a download writes: the .tmp file, the path,
           \* or nowhere any more
  heard    \* which of onFinish and onClose each listener got

locks == <<lck, opened, holds, lock>>
tasks == <<queue, table, retry, tries>>
disk == <<final, temp, writes>>
vars == <<world, pc, tasks, locks, disk, heard>>

Steps == {"new", "enqueue", "queued", "lock", "locking", "add", "open", "load", "finally",
          "remove", "check", "pop", "release", "delete", "over", "thrown"}
Callbacks == {"finish", "close"}
PathOf == world.path

TypeOK ==
  /\ world \in Worlds
  /\ pc \in [Dls -> Steps]
  /\ queue \in Seq(Dls)
  /\ table \subseteq Dls /\ holds \subseteq Dls /\ lock \subseteq Dls /\ retry \subseteq Dls
  /\ lck \in [Paths -> Dls \cup {None}] /\ opened \in [Dls -> Dls \cup {None}]
  /\ temp \subseteq Paths
  /\ tries \in [Dls -> 0 .. MaxRetry]
  /\ final \in [Paths -> FileStates]
  /\ writes \in [Dls -> {"none", "temp", "path", "gone"}]
  /\ heard \in [Dls -> SUBSET Callbacks]

Init ==
  /\ world \in Worlds
  /\ pc = [d \in Dls |-> "new"]
  /\ queue = <<>>
  /\ table = {} /\ holds = {} /\ lock = {} /\ retry = {} /\ temp = {}
  /\ lck = [p \in Paths |-> None] /\ opened = [d \in Dls |-> None]
  /\ tries = [d \in Dls |-> 0]
  /\ final = world.files
  /\ writes = [d \in Dls |-> "none"]
  /\ heard = [d \in Dls |-> {}]

Goto(d, s) == pc' = [pc EXCEPT ![d] = s]
Hear(d, c) == heard' = [heard EXCEPT ![d] = @ \cup {c}]
Queued(p) == \E i \in DOMAIN queue : PathOf[queue[i]] = p
Running(p) == \E d \in table : PathOf[d] = p
BelowLimit == Cardinality(table) < world.limit

(* Downloader.start: without a network the listener hears of an error and    *)
(* nothing starts.                                                           *)
Started(e) == Goto(e, "lock") \/ Goto(e, "over")

-----------------------------------------------------------------------------
(* DownloadManager.start, on the caller's thread: nothing for a path that is *)
(* queued or running; above the limit the download is put in the queue.      *)
Start(d) ==
  /\ pc[d] = "new" /\ d \notin world.asks
  /\ \A e \in Dls : pc[e] # "enqueue"
  /\ \/ /\ Queued(PathOf[d]) \/ Running(PathOf[d])
        /\ Goto(d, "over")
     \/ /\ ~Queued(PathOf[d]) /\ ~Running(PathOf[d])
        /\ IF world.limit = -1 \/ BelowLimit THEN Started(d) ELSE Goto(d, "enqueue")
  /\ UNCHANGED <<heard, tasks, locks, disk>>

AddToQueue(d) ==
  /\ pc[d] = "enqueue"
  /\ queue' = Append(queue, d)
  /\ Goto(d, "queued")
  /\ UNCHANGED <<heard, table, retry, tries, locks, disk>>

(* isFileDownloadIng: a path that is not in the table is asked for by taking *)
(* its lock and giving it back.                                              *)
Ask(d) ==
  /\ pc[d] = "new" /\ d \in world.asks
  /\ Goto(d, IF Running(PathOf[d]) THEN "over" ELSE "lock")
  /\ UNCHANGED <<heard, tasks, locks, disk>>

Forget(d) == opened' = [opened EXCEPT ![d] = None]
LetGo(d) == holds' = holds \ {d} /\ Forget(d)

(* MyFileLock.get: the lock file is opened, and made when there is none ...  *)
OpenLock(d) ==
  /\ pc[d] = "lock"
  /\ LET p == PathOf[d]
         f == IF lck[p] = None THEN d ELSE lck[p] IN
     /\ lck' = [lck EXCEPT ![p] = f]
     /\ opened' = [opened EXCEPT ![d] = f]
  /\ Goto(d, "locking")
  /\ UNCHANGED <<holds, lock, tasks, heard, disk>>

(* ... and then locked, be it still the file at the path or not; run ends    *)
(* when another stream of the process holds the lock of that file.           *)
Lock(d) ==
  /\ pc[d] = "locking"
  /\ IF \E e \in holds : opened[e] = opened[d]
       THEN Goto(d, "over") /\ Forget(d) /\ UNCHANGED <<holds, lock>>
       ELSE /\ holds' = holds \cup {d} /\ lock' = lock \cup {d} /\ UNCHANGED opened
            /\ Goto(d, IF d \in world.asks THEN "release" ELSE "add")
  /\ UNCHANGED <<lck, tasks, heard, disk>>

(* Mutant: the table is trusted to the lock and not looked at. *)
AddUnasked(d) ==
  /\ pc[d] = "add"
  /\ Goto(d, "open") /\ table' = table \cup {d}
  /\ UNCHANGED <<queue, retry, tries, locks, heard, disk>>

(* A thread whose path is in the table ends, and keeps the lock it has. *)
Add(d) ==
  /\ pc[d] = "add"
  /\ IF Running(PathOf[d])
       THEN Goto(d, "over") /\ lock' = lock \ {d} /\ UNCHANGED table
       ELSE Goto(d, "open") /\ table' = table \cup {d} /\ UNCHANGED lock
  /\ UNCHANGED <<queue, retry, tries, lck, opened, holds, heard, disk>>

(* What the other threads that write the file at p have when that file goes. *)
Gone(d, p) == {e \in Dls \ {d} : PathOf[e] = p /\ writes[e] = "path"}
Writing(d, w, gone) ==
  writes' = [e \in Dls |-> IF e = d THEN w ELSE IF e \in gone THEN "gone" ELSE writes[e]]

(* A file at the path, whatever its state, is taken for the finished         *)
(* download or deleted and written anew in place, as the listener answers    *)
(* this time; otherwise the .tmp file is written. The file is made before    *)
(* the connection.                                                           *)
Open(d) ==
  /\ pc[d] = "open"
  /\ LET p == PathOf[d] IN
     \/ /\ final[p] # "none"
        /\ Goto(d, "finally") /\ Hear(d, "finish")
        /\ UNCHANGED disk
     \/ /\ final[p] # "none"
        /\ final' = [final EXCEPT ![p] = "part"]
        /\ Writing(d, "path", Gone(d, p))
        /\ Goto(d, "load")
        /\ UNCHANGED <<heard, temp>>
     \/ /\ final[p] = "none"
        /\ temp' = temp \cup {p}
        /\ Writing(d, "temp", {})
        /\ Goto(d, "load")
        /\ UNCHANGED <<heard, final>>
  /\ UNCHANGED <<tasks, locks>>

(* The data has come, all of it, into the file the thread has open: the file *)
(* of the name it opened, if there is one still, gets the name of the path,  *)
(* or renaming fails.                                                        *)
Complete(d) ==
  /\ pc[d] = "load"
  /\ Goto(d, "finally")
  /\ LET p == PathOf[d]
         named == IF writes[d] = "temp" THEN p \in temp ELSE final[p] # "none" IN
     \/ /\ named
        /\ final' = IF writes[d] = "gone" THEN final ELSE [final EXCEPT ![p] = "whole"]
        /\ IF writes[d] = "temp" THEN temp' = temp \ {p} /\ Writing(d, "none", Gone(d, p))
           ELSE UNCHANGED temp /\ Writing(d, "none", {})
        /\ Hear(d, "finish")
     \/ Writing(d, "none", {}) /\ UNCHANGED <<heard, final, temp>>
  /\ UNCHANGED <<tasks, locks>>

(* Or the connection fails, the space is short, the listener or cancel stops *)
(* it, or a read times out, which on wifi asks for another attempt.          *)
Break(d) ==
  /\ pc[d] = "load"
  /\ Goto(d, "finally")
  /\ Writing(d, "none", {})
  /\ retry' \in {retry, IF world.wifi THEN retry \cup {d} ELSE retry}
  /\ UNCHANGED <<queue, table, tries, locks, heard, final, temp>>

(* Mutant: the lock given back and the table left before another attempt. *)
FinallyReleasing(d) ==
  /\ pc[d] = "finally"
  /\ IF d \in retry /\ tries[d] < MaxRetry
       THEN /\ tries' = [tries EXCEPT ![d] = @ + 1]
            /\ lock' = lock \ {d} /\ LetGo(d) /\ table' = table \ {d}
            /\ Goto(d, "open")
       ELSE Goto(d, "remove") /\ UNCHANGED <<tries, lock, holds, opened, table>>
  /\ retry' = retry \ {d}
  /\ UNCHANGED <<queue, lck, heard, disk>>

(* finally: another attempt is a call of run inside this one, whose own      *)
(* variable lock is null, and which clears retry first. (After the last one  *)
(* nobody reads retry again.)                                                *)
Finally(d) ==
  /\ pc[d] = "finally"
  /\ IF d \in retry /\ tries[d] < MaxRetry
       THEN /\ tries' = [tries EXCEPT ![d] = @ + 1]
            /\ lock' = lock \ {d}
            /\ Goto(d, "open")
       ELSE Goto(d, "remove") /\ UNCHANGED <<tries, lock>>
  /\ retry' = retry \ {d}
  /\ UNCHANGED <<queue, table, lck, opened, holds, heard, disk>>

Remove(d) ==
  /\ pc[d] = "remove"
  /\ table' = {e \in table : PathOf[e] # PathOf[d]}
  /\ Goto(d, "check")
  /\ UNCHANGED <<queue, retry, tries, locks, heard, disk>>

(* checkQueue: looked at without the lock, then the first one is taken;      *)
(* removeFirst throws when another thread took it in between.                *)
CheckQueue(d) ==
  /\ pc[d] = "check"
  /\ Goto(d, IF queue # <<>> /\ BelowLimit THEN "pop" ELSE "release")
  /\ UNCHANGED <<tasks, locks, heard, disk>>

(* Mutant: the first of the queue is started and left in it. *)
PopKept(d) ==
  /\ pc[d] = "pop"
  /\ queue # <<>>
  /\ pc' = [pc EXCEPT ![Head(queue)] = "lock", ![d] = "release"]
  /\ UNCHANGED <<tasks, locks, heard, disk>>

Pop(d) ==
  /\ pc[d] = "pop"
  /\ \/ /\ queue = <<>>
        /\ Goto(d, "thrown") /\ lock' = lock \ {d}
        /\ UNCHANGED queue
     \/ /\ queue # <<>>
        /\ queue' = Tail(queue)
        /\ \/ pc' = [pc EXCEPT ![Head(queue)] = "lock", ![d] = "release"]
           \/ pc' = [pc EXCEPT ![Head(queue)] = "over", ![d] = "release"]
        /\ UNCHANGED lock
  /\ UNCHANGED <<table, retry, tries, lck, opened, holds, heard, disk>>

Close(d) ==
  /\ Goto(d, "over")
  /\ IF d \in world.asks THEN UNCHANGED heard ELSE Hear(d, "close")

(* Mutant: a thread without a lock does not tell its listener. *)
ReleaseSilent(d) ==
  /\ pc[d] = "release"
  /\ IF d \in lock
       THEN Goto(d, "delete") /\ LetGo(d)
       ELSE Goto(d, "over") /\ UNCHANGED <<holds, opened>>
  /\ UNCHANGED <<tasks, lck, lock, heard, disk>>

(* releaseFileLock, when there is one to release: it is unlocked and its     *)
(* stream closed ...                                                         *)
Release(d) ==
  /\ pc[d] = "release"
  /\ IF d \in lock
       THEN Goto(d, "delete") /\ LetGo(d) /\ UNCHANGED heard
       ELSE Close(d) /\ UNCHANGED <<holds, opened>>
  /\ UNCHANGED <<tasks, lck, lock, disk>>

(* ... and then the file at the path is deleted, be it still the same or not.*)
Delete(d) ==
  /\ pc[d] = "delete"
  /\ lck' = [lck EXCEPT ![PathOf[d]] = None]
  /\ lock' = lock \ {d}
  /\ Close(d)
  /\ UNCHANGED <<tasks, opened, holds, disk>>

(* The collector closes a stream that nobody refers to, some day or never.   *)
Collect(d) ==
  /\ d \in holds \ lock
  /\ LetGo(d)
  /\ UNCHANGED <<pc, tasks, lck, lock, heard, disk>>

Thread(d) ==
  \/ OpenLock(d) \/ Lock(d) \/ Add(d) \/ Open(d) \/ Complete(d) \/ Break(d) \/ Finally(d)
  \/ Remove(d) \/ CheckQueue(d) \/ Pop(d) \/ Release(d) \/ Delete(d)

Next ==
  /\ UNCHANGED world
  /\ \E d \in Dls : Start(d) \/ AddToQueue(d) \/ Ask(d) \/ Thread(d) \/ Collect(d)

Spec == Init /\ [][Next]_vars

(* Every thread runs; reads have a time-out, so every attempt ends. *)
FairSpec == Spec /\ \A d \in Dls : WF_vars((AddToQueue(d) \/ Thread(d)) /\ UNCHANGED world)

-----------------------------------------------------------------------------
(* No two threads write the files of one path, although two may hold "the"   *)
(* lock of it: one that opened the lock file before its holder deleted it,   *)
(* and one that made a new file after. Then the table decides, which has     *)
(* exactly the downloads between add and remove.                             *)
OneWriter ==
  /\ TypeOK
  /\ \A d, e \in Dls : d # e /\ PathOf[d] = PathOf[e] =>
       ~({pc[d], pc[e]} \subseteq {"open", "load", "finally"})
  /\ table = {d \in Dls : pc[d] \in {"open", "load", "finally", "remove"}}

(* A download that has loaded a file lets its listener hear onFinish only    *)
(* when the whole file is at the path: nobody deleted or replaced it while   *)
(* it was written. And where there was no file, none appears in part. (A     *)
(* listener that takes what is there, onExist 0, hears onFinish of it in any *)
(* state, also of a part that a reload in place left.)                       *)
FinishIsWhole == [][
  /\ \A d \in Dls : pc[d] = "load" /\ "finish" \in heard'[d] \ heard[d] => final'[PathOf[d]] = "whole"
  /\ \A p \in Paths : final[p] = "none" => final'[p] # "part"]_vars

(* A download that entered the table leaves it, and its listener hears       *)
(* onClose, after its attempts (unless another thread took the download it   *)
(* was about to start from the queue).                                       *)
EntryCloses == \A d \in Dls :
  (d \in table) ~> (pc[d] = "over" /\ "close" \in heard[d]) \/ pc[d] = "thrown"

(* A download starts at most once: from the queue or at once.                *)
StartedOnce == [][\A d \in Dls : pc'[d] = "lock" /\ pc[d] # "lock" => pc[d] \in {"new", "queued"}]_vars
=============================================================================
