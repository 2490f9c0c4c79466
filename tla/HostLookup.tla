--------------------------- MODULE HostLookup ---------------------------
(***************************************************************************)
(* mr_getHostByName: a thread per lookup, one callback pointer, one thread *)
(* id and one resolver buffer for all of them, and the message through     *)
(* which a thread hands its answer to the handler thread of the machine.   *)
(***************************************************************************)
EXTENDS Integers, Sequences, FiniteSets

CONSTANTS
  MaxLookup,   \* bound: the lookups of a history
  Apps         \* the applications there may be: "patient" ones wait for each
               \* answer; others ask again, close and initialise meanwhile

ASSUME HostLookupAssumption ==
  MaxLookup \in Nat \ {0} /\ Apps \subseteq {"patient", "hasty"}

Lookups == 1 .. MaxLookup
Nobody == 0   \* no thread, no callback of a lookup
Bad == -1     \* MR_FAILED as an answer

VARIABLES
  app,      \* the application, fixed from the start
  asked,    \* the number of lookups asked for
  callBack, \* mr_soc.callBack: the lookup whose function it is
  tid,      \* thread_id: the lookup whose thread it names
  thread,   \* where the thread of each lookup is in getHost
  dnsBuf,   \* the lookup whose answer the shared buffer holds
  queue,    \* the answers in the handler's queue
  joining,  \* the thread the handler waits for in mr_closeNetwork
  running,  \* b_vm_running
  heard,    \* history: what each callback was called with
  waits     \* history: the lookups the application waits for

vars == <<app, asked, callBack, tid, thread, dnsBuf, queue, joining, running, heard, waits>>

TypeOK ==
  /\ app \in Apps
  /\ asked \in 0 .. MaxLookup
  /\ {callBack, tid, dnsBuf, joining} \subseteq Lookups \cup {Nobody}
  /\ thread \in [Lookups -> {"none", "resolving", "resolved", "posted", "over"}]
  /\ queue \in Seq(Lookups \cup {Bad})
  /\ running \in BOOLEAN
  /\ heard \in [Lookups \cup {Nobody} -> Seq(Lookups \cup {Bad})]
  /\ waits \subseteq Lookups

Init ==
  /\ app \in Apps
  /\ asked = 0
  /\ callBack = Nobody /\ tid = Nobody /\ dnsBuf = Nobody /\ joining = Nobody
  /\ thread = [r \in Lookups |-> "none"]
  /\ queue = <<>>
  /\ running = TRUE
  /\ heard = [r \in Lookups \cup {Nobody} |-> <<>>]
  /\ waits = {}

HandlerFree == running /\ joining = Nobody

(* emu_requestCallback and N2J_requestCallback: nothing is posted once the   *)
(* machine has stopped.                                                      *)
Requested(v) == IF running THEN Append(queue, v) ELSE queue

-----------------------------------------------------------------------------
(* mr_getHostByName: the callback is replaced first, then the thread starts, *)
(* or cannot be made and MR_FAILED is returned.                              *)
GetHostByName ==
  /\ HandlerFree /\ asked < MaxLookup
  /\ app = "patient" => waits = {}
  /\ asked' = asked + 1
  /\ callBack' = asked'
  /\ \/ /\ tid' = asked'
        /\ thread' = [thread EXCEPT ![asked'] = "resolving"]
        /\ waits' = waits \cup {asked'}
     \/ UNCHANGED <<tid, thread, waits>>
  /\ UNCHANGED <<app, dnsBuf, queue, joining, running, heard>>

(* Mutants of Resolve: a failure posts the last answer, goes on to post an   *)
(* address, or posts nothing.                                                *)
ResolveStale(r) ==
  /\ thread[r] = "resolving"
  /\ \/ dnsBuf' = r /\ thread' = [thread EXCEPT ![r] = "resolved"] /\ UNCHANGED queue
     \/ queue' = Requested(dnsBuf) /\ thread' = [thread EXCEPT ![r] = "over"] /\ UNCHANGED dnsBuf
  /\ UNCHANGED <<app, asked, callBack, tid, joining, running, heard, waits>>
ResolveOn(r) ==
  /\ thread[r] = "resolving"
  /\ thread' = [thread EXCEPT ![r] = "resolved"]
  /\ \/ dnsBuf' = r /\ UNCHANGED queue
     \/ queue' = Requested(Bad) /\ UNCHANGED dnsBuf
  /\ UNCHANGED <<app, asked, callBack, tid, joining, running, heard, waits>>
ResolveSilent(r) ==
  /\ thread[r] = "resolving"
  /\ \/ dnsBuf' = r /\ thread' = [thread EXCEPT ![r] = "resolved"]
     \/ thread' = [thread EXCEPT ![r] = "over"] /\ UNCHANGED dnsBuf
  /\ UNCHANGED <<app, asked, callBack, tid, queue, joining, running, heard, waits>>

(* getHost: the resolver fills the shared buffer, or fails; a failure is     *)
(* posted and ends the thread with thread_id as it is.                       *)
Resolve(r) ==
  /\ thread[r] = "resolving"
  /\ \/ /\ dnsBuf' = r
        /\ thread' = [thread EXCEPT ![r] = "resolved"]
        /\ UNCHANGED queue
     \/ /\ queue' = Requested(Bad)
        /\ thread' = [thread EXCEPT ![r] = "over"]
        /\ UNCHANGED dnsBuf
  /\ UNCHANGED <<app, asked, callBack, tid, joining, running, heard, waits>>

(* Mutant: the post waits for the handler. *)
PostWaiting(r) ==
  /\ thread[r] = "resolved" /\ joining = Nobody
  /\ queue' = Requested(dnsBuf)
  /\ thread' = [thread EXCEPT ![r] = "posted"]
  /\ UNCHANGED <<app, asked, callBack, tid, dnsBuf, joining, running, heard, waits>>

(* The address is read from the shared buffer and posted. *)
Post(r) ==
  /\ thread[r] = "resolved"
  /\ queue' = Requested(dnsBuf)
  /\ thread' = [thread EXCEPT ![r] = "posted"]
  /\ UNCHANGED <<app, asked, callBack, tid, dnsBuf, joining, running, heard, waits>>

(* The last statement of getHost. *)
Forget(r) ==
  /\ thread[r] = "posted"
  /\ tid' = Nobody
  /\ thread' = [thread EXCEPT ![r] = "over"]
  /\ UNCHANGED <<app, asked, callBack, dnsBuf, queue, joining, running, heard, waits>>

(* j2n_callback: the function registered now is called with the answer. *)
Deliver ==
  /\ joining = Nobody /\ queue # <<>>
  /\ queue' = Tail(queue)
  /\ heard' = IF running THEN [heard EXCEPT ![callBack] = Append(@, Head(queue))] ELSE heard
  /\ waits' = IF running THEN waits \ {callBack} ELSE waits
  /\ UNCHANGED <<app, asked, callBack, tid, thread, dnsBuf, joining, running>>

(* mr_closeNetwork joins the thread it knows of; the callback stays. *)
CloseNetwork ==
  /\ HandlerFree
  /\ app = "patient" => waits = {}
  /\ joining' = tid
  /\ waits' = {}
  /\ UNCHANGED <<app, asked, callBack, tid, thread, dnsBuf, queue, running, heard>>

Joined ==
  /\ joining # Nobody /\ thread[joining] = "over"
  /\ joining' = Nobody
  /\ tid' = Nobody
  /\ UNCHANGED <<app, asked, callBack, thread, dnsBuf, queue, running, heard, waits>>

(* mr_initNetwork registers its own callback in the same place. *)
InitNetwork ==
  /\ HandlerFree
  /\ app = "patient" => waits = {}
  /\ callBack' = Nobody
  /\ waits' = {}
  /\ UNCHANGED <<app, asked, tid, thread, dnsBuf, queue, joining, running, heard>>

(* mr_exit: the machine stops, no thread is joined. *)
Exit ==
  /\ HandlerFree
  /\ running' = FALSE
  /\ waits' = {}
  /\ UNCHANGED <<app, asked, callBack, tid, thread, dnsBuf, queue, joining, heard>>

Thread(r) == Resolve(r) \/ Post(r) \/ Forget(r)

Next ==
  \/ GetHostByName \/ Deliver \/ CloseNetwork \/ Joined \/ InitNetwork \/ Exit
  \/ \E r \in Lookups : Thread(r)

Spec == Init /\ [][Next]_vars

(* A resolver answers or gives up, threads run, the looper takes messages. *)
FairSpec ==
  /\ Spec
  /\ WF_vars(Deliver) /\ WF_vars(Joined)
  /\ \A r \in Lookups : WF_vars(Thread(r))

-----------------------------------------------------------------------------
(* The callback of a patient application hears the answer to its own lookup, *)
(* or that it failed.                                                        *)
AnswerIsMine == app = "patient" => \A r \in Lookups, i \in 1 .. MaxLookup :
  i \in DOMAIN heard[r] => heard[r][i] \in {r, Bad}

(* It is called once at most, and never the one that was not asked. *)
OneAnswer ==
  /\ TypeOK
  /\ app = "patient" => heard[Nobody] = <<>> /\ \A r \in Lookups : Len(heard[r]) <= 1

(* Every lookup a patient application waits for is answered, unless it exits.*)
Answered == app = "patient" => \A r \in Lookups : (r \in waits) ~> (r \notin waits)

(* Closing the network returns: the thread it waits for never waits for the  *)
(* handler.                                                                  *)
CloseReturns == \A r \in Lookups : (joining = r) ~> (joining = Nobody)
=============================================================================
