---------------------------- MODULE Network ----------------------------
(***************************************************************************)
(* The socket table of network.c: the slots an application holds handles   *)
(* to, the sockets of the operating system behind them, and the            *)
(* transparent proxy, which answers for the WAP gateway 10.0.0.172 and     *)
(* opens a second slot for the real server when the first request is sent. *)
(***************************************************************************)
EXTENDS Integers, FiniteSets

CONSTANTS
  SlotCount,   \* DSM_SUPPROT_SOC_NUM
  Fds,         \* the descriptors the operating system can give
  Worlds,      \* the networks and applications there may be, see World
  ReInits,     \* mr_initNetwork may be called with sockets open
  MaxWorn      \* the bound on worn

(* cmwap: dsmNetType = NETTYPE_CMWAP, the gateway is reached directly.       *)
(* handles: the sockets an application keeps open at a time.                 *)
(* tidy: it connects a handle once and, when it is proxied, sends before it  *)
(* reads or closes.                                                          *)
World == [cmwap: BOOLEAN, handles: Nat, tidy: BOOLEAN]

ASSUME NetworkAssumption ==
  /\ SlotCount \in Nat \ {0}
  /\ Fds \subseteq Nat
  /\ IsFiniteSet(Fds)
  /\ Worlds \subseteq World
  /\ ReInits \in BOOLEAN
  /\ MaxWorn \in Nat

Slots == 0 .. SlotCount - 1
None == -1     \* MR_FAILED: as a descriptor, a free slot; as an index, no slot

VARIABLES
  world,  \* fixed from the start: dsm_init reads the kind of network
  soc,    \* socStat: the slots
  os,     \* the operating system's side of each descriptor
  own,    \* history: the handle each open descriptor was opened for
  held,   \* the handles the application holds
  down,   \* how the process died: "no", "endless" recursion, "stray" index
  worn,   \* history: how often a slot was taken that a proxied handle had left
  last    \* history: the handle and descriptor of the last send or recv

vars == <<world, soc, os, own, held, down, worn, last>>

Quiet == [handle |-> None, fd |-> None]
SlotStates == {"close", "open", "connecting", "connected", "err"}
OsStates == {"none", "fresh", "udp", "trying", "up", "refused", "gone"}

TypeOK ==
  /\ world \in Worlds
  /\ soc \in [Slots -> [fd: Fds \cup {None}, st: SlotStates, rd: BOOLEAN, wr: BOOLEAN,
                        proxy: BOOLEAN, real: Slots \cup {None}, realUp: BOOLEAN]]
  /\ os \in [Fds -> OsStates]
  /\ own \in [Fds -> Slots \cup {None}]
  /\ held \subseteq Slots
  /\ down \in {"no", "endless", "stray"}
  /\ worn \in 0 .. MaxWorn
  /\ last \in [handle: Slots \cup {None}, fd: Fds \cup {None}]

FreeSlot == [fd |-> None, st |-> "close", rd |-> FALSE, wr |-> FALSE,
             proxy |-> FALSE, real |-> 0, realUp |-> FALSE]

Init ==
  /\ world \in Worlds
  /\ soc = [s \in Slots |-> FreeSlot]
  /\ os = [d \in Fds |-> "none"]
  /\ own = [d \in Fds |-> None]
  /\ held = {}
  /\ down = "no"
  /\ worn = 0
  /\ last = Quiet

OpenFds == {d \in Fds : os[d] # "none"}
Up(slot) == [slot EXCEPT !.st = "connected", !.rd = TRUE, !.wr = TRUE]
Failed(slot) == [slot EXCEPT !.st = "err"]
FreeIndexes == {s \in Slots : soc[s].fd = None}

(* mr_socket takes the first free slot, the system its lowest free descriptor.*)
FirstFree(s) == s \in FreeIndexes /\ \A t \in FreeIndexes : s <= t
Lowest(d) == d \in Fds \ OpenFds /\ \A e \in Fds \ OpenFds : d <= e

(* Mutant: a close that forgets to free the slot. *)
KeptClosed(S) == [s \in Slots |->
  IF s \in S THEN [soc[s] EXCEPT !.st = "close", !.rd = FALSE, !.wr = FALSE] ELSE soc[s]]

(* What is closed: the slots of S lose their sockets; the proxy fields stay. *)
Closed(S) == [s \in Slots |->
  IF s \in S THEN [soc[s] EXCEPT !.fd = None, !.st = "close", !.rd = FALSE, !.wr = FALSE]
             ELSE soc[s]]
FdsOf(S) == {soc[s].fd : s \in S} \ {None}

-----------------------------------------------------------------------------
(* mr_initNetwork: every slot is marked free, none is closed. *)
InitNetwork ==
  /\ ReInits \/ FdsOf(Slots) = {}
  /\ soc' = [s \in Slots |-> [soc[s] EXCEPT !.fd = None]]
  /\ own' = [d \in Fds |-> None]
  /\ held' = {}
  /\ last' = Quiet
  /\ UNCHANGED <<os, down, worn>>

(* A tidy application sends on a proxied handle before all else. *)
Ready(s) == world.tidy /\ soc[s].proxy => soc[s].realUp

(* mr_closeNetwork, and dsm_reset when the application exits. *)
CloseNetwork ==
  /\ \A s \in held : Ready(s)
  /\ soc' = Closed(Slots)
  /\ os' = [d \in Fds |-> IF d \in FdsOf(Slots) THEN "none" ELSE os[d]]
  /\ own' = [d \in Fds |-> None]
  /\ held' = {}
  /\ last' = Quiet
  /\ UNCHANGED <<down, worn>>

(* The slot mr_socket fills: the first free one, whose proxy fields stay. *)
Opened(slot, d, type) ==
  [slot EXCEPT !.fd = d, !.st = "open", !.rd = type = "dgram", !.wr = type = "dgram"]

Wear(s) == IF soc[s].proxy THEN worn < MaxWorn /\ worn' = worn + 1 ELSE UNCHANGED worn

Socket(type) ==
  /\ Cardinality(held) < world.handles
  /\ \E s \in Slots, d \in Fds :
       /\ FirstFree(s) /\ Lowest(d)
       /\ soc' = [soc EXCEPT ![s] = Opened(soc[s], d, type)]
       /\ os' = [os EXCEPT ![d] = IF type = "dgram" THEN "udp" ELSE "fresh"]
       /\ own' = [own EXCEPT ![d] = s]
       /\ held' = held \cup {s}
       /\ Wear(s)
  /\ last' = Quiet
  /\ UNCHANGED down

(* connect(2) on a descriptor in state o: done at once, refused, in progress.*)
ConnectResults(o) ==
  CASE o \in {"up", "udp"} -> {"up", "refused"}
    [] o \in {"trying", "none"} -> {"refused"}
    [] OTHER -> {"up", "refused", "trying"}

OsOf(d) == IF d = None THEN "none" ELSE os[d]
NeedsProxy(gateway) == gateway /\ ~world.cmwap

(* Mutant: a blocking connect whose wait is not looked at. *)
UnlookedBlocked(slot, w) == Up(slot)

(* The end of the wait of a blocking connect: select without a timeout, on   *)
(* a slot already marked connected.                                          *)
Blocked(slot, w) == IF w = "up" THEN Up(slot) ELSE Failed(Up(slot))

(* The outcomes of mr_connect on a slot whose descriptor is in state o.      *)
ConnectOutcomes(slot, o, gateway, block) ==
  LET now == ConnectResults(o) IN
  {[slot |-> Up(slot), os |-> "up"] : r \in now \cap {"up"}}
  \cup {[slot |-> Failed(slot), os |-> IF o = "fresh" THEN "refused" ELSE o] :
          r \in now \cap {"refused"}}
  \cup (IF "trying" \notin now THEN {}
        ELSE IF NeedsProxy(gateway)
          THEN {[slot |-> [Up(slot) EXCEPT !.proxy = TRUE, !.realUp = FALSE], os |-> "trying"]}
        ELSE IF block
          THEN {[slot |-> Blocked(slot, w), os |-> w] : w \in {"up", "refused"}}
        ELSE {[slot |-> [slot EXCEPT !.st = "connecting"], os |-> "trying"]})

Connect(s, gateway, block) ==
  /\ s \in held
  /\ world.tidy => soc[s].st = "open"
  /\ LET d == soc[s].fd IN
     \E c \in ConnectOutcomes(soc[s], OsOf(d), gateway, block) :
       /\ soc' = [soc EXCEPT ![s] = c.slot]
       /\ os' = IF d = None THEN os ELSE [os EXCEPT ![d] = c.os]
  /\ last' = Quiet
  /\ UNCHANGED <<own, held, down, worn>>

(* Mutant: a poll that does not notice a refused connect. *)
DeafGetSocketState(s) ==
  /\ s \in held
  /\ soc' = [soc EXCEPT ![s] =
       CASE soc[s].st = "connected" -> soc[s]
         [] soc[s].st = "connecting" -> IF os[soc[s].fd] = "up" THEN Up(soc[s]) ELSE soc[s]
         [] OTHER -> Failed(soc[s])]
  /\ UNCHANGED <<os, own, held, down, worn, last>>

(* mr_getSocketState: only a pending connect is polled, for 50 ms; a slot   *)
(* that is neither connected nor connecting is put in error by the question.*)
GetSocketState(s) ==
  /\ s \in held
  /\ soc' = [soc EXCEPT ![s] =
       CASE soc[s].st = "connected" -> soc[s]
         [] soc[s].st = "connecting" ->
              (CASE os[soc[s].fd] = "trying" -> soc[s]
                 [] os[soc[s].fd] = "up" -> Up(soc[s])
                 [] OTHER -> Failed(soc[s]))
         [] OTHER -> Failed(soc[s])]
  /\ UNCHANGED <<os, own, held, down, worn, last>>

(* mr_closeSocket calls itself for the real slot of a proxied one: the      *)
(* slots it closes, which are the least set with s in it that Follows the   *)
(* real slots, and whether the recursion ends.                              *)
Follows(C) == \A i \in C \cap Slots : soc[i].proxy => soc[i].real \in C
Chain(s) == {i \in Slots \cup {None} :
  \A C \in SUBSET (Slots \cup {None}) : (s \in C /\ Follows(C)) => i \in C}
Endless(s) == \A i \in Chain(s) : i \in Slots /\ soc[i].proxy

(* Mutant: the real slot of a proxied handle is left open. *)
AloneCloseSocket(s) ==
  /\ s \in held
  /\ soc' = Closed({s})
  /\ os' = [d \in Fds |-> IF d = soc[s].fd THEN "none" ELSE os[d]]
  /\ own' = [d \in Fds |-> IF own[d] = s THEN None ELSE own[d]]
  /\ held' = held \ {s}
  /\ last' = Quiet
  /\ UNCHANGED <<down, worn>>

CloseSocket(s) ==
  /\ s \in held
  /\ \/ /\ Endless(s) \/ None \in Chain(s)
        /\ down' = IF Endless(s) THEN "endless" ELSE "stray"
        /\ UNCHANGED <<soc, os, own, held>>
     \/ /\ ~Endless(s) /\ None \notin Chain(s)
        /\ soc' = Closed(Chain(s) \ FreeIndexes)
        /\ os' = [d \in Fds |-> IF d \in FdsOf(Chain(s)) THEN "none" ELSE os[d]]
        /\ own' = [d \in Fds |-> IF d \in FdsOf(Chain(s)) \/ own[d] = s THEN None ELSE own[d]]
        /\ held' = held \ {s}
        /\ UNCHANGED down
  /\ last' = Quiet
  /\ UNCHANGED worn

-----------------------------------------------------------------------------
(* A transfer on slot i for the handle s: the slot refuses it or it would    *)
(* block, data moves, or the connection is found broken.                     *)
Transfer(s, i, can, Stop(_)) ==
  LET d == soc[i].fd
      usable == soc[i].st # "err" /\ can
  IN /\ \/ /\ last' = Quiet
           /\ soc' = soc
        \/ /\ usable /\ OsOf(d) \in {"up", "udp"}
           /\ last' = [handle |-> s, fd |-> d]
           /\ soc' = soc
        \/ /\ usable /\ OsOf(d) \in {"gone", "refused", "fresh", "udp", "none"}
           /\ last' = Quiet
           /\ soc' = [soc EXCEPT ![i] = Stop(soc[i])]
     /\ UNCHANGED down

StopRecv(slot) == [slot EXCEPT !.st = "err", !.rd = FALSE]
StopSend(slot) == [slot EXCEPT !.st = "err", !.wr = FALSE]
StopNot(slot) == slot

(* socStat[-1]: an access outside the table. *)
Stray ==
  /\ down' = "stray"
  /\ last' = Quiet
  /\ UNCHANGED soc

(* mr_recv and mr_send work on the real slot of a proxied one. *)
Target(s) == IF soc[s].proxy THEN soc[s].real ELSE s

Recv(s) ==
  /\ s \in held
  /\ IF Target(s) = None THEN Stray ELSE Transfer(s, Target(s), soc[Target(s)].rd, StopRecv)
  /\ UNCHANGED <<os, own, held, worn>>

Send(s) ==
  /\ s \in held
  /\ soc[s].proxy => soc[s].realUp
  /\ IF Target(s) = None THEN Stray ELSE Transfer(s, Target(s), soc[Target(s)].wr, StopSend)
  /\ UNCHANGED <<os, own, held, worn>>

(* mr_recvfrom and mr_sendto: never through the proxy. *)
RecvFrom(s) ==
  /\ s \in held
  /\ Transfer(s, s, soc[s].rd, StopNot)
  /\ UNCHANGED <<os, own, held, worn>>

SendTo(s) ==
  /\ s \in held
  /\ Transfer(s, s, soc[s].wr, StopSend)
  /\ UNCHANGED <<os, own, held, worn>>

(* mr_send, the first request on a proxied slot: the server it names is      *)
(* looked up, a second slot is opened and connected with a wait, and the     *)
(* request goes out on that slot; neither result is looked at.               *)
SendFirst(s) ==
  /\ s \in held
  /\ soc[s].proxy /\ ~soc[s].realUp
  /\ \/ /\ FreeIndexes = {} \/ OpenFds = Fds
        /\ soc' = [soc EXCEPT ![s].real = None, ![s].realUp = TRUE]
        /\ down' = "stray"
        /\ last' = Quiet
        /\ UNCHANGED <<os, own, worn>>
     \/ /\ \E i \in Slots, d \in Fds :
             /\ FirstFree(i) /\ Lowest(d)
             /\ Wear(i)
             /\ \E c \in ConnectOutcomes(Opened(soc[i], d, "stream"), "fresh", FALSE, TRUE) :
                  /\ soc' = [soc EXCEPT ![i] = c.slot, ![s].real = i, ![s].realUp = TRUE]
                  /\ os' = [os EXCEPT ![d] = c.os]
                  /\ own' = [own EXCEPT ![d] = s]
                  /\ last' = IF c.os = "up" THEN [handle |-> s, fd |-> d] ELSE Quiet
        /\ UNCHANGED down
  /\ UNCHANGED held

(* The network: a pending connect ends, a peer goes away. *)
Settle(d) ==
  /\ os[d] = "trying"
  /\ \E r \in {"up", "refused"} : os' = [os EXCEPT ![d] = r]
  /\ UNCHANGED <<soc, own, held, down, worn, last>>

Leave(d) ==
  /\ os[d] = "up"
  /\ os' = [os EXCEPT ![d] = "gone"]
  /\ UNCHANGED <<soc, own, held, down, worn, last>>

Call(s) ==
  \/ GetSocketState(s)
  \/ SendFirst(s)
  \/ /\ Ready(s)
     /\ \/ \E gateway, block \in BOOLEAN : Connect(s, gateway, block)
        \/ CloseSocket(s)
        \/ Recv(s) \/ Send(s) \/ RecvFrom(s) \/ SendTo(s)

Next ==
  /\ down = "no"
  /\ UNCHANGED world
  /\ \/ InitNetwork \/ CloseNetwork
     \/ \E type \in {"stream", "dgram"} : Socket(type)
     \/ \E s \in Slots : Call(s)
     \/ \E d \in Fds : Settle(d) \/ Leave(d)

Spec == Init /\ [][Next]_vars

(* A connect ends (TCP gives up by itself), and an application that waits for*)
(* one asks for its state again and again, whatever it calls in between.     *)
Poll(s) == down = "no" /\ GetSocketState(s) /\ UNCHANGED world
Ends(d) == down = "no" /\ Settle(d) /\ UNCHANGED world
FairSpec ==
  /\ Spec
  /\ \A s \in Slots : SF_vars(Poll(s))
  /\ \A d \in Fds : WF_vars(Ends(d))

-----------------------------------------------------------------------------
(* What mr_closeSocket leaves in a slot, that it was proxied and by which    *)
(* slot, misleads the next handle in it. The properties that only hold until *)
(* then are about applications without a proxied handle, tidy ones with one  *)
(* handle at a time, and tidy ones that have not met such a slot yet.        *)
Orderly == (world.cmwap \/ world.tidy) /\ (worn > 0 => world.cmwap \/ world.handles <= 1)

(* The table and the operating system agree whatever is called: every open   *)
(* descriptor is in exactly one slot, and no slot holds a closed one. In an  *)
(* orderly application the slot of a handle still has the socket mr_socket   *)
(* opened for it, and an index outside the table is only used when there is  *)
(* no free slot or descriptor for the real server of a request.              *)
TableIsTrue ==
  /\ TypeOK
  /\ FdsOf(Slots) = OpenFds
  /\ \A s, t \in Slots : s # t /\ soc[s].fd # None => soc[s].fd # soc[t].fd
  /\ Orderly => \A s \in held : soc[s].fd # None /\ own[soc[s].fd] = s
  /\ Orderly /\ down = "stray" => FreeIndexes = {} \/ OpenFds = Fds

(* A slot mr_getSocketState reports as connected has had its connection made:*)
(* neither a pending nor a refused connect is ever reported as a success.    *)
ConnectedIsReal ==
  \A s \in held : soc[s].st = "connected" /\ ~soc[s].proxy => OsOf(soc[s].fd) \in {"up", "gone"}

(* An application that polls a pending connect learns how it ended, whatever *)
(* descriptor the connect is made on, unless the process dies first.         *)
PollEnds ==
  \A s \in Slots, d \in Fds :
    (soc[s].st = "connecting" /\ soc[s].fd = d) ~> (soc[s].st # "connecting" \/ down # "no")

(* What is sent or received for a handle passes through a socket opened for  *)
(* that handle, as the comment on realSocketId has it, "real socket, valid   *)
(* when proxied": so for every application ...                               *)
TrafficStays == last.fd # None => own[last.fd] = last.handle

(* ... and so for the orderly: the real connection of a proxied slot is that *)
(* of its own handle.                                                        *)
TrafficIsOwn == Orderly => TrafficStays

(* Closing always ends (mr_closeSocket does not call itself for ever), and   *)
(* an orderly application that closed every handle has closed every socket,  *)
(* the real ones of its proxied handles included.                            *)
AllClosed == Orderly => down # "endless" /\ (held = {} => OpenFds = {})
=============================================================================
