---------------------------- MODULE NetworkProofs ----------------------------
(***************************************************************************)
(* The safety of the socket table for any number of slots, descriptors and *)
(* handles.  What is known whatever an application calls is Table: slots   *)
(* and descriptors agree, pending connects are polled, and none that is    *)
(* refused is reported as made.  What ties sockets to handles is Fit, which *)
(* the orderly applications keep: those without a proxied handle, the tidy *)
(* ones with one handle, whose stale fields never lead to another, and the *)
(* tidy ones with several until one of them takes a slot a proxied handle  *)
(* left.                                                                   *)
(***************************************************************************)
EXTENDS Network, FiniteSetTheorems, TLAPS

Slot == [fd: Fds \cup {None}, st: SlotStates, rd: BOOLEAN, wr: BOOLEAN,
         proxy: BOOLEAN, real: Slots \cup {None}, realUp: BOOLEAN]

\* Each open descriptor is in one slot, and each descriptor in a slot is open.
Sockets ==
  /\ \A s \in Slots : soc[s].fd # None => os[soc[s].fd] # "none"
  /\ \A d \in OpenFds : \E s \in Slots : soc[s].fd = d
  /\ \A s, t \in Slots : s # t /\ soc[s].fd # None => soc[s].fd # soc[t].fd

\* Only handles are ever connected without a wait: the application polls each
\* pending connect.
Pending == \A s \in Slots : soc[s].st = "connecting" => s \in held /\ soc[s].fd # None

Table == TypeOK /\ Sockets /\ Pending /\ ConnectedIsReal

\* An open slot is a handle's own, or the real one of a handle that has sent
\* its first request.
Owned ==
  \A s \in Slots : soc[s].fd # None =>
    IF s \in held THEN own[soc[s].fd] = s
    ELSE \E h \in held : /\ own[soc[s].fd] = h
                         /\ soc[h].proxy /\ soc[h].realUp /\ soc[h].real = s
                         /\ soc[h].st # "open"

\* A proxied handle that has sent leads to a slot that is no handle's, goes no
\* further and is its own, unless that is closed: its fields are then stale.
Linked ==
  down = "no" => \A h \in held : soc[h].proxy =>
    IF soc[h].realUp
      THEN LET r == soc[h].real IN
           /\ r \in Slots \ held /\ ~soc[r].proxy
           /\ IF soc[r].fd = None THEN worn > 0 ELSE own[soc[r].fd] = h
      ELSE soc[h].st # "open"

\* Without the proxy no slot is proxied.
Direct == world.cmwap => \A s \in Slots : ~soc[s].proxy

\* The only handle is slot 0, and what it leaves there leads to another slot.
Alone ==
  ~world.cmwap /\ world.handles <= 1 =>
    /\ held \subseteq {0}
    /\ \A s \in Slots : soc[s].proxy => s = 0
    /\ 0 \notin held /\ soc[0].proxy => soc[0].realUp /\ soc[0].real \in Slots \ {0}

\* The process only dies of a request that finds the table full.
Lives == down = "no" \/ (down = "stray" /\ (FreeIndexes = {} \/ OpenFds = Fds))

Fit ==
  /\ \A h \in held : soc[h].fd # None
  /\ Owned /\ Linked /\ Direct /\ Alone /\ Lives

IInv == Table /\ (Orderly => Fit /\ TrafficStays)

\* A slot that is still pending is so on the descriptor it had.
Steady == \A s \in Slots : soc'[s].fd = soc[s].fd \/ soc'[s].st # "connecting"

\* Nothing happens to the slots but that connections are made, end or fail.
Alike ==
  \A s \in Slots : /\ soc'[s].fd = soc[s].fd /\ soc'[s].proxy = soc[s].proxy
                   /\ soc'[s].real = soc[s].real /\ soc'[s].realUp = soc[s].realUp
                   /\ soc'[s].st = "open" => soc[s].st = "open"

-----------------------------------------------------------------------------
\* The types, slot by slot.
LEMMA Typed ==
  ASSUME TypeOK
  PROVE  /\ 0 \in Slots /\ Slots \subseteq Nat /\ None \notin Slots /\ None \notin Fds
         /\ soc \in [Slots -> Slot]
         /\ \A s \in Slots : soc[s] \in Slot
         /\ \A s \in Slots : soc[s].fd # None => soc[s].fd \in Fds
         /\ \A d \in Fds : os[d] \in OsStates
         /\ os \in [Fds -> OsStates]
         /\ world \in World /\ worn \in Nat
         /\ held \subseteq Slots
BY NetworkAssumption DEF TypeOK, Slot, Slots, None, World

\* What mr_connect may make of a slot: it keeps its descriptor, waits for or
\* makes no connection without one, and is only reported as connected when it
\* is, or when it goes through the proxy.
LEMMA Outcomes ==
  ASSUME NEW slot \in Slot, NEW o \in OsStates,
         NEW gateway \in BOOLEAN, NEW block \in BOOLEAN,
         NEW c \in ConnectOutcomes(slot, o, gateway, block)
  PROVE  /\ c.slot \in Slot /\ c.os \in OsStates /\ (c.os = "none" <=> o = "none")
         /\ c.slot.fd = slot.fd /\ c.slot.real = slot.real /\ c.slot.st # "open"
         /\ \/ c.slot.proxy = slot.proxy /\ c.slot.realUp = slot.realUp
            \/ NeedsProxy(gateway) /\ c.slot.proxy /\ ~c.slot.realUp
         /\ o = "none" => c.slot.st = "err"
         /\ c.slot.st = "connected" /\ ~c.slot.proxy => c.os \in {"up", "gone"}
<1> DEFINE now == ConnectResults(o)
<1>1. /\ Up(slot) \in Slot /\ Failed(slot) \in Slot
      /\ [slot EXCEPT !.st = "connecting"] \in Slot
      /\ [Up(slot) EXCEPT !.proxy = TRUE, !.realUp = FALSE] \in Slot
      /\ Failed(Up(slot)) \in Slot
  BY DEF Slot, Up, Failed, SlotStates
<1>2. /\ Up(slot).fd = slot.fd /\ Up(slot).real = slot.real /\ Up(slot).st = "connected"
      /\ Up(slot).proxy = slot.proxy /\ Up(slot).realUp = slot.realUp
      /\ Failed(slot).fd = slot.fd /\ Failed(slot).real = slot.real /\ Failed(slot).st = "err"
      /\ Failed(slot).proxy = slot.proxy /\ Failed(slot).realUp = slot.realUp
      /\ Failed(Up(slot)).fd = slot.fd /\ Failed(Up(slot)).real = slot.real
      /\ Failed(Up(slot)).st = "err"
      /\ Failed(Up(slot)).proxy = slot.proxy /\ Failed(Up(slot)).realUp = slot.realUp
  BY DEF Slot, Up, Failed, SlotStates
<1>3. CASE c = [slot |-> Up(slot), os |-> "up"] /\ "up" \in now
  BY <1>1, <1>2, <1>3 DEF OsStates, ConnectResults
<1>4. CASE c = [slot |-> Failed(slot), os |-> IF o = "fresh" THEN "refused" ELSE o]
  BY <1>1, <1>2, <1>4 DEF OsStates
<1>5. CASE /\ NeedsProxy(gateway) /\ "trying" \in now
           /\ c = [slot |-> [Up(slot) EXCEPT !.proxy = TRUE, !.realUp = FALSE], os |-> "trying"]
  BY <1>1, <1>2, <1>5 DEF OsStates, Up, Slot, ConnectResults
<1>6. CASE "trying" \in now /\ \E w \in {"up", "refused"} : c = [slot |-> Blocked(slot, w), os |-> w]
  BY <1>1, <1>2, <1>6 DEF OsStates, Blocked, ConnectResults
<1>7. CASE "trying" \in now /\ c = [slot |-> [slot EXCEPT !.st = "connecting"], os |-> "trying"]
  BY <1>1, <1>7 DEF OsStates, Slot, ConnectResults
<1>8. QED
  BY <1>3, <1>4, <1>5, <1>6, <1>7 DEF ConnectOutcomes

\* The connect of a real connection is not left pending and stays direct.
LEMMA RealOutcomes ==
  ASSUME NEW slot \in Slot, slot.st = "open",
         NEW c \in ConnectOutcomes(slot, "fresh", FALSE, TRUE)
  PROVE  /\ c.slot \in Slot /\ c.os \in OsStates \ {"none"} /\ c.slot.fd = slot.fd
         /\ c.slot.proxy = slot.proxy
         /\ c.slot.st # "connecting" /\ c.slot.st # "open"
         /\ c.slot.st = "connected" /\ ~c.slot.proxy => c.os \in {"up", "gone"}
<1>1. PICK gateway \in BOOLEAN, block \in BOOLEAN :
        gateway = FALSE /\ c \in ConnectOutcomes(slot, "fresh", gateway, block)
  OBVIOUS
<1>2. ~NeedsProxy(gateway) /\ "fresh" \in OsStates
  BY <1>1 DEF NeedsProxy, OsStates
<1>3. /\ c.slot \in Slot /\ c.os \in OsStates \ {"none"} /\ c.slot.fd = slot.fd
      /\ c.slot.proxy = slot.proxy /\ c.slot.st # "open"
      /\ c.slot.st = "connected" /\ ~c.slot.proxy => c.os \in {"up", "gone"}
  BY <1>1, <1>2, Outcomes
<1>4. /\ Up(slot).st = "connected" /\ Failed(slot).st = "err" /\ Failed(Up(slot)).st = "err"
  BY DEF Up, Failed, Slot
<1>5. \A w : Blocked(slot, w).st # "connecting"
  BY <1>4 DEF Blocked
<1>6. c.slot.st # "connecting"
  BY <1>4, <1>5 DEF ConnectOutcomes, NeedsProxy
<1>7. QED
  BY <1>3, <1>6

-----------------------------------------------------------------------------
\* What Table needs of a step that moves no descriptor: the connections that
\* are newly pending or made.
LEMMA TableKept ==
  ASSUME Table, UNCHANGED <<world, held>>,
         soc' \in [Slots -> Slot], os' \in [Fds -> OsStates],
         own' \in [Fds -> Slots \cup {None}],
         down' \in {"no", "endless", "stray"}, worn' \in 0 .. MaxWorn,
         last' \in [handle: Slots \cup {None}, fd: Fds \cup {None}],
         \A s \in Slots : soc'[s].fd = soc[s].fd,
         \A d \in Fds : os'[d] = "none" <=> os[d] = "none",
         \A s \in Slots : soc'[s].st = "connecting" => s \in held /\ soc[s].fd # None,
         ConnectedIsReal'
  PROVE  Table' /\ Steady
<1>1. TypeOK'
  BY DEF Table, TypeOK, Slot
<1>2. Sockets'
  <2>1. OpenFds' = OpenFds
    BY DEF OpenFds
  <2>2. QED
    BY <2>1, Typed DEF Table, Sockets
<1>3. Pending' /\ Steady
  BY DEF Pending, Steady
<1>4. QED
  BY <1>1, <1>2, <1>3 DEF Table

\* What is known of connections is still so when one handle's slot and its
\* descriptor change.
LEMMA OthersReal ==
  ASSUME Table, held' = held, NEW s \in held, NEW o,
         \A t \in Slots \ {s} : soc'[t] = soc[t],
         os' = IF soc[s].fd = None THEN os ELSE [os EXCEPT ![soc[s].fd] = o],
         soc'[s].fd = soc[s].fd,
         soc'[s].st = "connected" /\ ~soc'[s].proxy => soc[s].fd # None /\ o \in {"up", "gone"}
  PROVE  ConnectedIsReal'
<1>1. SUFFICES ASSUME NEW t \in held, soc'[t].st = "connected", ~soc'[t].proxy
               PROVE  OsOf(soc[t].fd)' \in {"up", "gone"}
  BY DEF ConnectedIsReal
<1>2. os \in [Fds -> OsStates] /\ t \in Slots /\ s \in Slots
  BY Typed DEF Table
<1>3. CASE t = s
  <2>1. soc[s].fd \in Fds
    BY <1>1, <1>2, <1>3, Typed DEF Table
  <2>2. os'[soc[s].fd] = o
    BY <1>1, <1>2, <1>3, <2>1
  <2>3. QED
    BY <1>1, <1>3, <2>2 DEF OsOf
<1>4. CASE t # s
  <2>1. soc'[t] = soc[t] /\ OsOf(soc[t].fd) \in {"up", "gone"}
    BY <1>1, <1>2, <1>4 DEF Table, ConnectedIsReal
  <2>2. soc[t].fd # None /\ soc[t].fd \in Fds
    BY <1>2, <2>1, Typed DEF Table, OsOf
  <2>3. soc[t].fd # soc[s].fd
    BY <1>2, <1>4, <2>2 DEF Table, Sockets
  <2>4. os'[soc[t].fd] = os[soc[t].fd]
    BY <1>2, <2>2, <2>3
  <2>5. QED
    BY <2>1, <2>2, <2>4 DEF OsOf
<1>5. QED
  BY <1>3, <1>4

\* Connections are as they were when no slot newly is connected.
LEMMA SameReal ==
  ASSUME Table, held' = held,
         \A t \in Slots : soc'[t].fd = soc[t].fd,
         \A t \in Slots : soc'[t].st = "connected" /\ ~soc'[t].proxy =>
                            soc[t].st = "connected" /\ ~soc[t].proxy,
         \A d \in Fds : os[d] \in {"up", "gone"} => os'[d] \in {"up", "gone"}
  PROVE  ConnectedIsReal'
BY Typed DEF Table, ConnectedIsReal, OsOf

\* A slot is opened on a descriptor that was not.
LEMMA SocketsOpened ==
  ASSUME Table, NEW s \in Slots, NEW d \in Fds, soc[s].fd = None, os[d] = "none",
         soc'[s].fd = d, \A t \in Slots \ {s} : soc'[t].fd = soc[t].fd,
         os'[d] # "none", \A e \in Fds \ {d} : os'[e] = os[e]
  PROVE  /\ Sockets'
         /\ \A t \in Slots : soc[t].fd # d
<1>1. \A t \in Slots : soc[t].fd # None => soc[t].fd \in Fds /\ os[soc[t].fd] # "none"
  BY Typed DEF Table, Sockets
<1>2. d # None
  BY Typed DEF Table
<1>3. \A t \in Slots : soc[t].fd # d
  BY <1>1, <1>2
<1>4. \A t \in Slots : soc'[t].fd # None => os'[soc'[t].fd] # "none"
  BY <1>1, <1>3
<1>5. \A e \in OpenFds' : \E t \in Slots : soc'[t].fd = e
  <2>1. SUFFICES ASSUME NEW e \in Fds, os'[e] # "none"
                 PROVE  \E t \in Slots : soc'[t].fd = e
    BY DEF OpenFds
  <2>2. CASE e = d
    BY <2>2
  <2>3. CASE e # d
    <3>1. PICK t \in Slots : soc[t].fd = e
      BY <2>1, <2>3 DEF Table, Sockets, OpenFds
    <3>2. t # s
      BY <3>1, Typed DEF Table
    <3>3. QED
      BY <3>1, <3>2
  <2>4. QED
    BY <2>2, <2>3
<1>6. \A t, u \in Slots : t # u /\ soc'[t].fd # None => soc'[t].fd # soc'[u].fd
  <2>1. SUFFICES ASSUME NEW t \in Slots, NEW u \in Slots, t # u, soc'[t].fd # None
                 PROVE  soc'[t].fd # soc'[u].fd
    OBVIOUS
  <2>2. CASE t = s
    BY <2>1, <2>2, <1>3
  <2>3. CASE u = s
    BY <2>1, <2>3, <1>3
  <2>4. CASE t # s /\ u # s
    BY <2>1, <2>4 DEF Table, Sockets
  <2>5. QED
    BY <2>2, <2>3, <2>4
<1>7. QED
  BY <1>3, <1>4, <1>5, <1>6 DEF Sockets

-----------------------------------------------------------------------------
\* The table of every application, call by call.
LEMMA InitTable ==
  ASSUME ~ReInits, Table, InitNetwork, UNCHANGED world
  PROVE  /\ Table' /\ Steady
         /\ soc' = soc /\ \A s \in Slots : soc[s].fd = None
<1>1. \A s \in Slots : soc[s].fd = None
  BY DEF InitNetwork, FdsOf
<1>2. \A s \in Slots : [soc[s] EXCEPT !.fd = None] = soc[s]
  BY <1>1, Typed DEF Table, Slot
<1>3. soc' = soc
  BY <1>2, Typed DEF Table, InitNetwork
<1>4. held' = {} /\ os' = os /\ own' \in [Fds -> Slots \cup {None}] /\ UNCHANGED <<down, worn>>
      /\ last' = Quiet
  BY DEF InitNetwork
<1>5. TypeOK'
  BY <1>3, <1>4 DEF Table, TypeOK, Quiet
<1>6. Sockets' /\ ConnectedIsReal' /\ Pending' /\ Steady
  BY <1>1, <1>3, <1>4 DEF Table, Sockets, OpenFds, Pending, ConnectedIsReal, Steady
<1>7. QED
  BY <1>1, <1>3, <1>5, <1>6 DEF Table

\* Slots and their descriptors are closed together.
LEMMA ClosedTable ==
  ASSUME Table, NEW S, S \subseteq Slots, UNCHANGED <<world, down, worn>>,
         soc' = Closed(S),
         os' = [d \in Fds |-> IF d \in FdsOf(S) THEN "none" ELSE os[d]],
         own' \in [Fds -> Slots \cup {None}],
         held' \subseteq held, \A t \in held \ held' : t \in S \/ soc[t].fd = None,
         last' = Quiet
  PROVE  /\ Table' /\ Steady
         /\ \A t \in S : soc'[t].fd = None
         /\ \A t \in Slots \ S : soc'[t] = soc[t]
         /\ \A t \in Slots : /\ soc'[t].proxy = soc[t].proxy /\ soc'[t].real = soc[t].real
                             /\ soc'[t].realUp = soc[t].realUp
         /\ \A t \in Slots \ S : soc[t].fd # None => soc[t].fd \in Fds \ FdsOf(S)
<1>1. /\ soc' \in [Slots -> Slot]
      /\ \A t \in S : soc'[t].fd = None /\ soc'[t].st = "close"
      /\ \A t \in Slots \ S : soc'[t] = soc[t]
      /\ \A t \in Slots : /\ soc'[t].proxy = soc[t].proxy /\ soc'[t].real = soc[t].real
                          /\ soc'[t].realUp = soc[t].realUp
  <2>1. \A t \in Slots : soc[t] \in Slot
    BY Typed DEF Table
  <2>2. QED
    BY <2>1, ZenonT(40) DEF Closed, Slot, SlotStates
<1>2. \A t \in Slots \ S : soc[t].fd # None => soc[t].fd \in Fds \ FdsOf(S)
  BY Typed DEF Table, Sockets, FdsOf
<1>3. \A t \in Slots \ S : soc[t].fd # None => os'[soc[t].fd] = os[soc[t].fd]
  BY <1>2
<1>4. TypeOK'
  BY <1>1 DEF Table, TypeOK, Slot, OsStates, Quiet
<1>5. Sockets'
  <2>1. \A t \in Slots : soc'[t].fd # None => os'[soc'[t].fd] # "none"
    BY <1>1, <1>3 DEF Table, Sockets
  <2>2. \A d \in OpenFds' : \E t \in Slots : soc'[t].fd = d
    <3>1. SUFFICES ASSUME NEW d \in Fds, os'[d] # "none"
                   PROVE  \E t \in Slots : soc'[t].fd = d
      BY DEF OpenFds
    <3>2. d \notin FdsOf(S) /\ os[d] # "none"
      BY <3>1
    <3>3. PICK t \in Slots : soc[t].fd = d
      BY <3>2 DEF Table, Sockets, OpenFds
    <3>4. t \notin S
      BY <3>2, <3>3, Typed DEF FdsOf, Table
    <3>5. QED
      BY <1>1, <3>3, <3>4
  <2>3. \A t, u \in Slots : t # u /\ soc'[t].fd # None => soc'[t].fd # soc'[u].fd
    BY <1>1 DEF Table, Sockets
  <2>4. QED
    BY <2>1, <2>2, <2>3 DEF Sockets
<1>6. Pending' /\ Steady
  BY <1>1 DEF Table, Pending, Steady
<1>7. ConnectedIsReal'
  <2>1. SUFFICES ASSUME NEW t \in held', soc'[t].st = "connected", ~soc'[t].proxy
                 PROVE  OsOf(soc[t].fd)' \in {"up", "gone"}
    BY DEF ConnectedIsReal
  <2>2. t \in held /\ t \in Slots
    BY Typed DEF Table
  <2>3. t \notin S /\ soc'[t] = soc[t]
    BY <1>1, <2>1, <2>2
  <2>4. OsOf(soc[t].fd) \in {"up", "gone"}
    BY <2>1, <2>2, <2>3 DEF Table, ConnectedIsReal
  <2>5. soc[t].fd # None
    BY <2>4 DEF OsOf
  <2>6. QED
    BY <1>3, <2>2, <2>3, <2>4, <2>5 DEF OsOf
<1>8. QED
  BY <1>1, <1>2, <1>4, <1>5, <1>6, <1>7 DEF Table

LEMMA CloseNetworkTable ==
  ASSUME Table, CloseNetwork, UNCHANGED world
  PROVE  /\ Table' /\ Steady
         /\ \A t \in Slots : /\ soc'[t].fd = None
                             /\ soc'[t].proxy = soc[t].proxy /\ soc'[t].real = soc[t].real
                             /\ soc'[t].realUp = soc[t].realUp
<1>1. /\ soc' = Closed(Slots) /\ UNCHANGED <<down, worn>>
      /\ os' = [d \in Fds |-> IF d \in FdsOf(Slots) THEN "none" ELSE os[d]]
      /\ own' \in [Fds -> Slots \cup {None}]
      /\ held' = {} /\ last' = Quiet
  BY DEF CloseNetwork
<1>2. held' \subseteq held /\ \A t \in held \ held' : t \in Slots \/ soc[t].fd = None
  BY <1>1, Typed DEF Table
<1>3. QED
  BY <1>1, <1>2, ClosedTable

\* A socket is opened in slot s on the descriptor d.
LEMMA SocketTable ==
  ASSUME Table, NEW type \in {"stream", "dgram"}, UNCHANGED <<world, down>>, last' = Quiet,
         NEW s \in Slots, NEW d \in Fds, FirstFree(s), Lowest(d),
         soc' = [soc EXCEPT ![s] = Opened(soc[s], d, type)],
         os' = [os EXCEPT ![d] = IF type = "dgram" THEN "udp" ELSE "fresh"],
         own' = [own EXCEPT ![d] = s],
         held' = held \cup {s}, Wear(s)
  PROVE  /\ Table' /\ Steady
         /\ soc[s].fd = None /\ soc'[s].fd = d /\ soc'[s].st = "open"
         /\ soc'[s].proxy = soc[s].proxy /\ soc'[s].real = soc[s].real
         /\ soc'[s].realUp = soc[s].realUp
         /\ \A t \in Slots \ {s} : soc'[t] = soc[t]
         /\ \A t \in Slots : soc[t].fd # d
<1>1. soc[s].fd = None /\ os[d] = "none"
  BY DEF FirstFree, FreeIndexes, Lowest, OpenFds
<1>2. /\ soc' \in [Slots -> Slot]
      /\ soc'[s].fd = d /\ soc'[s].proxy = soc[s].proxy /\ soc'[s].real = soc[s].real
      /\ soc'[s].realUp = soc[s].realUp /\ soc'[s].st = "open"
      /\ \A t \in Slots \ {s} : soc'[t] = soc[t]
  <2>1. soc[s] \in Slot /\ (type = "dgram") \in BOOLEAN
    BY Typed DEF Table
  <2>2. /\ Opened(soc[s], d, type) \in Slot
        /\ Opened(soc[s], d, type).fd = d /\ Opened(soc[s], d, type).st = "open"
        /\ Opened(soc[s], d, type).proxy = soc[s].proxy
        /\ Opened(soc[s], d, type).real = soc[s].real
        /\ Opened(soc[s], d, type).realUp = soc[s].realUp
    BY <2>1 DEF Opened, Slot, SlotStates
  <2>3. QED
    BY <2>2, Typed DEF Table
<1>3. /\ os' \in [Fds -> OsStates] /\ os'[d] # "none" /\ \A e \in Fds \ {d} : os'[e] = os[e]
      /\ own' \in [Fds -> Slots \cup {None}]
  BY DEF Table, TypeOK, OsStates
<1>4. worn' \in 0 .. MaxWorn
  BY NetworkAssumption DEF Wear, Table, TypeOK
<1>5. TypeOK'
  BY <1>2, <1>3, <1>4 DEF Table, TypeOK, Slot, Quiet
<1>6. Sockets' /\ \A t \in Slots : soc[t].fd # d
  BY <1>1, <1>2, <1>3, SocketsOpened
<1>7. Pending' /\ Steady
  BY <1>1, <1>2 DEF Table, Pending, Steady
<1>8. ConnectedIsReal'
  <2>1. SUFFICES ASSUME NEW t \in held', soc'[t].st = "connected", ~soc'[t].proxy
                 PROVE  OsOf(soc[t].fd)' \in {"up", "gone"}
    BY DEF ConnectedIsReal
  <2>2. t # s /\ t \in held /\ t \in Slots /\ soc'[t] = soc[t]
    BY <1>2, <2>1, Typed DEF Table
  <2>3. OsOf(soc[t].fd) \in {"up", "gone"}
    BY <2>1, <2>2 DEF Table, ConnectedIsReal
  <2>4. soc[t].fd # d /\ soc[t].fd # None /\ soc[t].fd \in Fds
    BY <1>6, <2>2, <2>3, Typed DEF Table, OsOf
  <2>5. QED
    BY <1>3, <2>2, <2>3, <2>4 DEF OsOf
<1>9. QED
  BY <1>1, <1>2, <1>5, <1>6, <1>7, <1>8 DEF Table

\* What mr_connect, done to the handle s, may leave.
LEMMA ConnectTable ==
  ASSUME Table, NEW s, NEW gateway \in BOOLEAN, NEW block \in BOOLEAN,
         Connect(s, gateway, block), UNCHANGED world
  PROVE  /\ Table' /\ Steady
         /\ \A d \in Fds : os'[d] = "none" <=> os[d] = "none"
         /\ \A t \in Slots \ {s} : soc'[t] = soc[t]
         /\ soc'[s].fd = soc[s].fd /\ soc'[s].real = soc[s].real /\ soc'[s].st # "open"
         /\ \/ soc'[s].proxy = soc[s].proxy /\ soc'[s].realUp = soc[s].realUp
            \/ ~world.cmwap /\ soc'[s].proxy /\ ~soc'[s].realUp
<1> DEFINE d == soc[s].fd
<1>1. /\ s \in held /\ last' = Quiet /\ UNCHANGED <<own, held, down, worn>>
      /\ s \in Slots /\ soc[s] \in Slot /\ os \in [Fds -> OsStates]
      /\ d \in Fds \cup {None}
  BY Typed DEF Connect, Table
<1>2. OsOf(d) \in OsStates /\ (OsOf(d) = "none" <=> d = None)
  BY <1>1, Typed DEF Table, Sockets, OsOf, OsStates
<1>3. PICK c \in ConnectOutcomes(soc[s], OsOf(d), gateway, block) :
        /\ soc' = [soc EXCEPT ![s] = c.slot]
        /\ os' = IF d = None THEN os ELSE [os EXCEPT ![d] = c.os]
  BY DEF Connect
<1>4. /\ c.slot \in Slot /\ c.os \in OsStates /\ (c.os = "none" <=> d = None)
      /\ c.slot.fd = d /\ c.slot.real = soc[s].real /\ c.slot.st # "open"
      /\ \/ c.slot.proxy = soc[s].proxy /\ c.slot.realUp = soc[s].realUp
         \/ NeedsProxy(gateway) /\ c.slot.proxy /\ ~c.slot.realUp
      /\ d = None => c.slot.st = "err"
      /\ c.slot.st = "connected" /\ ~c.slot.proxy => c.os \in {"up", "gone"}
  <2> HIDE DEF d
  <2>1. d = soc[s].fd
    BY DEF d
  <2>2. QED
    BY <1>1, <1>2, <1>3, <2>1, Outcomes
<1>5. /\ soc' \in [Slots -> Slot] /\ soc'[s] = c.slot
      /\ \A t \in Slots \ {s} : soc'[t] = soc[t]
  BY <1>1, <1>3, <1>4, Typed DEF Table
<1>6. os' \in [Fds -> OsStates] /\ \A e \in Fds : os'[e] = "none" <=> os[e] = "none"
  <2> HIDE DEF d
  <2>1. d # None => OsOf(d) = os[d]
    BY DEF OsOf
  <2>2. QED
    BY <1>1, <1>2, <1>3, <1>4, <2>1
<1>7. ConnectedIsReal'
  <2>1. held' = held /\ s \in held /\ \A t \in Slots \ {s} : soc'[t] = soc[t]
    BY <1>1, <1>5
  <2>2. /\ os' = IF soc[s].fd = None THEN os ELSE [os EXCEPT ![soc[s].fd] = c.os]
        /\ soc'[s].fd = soc[s].fd
    BY <1>3, <1>4, <1>5
  <2>3. soc'[s].st = "connected" /\ ~soc'[s].proxy => soc[s].fd # None /\ c.os \in {"up", "gone"}
    BY <1>4, <1>5
  <2>4. QED
    BY <2>1, <2>2, <2>3, OthersReal
<1>8. \A t \in Slots : soc'[t].fd = soc[t].fd
  BY <1>4, <1>5
<1>9. \A t \in Slots : soc'[t].st = "connecting" => t \in held /\ soc[t].fd # None
  BY <1>1, <1>4, <1>5 DEF Table, Pending
<1>10. last' \in [handle: Slots \cup {None}, fd: Fds \cup {None}]
  BY <1>1 DEF Quiet
<1>11. Table' /\ Steady
  BY <1>1, <1>5, <1>6, <1>7, <1>8, <1>9, <1>10, TableKept DEF Table, TypeOK
<1>12. QED
  BY <1>4, <1>5, <1>6, <1>11 DEF NeedsProxy

LEMMA PollTable ==
  ASSUME Table, NEW s, GetSocketState(s), UNCHANGED world
  PROVE  Table' /\ Steady /\ Alike
<1> DEFINE d == soc[s].fd
<1>1. /\ s \in held /\ UNCHANGED <<os, own, held, down, worn, last>>
      /\ s \in Slots /\ soc[s] \in Slot /\ d \in Fds \cup {None}
  BY Typed DEF GetSocketState, Table
<1>2. soc[s].st = "connecting" => d # None
  BY <1>1 DEF Table, Pending
<1>3. PICK slot : /\ soc' = [soc EXCEPT ![s] = slot]
                  /\ \/ slot = soc[s]
                     \/ slot = Failed(soc[s])
                     \/ slot = Up(soc[s]) /\ d # None /\ os[d] = "up"
  BY <1>2 DEF GetSocketState
<1>4. /\ slot \in Slot /\ slot.fd = d /\ slot.proxy = soc[s].proxy
      /\ slot.real = soc[s].real /\ slot.realUp = soc[s].realUp
      /\ slot = soc[s] \/ slot.st = "err" \/ (slot.st = "connected" /\ d # None /\ os[d] = "up")
  <2>1. CASE slot = soc[s]
    BY <1>1, <2>1
  <2>2. CASE slot = Failed(soc[s])
    BY <1>1, <2>2 DEF Failed, Slot, SlotStates
  <2>3. CASE slot = Up(soc[s]) /\ d # None /\ os[d] = "up"
    BY <1>1, <2>3 DEF Up, Slot, SlotStates
  <2>4. QED
    BY <1>3, <2>1, <2>2, <2>3
<1>5. /\ soc' \in [Slots -> Slot] /\ soc'[s] = slot
      /\ \A t \in Slots \ {s} : soc'[t] = soc[t]
  BY <1>1, <1>3, <1>4, Typed DEF Table
<1>6. Alike
  BY <1>4, <1>5 DEF Alike
<1>7. ConnectedIsReal'
  <2> HIDE DEF d
  <2>1. slot.st = "connected" /\ ~slot.proxy => d # None /\ os[d] \in {"up", "gone"}
    BY <1>1, <1>4 DEF Table, ConnectedIsReal, OsOf, d
  <2>2. os' = IF d = None THEN os ELSE [os EXCEPT ![d] = os[d]]
    BY <1>1, Typed DEF Table
  <2>3. d = soc[s].fd
    BY DEF d
  <2>4. QED
    BY <1>1, <1>4, <1>5, <2>1, <2>2, <2>3, OthersReal
<1>8. \A t \in Slots : soc'[t].fd = soc[t].fd
  BY <1>6 DEF Alike
<1>9. \A t \in Slots : soc'[t].st = "connecting" => t \in held /\ soc[t].fd # None
  BY <1>4, <1>5 DEF Table, Pending
<1>10. Table' /\ Steady
  BY <1>1, <1>5, <1>7, <1>8, <1>9, TableKept DEF Table, TypeOK
<1>11. QED
  BY <1>6, <1>10

\* A transfer on slot i leaves it as it was or in error.
LEMMA TransferTable ==
  ASSUME Table, NEW s \in Slots, NEW i \in Slots,
         NEW slot \in {StopRecv(soc[i]), StopSend(soc[i]), soc[i]},
         UNCHANGED <<world, os, own, held, down, worn>>,
         soc' = soc \/ soc' = [soc EXCEPT ![i] = slot],
         last' = Quiet \/ last' = [handle |-> s, fd |-> soc[i].fd]
  PROVE  Table' /\ Steady /\ Alike
<1>1. /\ slot \in Slot /\ slot.fd = soc[i].fd /\ slot.proxy = soc[i].proxy
      /\ slot.real = soc[i].real /\ slot.realUp = soc[i].realUp
      /\ slot = soc[i] \/ slot.st = "err"
  <2>1. soc[i] \in Slot
    BY Typed DEF Table
  <2>2. QED
    BY <2>1 DEF StopRecv, StopSend, Slot, SlotStates
<1>2. /\ soc' \in [Slots -> Slot] /\ \A t \in Slots \ {i} : soc'[t] = soc[t]
      /\ soc'[i] \in {soc[i], slot}
  BY <1>1, Typed DEF Table
<1>3. Alike /\ \A t \in Slots : soc'[t].st = soc[t].st \/ soc'[t].st = "err"
  BY <1>1, <1>2 DEF Alike
<1>4. last' \in [handle: Slots \cup {None}, fd: Fds \cup {None}]
  <2>1. soc[i].fd \in Fds \cup {None}
    BY Typed DEF Table
  <2>2. QED
    BY <2>1 DEF Quiet
<1>5. /\ \A t \in Slots : soc'[t].fd = soc[t].fd
      /\ \A t \in Slots : soc'[t].st = "connecting" => t \in held /\ soc[t].fd # None
  BY <1>3 DEF Alike, Table, Pending
<1>6. ConnectedIsReal'
  <2>1. \A t \in Slots : soc'[t].st = "connected" /\ ~soc'[t].proxy =>
                           soc[t].st = "connected" /\ ~soc[t].proxy
    BY <1>3 DEF Alike
  <2>2. QED
    BY <1>5, <2>1, SameReal
<1>7. Table' /\ Steady
  BY <1>2, <1>4, <1>5, <1>6, TableKept DEF Table, TypeOK
<1>8. QED
  BY <1>3, <1>7

\* A step that only ends the process keeps the table.
LEMMA DeathTable ==
  ASSUME Table, UNCHANGED <<world, soc, os, own, held, worn>>,
         down' \in {"no", "endless", "stray"}, last' = Quiet
  PROVE  Table' /\ Steady
<1>1. ConnectedIsReal'
  BY SameReal
<1>2. \A s \in Slots : soc'[s].st = "connecting" => s \in held /\ soc[s].fd # None
  BY DEF Table, Pending
<1>3. last' \in [handle: Slots \cup {None}, fd: Fds \cup {None}] /\ soc' \in [Slots -> Slot]
  BY Typed DEF Quiet, Table
<1>4. QED
  BY <1>1, <1>2, <1>3, TableKept DEF Table, TypeOK

LEMMA NetworkTable ==
  ASSUME Table, NEW d \in Fds, Settle(d) \/ Leave(d), UNCHANGED world
  PROVE  Table' /\ Steady /\ Alike
<1>1. PICK r \in OsStates \ {"none"} :
        /\ os' = [os EXCEPT ![d] = r]
        /\ os[d] = "trying" \/ (os[d] = "up" /\ r = "gone")
  BY DEF Settle, Leave, OsStates
<1>2. UNCHANGED <<soc, own, held, down, worn, last>>
  BY DEF Settle, Leave
<1>3. /\ os' \in [Fds -> OsStates]
      /\ \A e \in Fds : os'[e] = "none" <=> os[e] = "none"
      /\ \A e \in Fds : os[e] \in {"up", "gone"} => os'[e] \in {"up", "gone"}
  BY <1>1, Typed DEF Table
<1>4. Alike
  BY <1>2 DEF Alike
<1>5. ConnectedIsReal'
  BY <1>2, <1>3, SameReal
<1>6. \A s \in Slots : soc'[s].st = "connecting" => s \in held /\ soc[s].fd # None
  BY <1>2 DEF Table, Pending
<1>7. Table' /\ Steady
  BY <1>2, <1>3, <1>5, <1>6, Typed, TableKept DEF Table, TypeOK
<1>8. QED
  BY <1>4, <1>7

\* The first request on the proxied handle s finds no room ...
LEMMA FullTable ==
  ASSUME Table, NEW s \in held, UNCHANGED <<world, os, own, held, worn>>,
         soc' = [soc EXCEPT ![s].real = None, ![s].realUp = TRUE],
         down' = "stray", last' = Quiet
  PROVE  /\ Table' /\ Steady
         /\ \A t \in Slots : soc'[t].fd = soc[t].fd /\ soc'[t].proxy = soc[t].proxy
         /\ \A t \in Slots \ {s} : soc'[t] = soc[t]
<1>1. s \in Slots /\ soc[s] \in Slot
  BY Typed DEF Table
<1>2. /\ soc' \in [Slots -> Slot]
      /\ \A t \in Slots : soc'[t].fd = soc[t].fd /\ soc'[t].proxy = soc[t].proxy /\ soc'[t].st = soc[t].st
      /\ \A t \in Slots \ {s} : soc'[t] = soc[t]
  BY <1>1, Typed DEF Table, Slot
<1>3. ConnectedIsReal'
  BY <1>2, SameReal
<1>4. \A t \in Slots : soc'[t].st = "connecting" => t \in held /\ soc[t].fd # None
  BY <1>2 DEF Table, Pending
<1>5. last' \in [handle: Slots \cup {None}, fd: Fds \cup {None}]
  BY DEF Quiet
<1>6. Table' /\ Steady
  BY <1>2, <1>3, <1>4, <1>5, TableKept DEF Table, TypeOK
<1>7. QED
  BY <1>2, <1>6

\* ... or opens slot i on the descriptor d for the real server.
LEMMA RequestTable ==
  ASSUME Table, NEW s \in held, UNCHANGED <<world, held, down>>,
         NEW i \in Slots, NEW d \in Fds, FirstFree(i), Lowest(d), Wear(i),
         NEW c \in ConnectOutcomes(Opened(soc[i], d, "stream"), "fresh", FALSE, TRUE),
         soc' = [soc EXCEPT ![i] = c.slot, ![s].real = i, ![s].realUp = TRUE],
         os' = [os EXCEPT ![d] = c.os],
         own' = [own EXCEPT ![d] = s],
         last' = IF c.os = "up" THEN [handle |-> s, fd |-> d] ELSE Quiet
  PROVE  /\ Table' /\ Steady
         /\ soc[i].fd = None /\ soc'[i].fd = d /\ soc'[i].proxy = soc[i].proxy
         /\ soc'[s].real = i /\ soc'[s].realUp
         /\ \A t \in Slots \ {i} : /\ soc'[t].fd = soc[t].fd /\ soc'[t].st = soc[t].st
                                   /\ soc'[t].proxy = soc[t].proxy
         /\ \A t \in Slots \ {i, s} : soc'[t] = soc[t]
         /\ \A t \in Slots : soc[t].fd # d
<1>1. soc[i].fd = None /\ os[d] = "none" /\ s \in Slots /\ soc[s] \in Slot /\ soc[i] \in Slot
  BY Typed DEF FirstFree, FreeIndexes, Lowest, OpenFds, Table
<1>2. /\ Opened(soc[i], d, "stream") \in Slot /\ Opened(soc[i], d, "stream").st = "open"
      /\ Opened(soc[i], d, "stream").fd = d
      /\ Opened(soc[i], d, "stream").proxy = soc[i].proxy
  BY <1>1 DEF Opened, Slot, SlotStates
<1>3. /\ c.slot \in Slot /\ c.os \in OsStates \ {"none"} /\ c.slot.fd = d
      /\ c.slot.proxy = soc[i].proxy /\ c.slot.st # "connecting"
      /\ c.slot.st = "connected" /\ ~c.slot.proxy => c.os \in {"up", "gone"}
  BY <1>2, RealOutcomes
<1> DEFINE A == [soc EXCEPT ![i] = c.slot]
<1>4. A \in [Slots -> Slot] /\ A[i] = c.slot /\ \A t \in Slots \ {i} : A[t] = soc[t]
  BY <1>1, <1>3, Typed DEF Table
<1>5. soc' = [A EXCEPT ![s] = [A[s] EXCEPT !.real = i, !.realUp = TRUE]]
  <2> DEFINE B == [A EXCEPT ![s].real = i]
  <2>1. B \in [Slots -> Slot] /\ B[s] = [A[s] EXCEPT !.real = i]
    BY <1>1, <1>4 DEF Slot
  <2>2. soc' = [B EXCEPT ![s].realUp = TRUE]
    OBVIOUS
  <2> HIDE DEF A
  <2>3. QED
    BY <1>1, <1>4, <2>1, <2>2
<1> HIDE DEF A
<1>6. [A[s] EXCEPT !.real = i, !.realUp = TRUE] \in Slot
  BY <1>1, <1>4 DEF Slot
<1>7. soc' \in [Slots -> Slot] /\ \A t \in Slots \ {s} : soc'[t] = A[t]
  BY <1>1, <1>4, <1>5, <1>6, ZenonT(40)
<1>8. /\ soc'[s].real = i /\ soc'[s].realUp
      /\ soc'[s].fd = A[s].fd /\ soc'[s].st = A[s].st /\ soc'[s].proxy = A[s].proxy
  BY <1>1, <1>4, <1>5 DEF Slot
<1>9. /\ soc'[i].fd = d /\ soc'[i].st = c.slot.st /\ soc'[i].proxy = soc[i].proxy
      /\ \A t \in Slots \ {i} : /\ soc'[t].fd = soc[t].fd /\ soc'[t].st = soc[t].st
                                /\ soc'[t].proxy = soc[t].proxy
      /\ \A t \in Slots \ {i, s} : soc'[t] = soc[t]
  <2>1. \A t \in Slots : soc'[t].fd = A[t].fd /\ soc'[t].st = A[t].st /\ soc'[t].proxy = A[t].proxy
    BY <1>7, <1>8
  <2>2. QED
    BY <1>3, <1>4, <1>7, <2>1
<1>10. /\ os' \in [Fds -> OsStates] /\ os'[d] = c.os /\ \A e \in Fds \ {d} : os'[e] = os[e]
       /\ own' \in [Fds -> Slots \cup {None}]
  BY <1>1, <1>3 DEF Table, TypeOK
<1>11. worn' \in 0 .. MaxWorn
  BY NetworkAssumption DEF Wear, Table, TypeOK
<1>12. last' \in [handle: Slots \cup {None}, fd: Fds \cup {None}]
  BY <1>1 DEF Quiet
<1>13. TypeOK'
  BY <1>7, <1>10, <1>11, <1>12 DEF Table, TypeOK, Slot
<1>14. Sockets' /\ \A t \in Slots : soc[t].fd # d
  <2>1. /\ soc'[i].fd = d /\ \A t \in Slots \ {i} : soc'[t].fd = soc[t].fd
        /\ os'[d] # "none" /\ \A e \in Fds \ {d} : os'[e] = os[e]
    BY <1>3, <1>9, <1>10
  <2>2. QED
    BY <1>1, <2>1, SocketsOpened, ZenonT(40)
<1>15. Pending' /\ Steady
  BY <1>1, <1>3, <1>9 DEF Table, Pending, Steady
<1>16. ConnectedIsReal'
  <2>1. SUFFICES ASSUME NEW t \in held, soc'[t].st = "connected", ~soc'[t].proxy
                 PROVE  OsOf(soc[t].fd)' \in {"up", "gone"}
    BY DEF ConnectedIsReal
  <2>2. t \in Slots
    BY Typed DEF Table
  <2>3. CASE t = i
    <3>1. soc'[t].fd = d /\ d # None /\ os'[d] \in {"up", "gone"}
      BY <1>3, <1>9, <1>10, <2>1, <2>3, Typed DEF Table
    <3>2. QED
      BY <3>1 DEF OsOf
  <2>4. CASE t # i
    <3>1. soc'[t].fd = soc[t].fd /\ soc[t].st = "connected" /\ ~soc[t].proxy
      BY <1>9, <2>1, <2>2, <2>4
    <3>2. OsOf(soc[t].fd) \in {"up", "gone"}
      BY <3>1 DEF Table, ConnectedIsReal
    <3>3. soc[t].fd # d /\ soc[t].fd # None /\ soc[t].fd \in Fds
      BY <1>14, <2>2, <3>2, Typed DEF Table, OsOf
    <3>4. QED
      BY <1>10, <3>1, <3>2, <3>3 DEF OsOf
  <2>5. QED
    BY <2>3, <2>4
<1>17. QED
  BY <1>1, <1>8, <1>9, <1>13, <1>14, <1>15, <1>16 DEF Table

-----------------------------------------------------------------------------
\* The sockets of an orderly application's handles, call by call.

\* A real connection that its handle has left behind is one of an application
\* that has no other handle.
LEMMA LeftAlone ==
  ASSUME Table, Orderly, Fit, down = "no",
         NEW h \in held, soc[h].proxy, soc[h].realUp, soc[soc[h].real].fd = None
  PROVE  ~world.cmwap /\ world.handles <= 1 /\ held \subseteq {0}
<1>1. worn > 0 /\ h \in Slots
  BY Typed DEF Table, Fit, Linked
<1>2. ~world.cmwap
  BY <1>1 DEF Fit, Direct
<1>3. QED
  BY <1>1, <1>2 DEF Orderly, Fit, Alone

\* No two handles lead to one slot.
LEMMA RealApart ==
  ASSUME Table, Orderly, Fit, down = "no",
         NEW h \in held, soc[h].proxy, soc[h].realUp,
         NEW g \in held, soc[g].proxy, soc[g].realUp, g # h
  PROVE  soc[g].real # soc[h].real
<1>1. SUFFICES ASSUME soc[g].real = soc[h].real PROVE FALSE
  OBVIOUS
<1>2. CASE soc[soc[h].real].fd = None
  <2>1. held \subseteq {0}
    BY <1>2, LeftAlone
  <2>2. QED
    BY <2>1
<1>3. CASE soc[soc[h].real].fd # None
  BY <1>1, <1>3 DEF Fit, Linked
<1>4. QED
  BY <1>2, <1>3

\* Without a handle no socket is open.
LEMMA NoneOpen ==
  ASSUME Fit, held = {}, NEW s \in Slots
  PROVE  soc[s].fd = None
BY DEF Fit, Owned

LEMMA FitKept ==
  ASSUME Table, Fit, down = "no", Alike, UNCHANGED <<world, own, held, down, worn>>
  PROVE  Fit'
<1>1. held \subseteq Slots /\ 0 \in Slots
  BY Typed DEF Table
<1>2. \A s \in Slots : /\ soc'[s].fd = soc[s].fd /\ soc'[s].proxy = soc[s].proxy
                       /\ soc'[s].real = soc[s].real /\ soc'[s].realUp = soc[s].realUp
                       /\ soc'[s].st = "open" => soc[s].st = "open"
  BY DEF Alike
<1>3. (\A h \in held : soc[h].fd # None)'
  BY <1>1, <1>2 DEF Fit
<1>4. Owned'
  <2>1. SUFFICES ASSUME NEW s \in Slots, soc'[s].fd # None
                 PROVE  IF s \in held THEN own[soc[s].fd] = s
                        ELSE \E h \in held : /\ own[soc[s].fd] = h
                                             /\ soc'[h].proxy /\ soc'[h].realUp
                                             /\ soc'[h].real = s /\ soc'[h].st # "open"
    BY <1>2 DEF Owned
  <2>2. soc[s].fd # None
    BY <1>2, <2>1
  <2>3. CASE s \in held
    BY <2>2, <2>3 DEF Fit, Owned
  <2>4. CASE s \notin held
    <3>1. PICK h \in held : /\ own[soc[s].fd] = h
                            /\ soc[h].proxy /\ soc[h].realUp /\ soc[h].real = s
                            /\ soc[h].st # "open"
      BY <2>2, <2>4 DEF Fit, Owned
    <3>2. QED
      BY <1>1, <1>2, <2>4, <3>1
  <2>5. QED
    BY <2>3, <2>4
<1>5. Linked'
  <2>1. SUFFICES ASSUME NEW h \in held, soc'[h].proxy
                 PROVE  IF soc'[h].realUp
                          THEN LET r == soc'[h].real IN
                               /\ r \in Slots \ held /\ ~soc'[r].proxy
                               /\ IF soc'[r].fd = None THEN worn > 0 ELSE own[soc'[r].fd] = h
                          ELSE soc'[h].st # "open"
    BY DEF Linked
  <2>2. h \in Slots /\ soc[h].proxy
    BY <1>1, <1>2, <2>1
  <2>3. QED
    BY <1>2, <2>2 DEF Fit, Linked
<1>6. Direct'
  BY <1>2 DEF Fit, Direct
<1>7. Alone'
  BY <1>1, <1>2 DEF Fit, Alone
<1>8. QED
  BY <1>3, <1>4, <1>5, <1>6, <1>7 DEF Fit, Lives

\* Everything is closed, the fields of the proxy stay.
LEMMA FitFree ==
  ASSUME Table, Fit, Orderly, down = "no", UNCHANGED <<world, down>>,
         \A s \in held : Ready(s),
         \A s \in Slots : /\ soc'[s].fd = None
                          /\ soc'[s].proxy = soc[s].proxy /\ soc'[s].real = soc[s].real
                          /\ soc'[s].realUp = soc[s].realUp,
         held' = {}
  PROVE  Fit'
<1>1. 0 \in Slots
  BY Typed DEF Table
<1>2. Owned' /\ Linked' /\ Direct'
  BY DEF Fit, Owned, Linked, Direct
<1>3. Alone'
  <2>1. SUFFICES ASSUME ~world.cmwap, world.handles <= 1, soc[0].proxy
                 PROVE  soc[0].realUp /\ soc[0].real \in Slots \ {0}
    BY <1>1 DEF Fit, Alone
  <2>2. CASE 0 \notin held
    BY <2>1, <2>2 DEF Fit, Alone
  <2>3. CASE 0 \in held
    <3>1. soc[0].realUp
      BY <2>1, <2>3 DEF Ready, Orderly
    <3>2. soc[0].real \in Slots \ held
      BY <2>1, <2>3, <3>1 DEF Fit, Linked
    <3>3. QED
      BY <2>3, <3>1, <3>2
  <2>4. QED
    BY <2>2, <2>3
<1>4. QED
  BY <1>2, <1>3 DEF Fit, Lives

\* An application that may open one handle and can open another has none.
LEMMA NoneHeld ==
  ASSUME Table, world.handles <= 1, Cardinality(held) < world.handles
  PROVE  held = {}
<1>1. IsFiniteSet(Slots)
  BY FS_Interval, NetworkAssumption DEF Slots
<1>2. IsFiniteSet(held)
  BY <1>1, FS_Subset, Typed DEF Table
<1>3. Cardinality(held) \in Nat /\ world.handles \in Nat
  BY <1>2, FS_CardinalityType, Typed DEF Table, World
<1>4. QED
  BY <1>2, <1>3, FS_EmptySet

LEMMA FitSocket ==
  ASSUME Table, Fit, Orderly, Orderly', down = "no", UNCHANGED <<world, down>>,
         Cardinality(held) < world.handles,
         NEW s \in Slots, NEW d \in Fds, FirstFree(s), Wear(s),
         soc'[s].fd = d, soc'[s].st = "open",
         soc'[s].proxy = soc[s].proxy, soc'[s].real = soc[s].real,
         soc'[s].realUp = soc[s].realUp,
         \A t \in Slots \ {s} : soc'[t] = soc[t],
         \A t \in Slots : soc[t].fd # d,
         own' = [own EXCEPT ![d] = s], held' = held \cup {s}
  PROVE  Fit'
<1>1. /\ soc[s].fd = None /\ d # None /\ held \subseteq Slots /\ 0 \in Slots /\ worn \in Nat
      /\ \A t \in Slots : t < s => soc[t].fd # None
      /\ \A t \in Slots : soc[t].fd # None => soc[t].fd \in Fds
      /\ Slots \subseteq Nat
  BY Typed DEF FirstFree, FreeIndexes, Table, Slots
<1>2. s \notin held
  BY <1>1 DEF Fit
<1>3. own \in [Fds -> Slots \cup {None}]
  BY DEF Table, TypeOK
<1>4. own'[d] = s /\ \A t \in Slots : soc[t].fd # None => own'[soc[t].fd] = own[soc[t].fd]
  BY <1>1, <1>3
<1>5. world.handles <= 1 => held = {} /\ \A t \in Slots : soc[t].fd = None
  BY NoneHeld, NoneOpen
<1>6. world.handles <= 1 => s = 0
  BY <1>1, <1>5
<1>7. soc[s].proxy => ~world.cmwap /\ world.handles <= 1 /\ worn' > 0
  BY <1>1 DEF Fit, Direct, Wear, Orderly
<1>8. (\A h \in held : soc[h].fd # None)'
  BY <1>1 DEF Fit
<1>9. Owned'
  <2>1. SUFFICES ASSUME NEW t \in Slots, soc'[t].fd # None
                 PROVE  IF t \in held' THEN own'[soc'[t].fd] = t
                        ELSE \E h \in held' : /\ own'[soc'[t].fd] = h
                                              /\ soc'[h].proxy /\ soc'[h].realUp
                                              /\ soc'[h].real = t /\ soc'[h].st # "open"
    BY DEF Owned
  <2>2. CASE t = s
    BY <1>4, <2>2
  <2>3. CASE t # s /\ t \in held
    BY <1>4, <2>1, <2>3 DEF Fit, Owned
  <2>4. CASE t # s /\ t \notin held
    <3>1. soc[t].fd # None /\ own'[soc'[t].fd] = own[soc[t].fd]
      BY <1>4, <2>1, <2>4
    <3>2. PICK h \in held : /\ own[soc[t].fd] = h
                            /\ soc[h].proxy /\ soc[h].realUp /\ soc[h].real = t
                            /\ soc[h].st # "open"
      BY <2>4, <3>1 DEF Fit, Owned
    <3>3. h \in held' /\ soc'[h] = soc[h]
      BY <1>1, <1>2
    <3>4. QED
      BY <2>4, <3>1, <3>2, <3>3
  <2>5. QED
    BY <2>2, <2>3, <2>4
<1>10. Linked'
  <2>1. SUFFICES ASSUME NEW h \in held', soc'[h].proxy
                 PROVE  IF soc'[h].realUp
                          THEN LET r == soc'[h].real IN
                               /\ r \in Slots \ held' /\ ~soc'[r].proxy
                               /\ IF soc'[r].fd = None THEN worn' > 0 ELSE own'[soc'[r].fd] = h
                          ELSE soc'[h].st # "open"
    BY DEF Linked
  <2>2. CASE h = s
    <3>1. ~world.cmwap /\ world.handles <= 1 /\ worn' > 0 /\ s = 0 /\ held = {}
      BY <1>5, <1>6, <1>7, <2>1, <2>2
    <3>2. soc[0].proxy /\ soc[0].realUp /\ soc[0].real \in Slots \ {0}
      BY <2>1, <2>2, <3>1 DEF Fit, Alone
    <3>3. ~soc[soc[0].real].proxy /\ soc[soc[0].real].fd = None
      BY <1>5, <3>1, <3>2 DEF Fit, Alone
    <3>4. soc'[soc[0].real] = soc[soc[0].real] /\ soc'[0].realUp /\ soc'[0].real = soc[0].real
      BY <3>1, <3>2
    <3>5. QED
      BY <2>2, <3>1, <3>2, <3>3, <3>4
  <2>3. CASE h # s
    <3>1. h \in held /\ soc'[h] = soc[h]
      BY <1>1, <2>3
    <3>2. CASE ~soc[h].realUp
      BY <2>1, <3>1, <3>2 DEF Fit, Linked
    <3>3. CASE soc[h].realUp
      <4> DEFINE r == soc[h].real
      <4>1. ~(world.handles <= 1)
        BY <1>5, <3>1
      <4>2. soc[r].fd # None
        BY <2>1, <3>1, <3>3, <4>1, LeftAlone
      <4>3. r \in Slots \ held /\ ~soc[r].proxy /\ own[soc[r].fd] = h
        BY <2>1, <3>1, <3>3, <4>2 DEF Fit, Linked
      <4>4. r # s /\ soc'[r] = soc[r] /\ own'[soc[r].fd] = h
        BY <1>1, <1>4, <4>2, <4>3
      <4>5. QED
        BY <3>1, <3>3, <4>2, <4>3, <4>4
    <3>4. QED
      BY <3>2, <3>3
  <2>4. QED
    BY <2>2, <2>3
<1>11. Direct'
  BY DEF Fit, Direct
<1>12. Alone'
  BY <1>5, <1>6 DEF Fit, Alone
<1>13. QED
  BY <1>8, <1>9, <1>10, <1>11, <1>12 DEF Fit, Lives

\* A connect to the gateway makes a proxied slot of the handle's.
LEMMA FitConnect ==
  ASSUME Table, Fit, Orderly, down = "no", UNCHANGED <<world, own, held, down, worn>>,
         NEW s \in held, world.tidy => soc[s].st = "open",
         \A t \in Slots \ {s} : soc'[t] = soc[t],
         soc'[s].fd = soc[s].fd, soc'[s].st # "open",
         ~world.cmwap, soc'[s].proxy, ~soc'[s].realUp
  PROVE  Fit'
<1>1. s \in Slots /\ held \subseteq Slots /\ soc[s].st = "open"
  BY Typed DEF Table, Orderly
<1>2. (\A h \in held : soc[h].fd # None)'
  BY <1>1 DEF Fit
<1>3. Owned'
  <2>1. SUFFICES ASSUME NEW t \in Slots, soc'[t].fd # None, t \notin held
                 PROVE  \E h \in held : /\ own[soc'[t].fd] = h
                                        /\ soc'[h].proxy /\ soc'[h].realUp
                                        /\ soc'[h].real = t /\ soc'[h].st # "open"
    BY DEF Fit, Owned
  <2>2. soc'[t] = soc[t]
    BY <2>1
  <2>3. PICK h \in held : /\ own[soc[t].fd] = h
                          /\ soc[h].proxy /\ soc[h].realUp /\ soc[h].real = t
                          /\ soc[h].st # "open"
    BY <2>1, <2>2 DEF Fit, Owned
  <2>4. h # s /\ soc'[h] = soc[h]
    BY <1>1, <2>3
  <2>5. QED
    BY <2>2, <2>3, <2>4
<1>4. Linked'
  <2>1. SUFFICES ASSUME NEW h \in held, soc'[h].proxy
                 PROVE  IF soc'[h].realUp
                          THEN LET r == soc'[h].real IN
                               /\ r \in Slots \ held /\ ~soc'[r].proxy
                               /\ IF soc'[r].fd = None THEN worn > 0 ELSE own[soc'[r].fd] = h
                          ELSE soc'[h].st # "open"
    BY DEF Linked
  <2>2. CASE h = s
    BY <2>2
  <2>3. CASE h # s
    <3>1. soc'[h] = soc[h]
      BY <1>1, <2>3
    <3>2. soc[h].realUp => soc[h].real # s /\ soc[h].real \in Slots
      BY <2>1, <3>1 DEF Fit, Linked
    <3>3. QED
      BY <2>1, <3>1, <3>2 DEF Fit, Linked
  <2>4. QED
    BY <2>2, <2>3
<1>5. Direct'
  BY DEF Direct
<1>6. Alone'
  <2>1. world.handles <= 1 => s = 0
    BY DEF Fit, Alone
  <2>2. QED
    BY <1>1, <2>1 DEF Fit, Alone
<1>7. QED
  BY <1>2, <1>3, <1>4, <1>5, <1>6 DEF Fit, Lives

\* What a handle that does not wait for its first request works on.
LEMMA TargetOwn ==
  ASSUME Table, Fit, down = "no", NEW s \in held, soc[s].proxy => soc[s].realUp
  PROVE  /\ Target(s) \in Slots /\ Target(s) # None /\ ~soc[Target(s)].proxy
         /\ soc[Target(s)].fd # None => own[soc[Target(s)].fd] = s
         /\ Target(s) # s => Target(s) \notin held /\ soc[s].proxy /\ soc[s].real = Target(s)
<1>1. s \in Slots /\ None \notin Slots /\ own[soc[s].fd] = s
  BY Typed DEF Table, Fit, Owned
<1>2. CASE ~soc[s].proxy
  BY <1>1, <1>2 DEF Target
<1>3. CASE soc[s].proxy
  BY <1>1, <1>3 DEF Target, Fit, Linked
<1>4. QED
  BY <1>2, <1>3

\* A tidy application has sent before it calls anything else.
LEMMA ReadyUp ==
  ASSUME Table, Fit, Orderly, NEW s \in held, Ready(s)
  PROVE  soc[s].proxy => soc[s].realUp
<1>1. s \in Slots
  BY Typed DEF Table
<1>2. QED
  BY <1>1 DEF Ready, Orderly, Fit, Direct

\* mr_closeSocket of such a handle calls itself at most once: it closes the
\* slot of the handle and the one it is a proxy for.
LEMMA ChainOfTwo ==
  ASSUME NEW s \in Slots, Target(s) \in Slots, ~soc[Target(s)].proxy
  PROVE  Chain(s) = {s, Target(s)}
<1>1. {s, Target(s)} \in SUBSET (Slots \cup {None}) /\ Follows({s, Target(s)})
  BY DEF Follows, Target
<1>2. Chain(s) \subseteq {s, Target(s)}
  BY <1>1 DEF Chain
<1>3. s \in Chain(s)
  BY DEF Chain
<1>4. Target(s) \in Chain(s)
  BY DEF Chain, Follows, Target
<1>5. QED
  BY <1>2, <1>3, <1>4

\* What Owned says of the state after a step.
LEMMA OwnedNext ==
  ASSUME \A t \in Slots : soc'[t].fd # None =>
           IF t \in held' THEN own'[soc'[t].fd] = t
           ELSE \E h \in held' : /\ own'[soc'[t].fd] = h
                                 /\ soc'[h].proxy /\ soc'[h].realUp
                                 /\ soc'[h].real = t /\ soc'[h].st # "open"
  PROVE  Owned'
BY DEF Owned

LEMMA FitClose ==
  ASSUME Table, Fit, Orderly, down = "no", UNCHANGED <<world, down, worn>>,
         NEW s \in held, soc[s].proxy => soc[s].realUp,
         NEW S, S = {s, Target(s)},
         \A t \in S : soc'[t].fd = None,
         \A t \in Slots \ S : soc'[t] = soc[t],
         \A t \in Slots : /\ soc'[t].proxy = soc[t].proxy /\ soc'[t].real = soc[t].real
                          /\ soc'[t].realUp = soc[t].realUp,
         \A t \in Slots \ S : soc[t].fd # None => soc[t].fd \in Fds \ FdsOf(S),
         own' = [d \in Fds |-> IF d \in FdsOf(S) \/ own[d] = s THEN None ELSE own[d]],
         held' = held \ {s}
  PROVE  Fit'
<1>1. /\ s \in Slots /\ held \subseteq Slots /\ 0 \in Slots
      /\ Target(s) \in Slots
      /\ Target(s) # s => Target(s) \notin held /\ soc[s].proxy /\ soc[s].real = Target(s)
  BY Typed, TargetOwn DEF Table
<1>2. \A h \in held' : h \in held /\ h \in Slots \ S /\ soc'[h] = soc[h]
  BY <1>1
<1>3. \A t \in Slots \ S : soc[t].fd # None =>
        own'[soc[t].fd] = IF own[soc[t].fd] = s THEN None ELSE own[soc[t].fd]
  OBVIOUS
<1>4. (\A h \in held : soc[h].fd # None)'
  BY <1>2 DEF Fit
<1>5. Owned'
  <2>1. SUFFICES ASSUME NEW t \in Slots, soc'[t].fd # None
                 PROVE  IF t \in held' THEN own'[soc'[t].fd] = t
                        ELSE \E h \in held' : /\ own'[soc'[t].fd] = h
                                              /\ soc'[h].proxy /\ soc'[h].realUp
                                              /\ soc'[h].real = t /\ soc'[h].st # "open"
    BY OwnedNext
  <2>2. t \notin S /\ soc'[t] = soc[t] /\ soc[t].fd # None /\ t # s
    BY <2>1
  <2>3. CASE t \in held
    <3>1. own[soc[t].fd] = t
      BY <2>2, <2>3 DEF Fit, Owned
    <3>2. own'[soc[t].fd] = t
      BY <1>3, <2>2, <3>1
    <3>3. QED
      BY <2>2, <2>3, <3>2
  <2>4. CASE t \notin held
    <3>1. PICK h \in held : /\ own[soc[t].fd] = h
                            /\ soc[h].proxy /\ soc[h].realUp /\ soc[h].real = t
                            /\ soc[h].st # "open"
      BY <2>2, <2>4 DEF Fit, Owned
    <3>2. h # s
      BY <2>2, <3>1 DEF Target
    <3>3. h \in held' /\ soc'[h] = soc[h] /\ own'[soc[t].fd] = h
      BY <1>2, <1>3, <2>2, <3>1, <3>2
    <3>4. QED
      BY <2>2, <2>4, <3>1, <3>3
  <2>5. QED
    BY <2>3, <2>4
<1>6. Linked'
  <2>1. SUFFICES ASSUME NEW h \in held', soc'[h].proxy
                 PROVE  IF soc'[h].realUp
                          THEN LET r == soc'[h].real IN
                               /\ r \in Slots \ held' /\ ~soc'[r].proxy
                               /\ IF soc'[r].fd = None THEN worn > 0 ELSE own'[soc'[r].fd] = h
                          ELSE soc'[h].st # "open"
    BY DEF Linked
  <2>2. h \in held /\ h # s /\ soc'[h] = soc[h] /\ soc[h].proxy
    BY <1>2, <2>1
  <2>3. CASE ~soc[h].realUp
    BY <2>2, <2>3 DEF Fit, Linked
  <2>4. CASE soc[h].realUp
    <3> DEFINE r == soc[h].real
    <3>1. /\ r \in Slots \ held /\ ~soc[r].proxy
          /\ IF soc[r].fd = None THEN worn > 0 ELSE own[soc[r].fd] = h
      BY <2>2, <2>4 DEF Fit, Linked
    <3>2. r \notin S
      <4>1. r # s
        BY <3>1
      <4>2. CASE soc[s].proxy
        <5>1. soc[s].real # soc[h].real
          BY <2>2, <2>4, <4>2, RealApart
        <5>2. QED
          BY <4>1, <4>2, <5>1 DEF Target
      <4>3. CASE ~soc[s].proxy
        BY <4>1, <4>3 DEF Target
      <4>4. QED
        BY <4>2, <4>3
    <3>3. soc'[r] = soc[r]
      BY <3>1, <3>2
    <3>4. soc[r].fd # None => own'[soc[r].fd] = h
      BY <1>3, <2>2, <3>1, <3>2
    <3>5. QED
      BY <2>2, <2>4, <3>1, <3>3, <3>4
  <2>5. QED
    BY <2>3, <2>4
<1>7. Direct'
  BY DEF Fit, Direct
<1>8. Alone'
  <2>1. SUFFICES ASSUME ~world.cmwap, world.handles <= 1, 0 \notin held', soc[0].proxy
                 PROVE  soc[0].realUp /\ soc[0].real \in Slots \ {0}
    BY <1>1 DEF Fit, Alone
  <2>2. CASE 0 \notin held
    BY <2>1, <2>2 DEF Fit, Alone
  <2>3. CASE 0 \in held
    <3>1. s = 0
      BY <2>1, <2>3
    <3>2. soc[0].realUp
      BY <2>1, <3>1
    <3>3. soc[0].real \in Slots \ held
      BY <2>1, <2>3, <3>2 DEF Fit, Linked
    <3>4. QED
      BY <2>3, <3>2, <3>3
  <2>4. QED
    BY <2>2, <2>3
<1>9. QED
  BY <1>4, <1>5, <1>6, <1>7, <1>8 DEF Fit, Lives

\* A first request that finds no room.
LEMMA FitFull ==
  ASSUME Table, Fit, NEW s \in held, ~soc[s].realUp, UNCHANGED <<world, own, held, os>>,
         \A t \in Slots : soc'[t].fd = soc[t].fd /\ soc'[t].proxy = soc[t].proxy,
         \A t \in Slots \ {s} : soc'[t] = soc[t],
         FreeIndexes = {} \/ OpenFds = Fds, down' = "stray"
  PROVE  Fit'
<1>1. s \in Slots /\ held \subseteq Slots /\ 0 \in Slots
  BY Typed DEF Table
<1>2. (\A h \in held : soc[h].fd # None)'
  BY <1>1 DEF Fit
<1>3. Owned'
  <2>1. SUFFICES ASSUME NEW t \in Slots, soc'[t].fd # None
                 PROVE  IF t \in held' THEN own'[soc'[t].fd] = t
                        ELSE \E h \in held' : /\ own'[soc'[t].fd] = h
                                              /\ soc'[h].proxy /\ soc'[h].realUp
                                              /\ soc'[h].real = t /\ soc'[h].st # "open"
    BY DEF Owned
  <2>2. soc'[t].fd = soc[t].fd /\ soc[t].fd # None
    BY <2>1
  <2>3. CASE t \in held
    BY <2>2, <2>3 DEF Fit, Owned
  <2>4. CASE t \notin held
    <3>1. PICK h \in held : /\ own[soc[t].fd] = h
                            /\ soc[h].proxy /\ soc[h].realUp /\ soc[h].real = t
                            /\ soc[h].st # "open"
      BY <2>2, <2>4 DEF Fit, Owned
    <3>2. h # s /\ soc'[h] = soc[h]
      BY <1>1, <3>1
    <3>3. QED
      BY <2>2, <2>4, <3>1, <3>2
  <2>5. QED
    BY <2>3, <2>4
<1>4. Linked'
  BY DEF Linked
<1>5. Direct'
  BY DEF Fit, Direct
<1>6. Alone'
  <2>1. SUFFICES ASSUME ~world.cmwap, world.handles <= 1, 0 \notin held, soc'[0].proxy
                 PROVE  soc'[0].realUp /\ soc'[0].real \in Slots \ {0}
    BY DEF Fit, Alone
  <2>2. s # 0 /\ soc'[0] = soc[0]
    BY <1>1, <2>1
  <2>3. QED
    BY <2>1, <2>2 DEF Fit, Alone
<1>7. FreeIndexes' = FreeIndexes /\ OpenFds' = OpenFds
  BY DEF FreeIndexes, OpenFds
<1>8. QED
  BY <1>2, <1>3, <1>4, <1>5, <1>6, <1>7 DEF Fit, Lives

\* A first request that opens slot i.
LEMMA FitRequest ==
  ASSUME Table, Fit, Orderly, Orderly', down = "no", UNCHANGED <<world, held, down>>,
         NEW s \in held, soc[s].proxy, ~soc[s].realUp,
         NEW i \in Slots, NEW d \in Fds, Wear(i),
         soc[i].fd = None, soc'[i].fd = d, soc'[i].proxy = soc[i].proxy,
         soc'[s].real = i, soc'[s].realUp,
         \A t \in Slots \ {i} : /\ soc'[t].fd = soc[t].fd /\ soc'[t].st = soc[t].st
                                /\ soc'[t].proxy = soc[t].proxy,
         \A t \in Slots \ {i, s} : soc'[t] = soc[t],
         \A t \in Slots : soc[t].fd # d,
         own' = [own EXCEPT ![d] = s]
  PROVE  Fit'
<1>1. /\ s \in Slots /\ held \subseteq Slots /\ 0 \in Slots /\ worn \in Nat /\ d # None
      /\ \A t \in Slots : soc[t].fd # None => soc[t].fd \in Fds
  BY Typed DEF Table
<1>2. i \notin held /\ i # s
  BY DEF Fit
<1>3. own'[d] = s /\ \A t \in Slots : soc[t].fd # None => own'[soc[t].fd] = own[soc[t].fd]
  BY <1>1 DEF Table, TypeOK
<1>4. ~soc[i].proxy
  <2>1. SUFFICES ASSUME soc[i].proxy PROVE FALSE
    OBVIOUS
  <2>2. ~world.cmwap /\ world.handles <= 1
    BY <1>1, <2>1 DEF Fit, Direct, Wear, Orderly
  <2>3. i = 0 /\ held \subseteq {0}
    BY <2>1, <2>2 DEF Fit, Alone
  <2>4. QED
    BY <1>2, <2>3
<1>5. soc'[s].st # "open" /\ soc'[s].proxy
  BY <1>1, <1>2 DEF Fit, Linked
<1>6. (\A h \in held : soc[h].fd # None)'
  BY <1>1, <1>2 DEF Fit
<1>7. Owned'
  <2>1. SUFFICES ASSUME NEW t \in Slots, soc'[t].fd # None
                 PROVE  IF t \in held THEN own'[soc'[t].fd] = t
                        ELSE \E h \in held : /\ own'[soc'[t].fd] = h
                                             /\ soc'[h].proxy /\ soc'[h].realUp
                                             /\ soc'[h].real = t /\ soc'[h].st # "open"
    BY DEF Owned
  <2>2. CASE t = i
    BY <1>2, <1>3, <1>5, <2>2
  <2>3. CASE t # i
    <3>1. soc'[t].fd = soc[t].fd /\ soc[t].fd # None /\ own'[soc'[t].fd] = own[soc[t].fd]
      BY <1>3, <2>1, <2>3
    <3>2. CASE t \in held
      BY <3>1, <3>2 DEF Fit, Owned
    <3>3. CASE t \notin held
      <4>1. PICK h \in held : /\ own[soc[t].fd] = h
                              /\ soc[h].proxy /\ soc[h].realUp /\ soc[h].real = t
                              /\ soc[h].st # "open"
        BY <3>1, <3>3 DEF Fit, Owned
      <4>2. h # s /\ h # i /\ soc'[h] = soc[h]
        BY <1>1, <1>2, <4>1
      <4>3. QED
        BY <3>1, <3>3, <4>1, <4>2
    <3>4. QED
      BY <3>2, <3>3
  <2>4. QED
    BY <2>2, <2>3
<1>8. Linked'
  <2>1. SUFFICES ASSUME NEW h \in held, soc'[h].proxy
                 PROVE  IF soc'[h].realUp
                          THEN LET r == soc'[h].real IN
                               /\ r \in Slots \ held /\ ~soc'[r].proxy
                               /\ IF soc'[r].fd = None THEN worn' > 0 ELSE own'[soc'[r].fd] = h
                          ELSE soc'[h].st # "open"
    BY DEF Linked
  <2>2. CASE h = s
    BY <1>1, <1>2, <1>3, <1>4, <2>2
  <2>3. CASE h # s
    <3>1. soc'[h] = soc[h] /\ h \in Slots
      BY <1>1, <1>2, <2>3
    <3>2. CASE ~soc[h].realUp
      BY <2>1, <3>1, <3>2 DEF Fit, Linked
    <3>3. CASE soc[h].realUp
      <4> DEFINE r == soc[h].real
      <4>1. soc[r].fd # None
        <5>1. SUFFICES ASSUME soc[r].fd = None PROVE FALSE
          OBVIOUS
        <5>2. held \subseteq {0}
          BY <2>1, <3>1, <3>3, <5>1, LeftAlone
        <5>3. QED
          BY <2>3, <5>2
      <4>2. r \in Slots \ held /\ ~soc[r].proxy /\ own[soc[r].fd] = h
        BY <2>1, <3>1, <3>3, <4>1 DEF Fit, Linked
      <4>3. r # i /\ r # s /\ soc'[r] = soc[r] /\ own'[soc[r].fd] = h
        BY <1>3, <4>1, <4>2
      <4>4. QED
        BY <3>1, <3>3, <4>1, <4>2, <4>3
    <3>4. QED
      BY <3>2, <3>3
  <2>4. QED
    BY <2>2, <2>3
<1>9. Direct'
  BY DEF Fit, Direct
<1>10. Alone'
  <2>1. SUFFICES ASSUME ~world.cmwap, world.handles <= 1
                 PROVE  /\ held \subseteq {0}
                        /\ \A t \in Slots : soc'[t].proxy => t = 0
                        /\ 0 \notin held /\ soc'[0].proxy => soc'[0].realUp /\ soc'[0].real \in Slots \ {0}
    BY DEF Alone
  <2>2. s = 0 /\ held \subseteq {0}
    BY <2>1 DEF Fit, Alone
  <2>3. \A t \in Slots : soc'[t].proxy => t = 0
    BY <2>1 DEF Fit, Alone
  <2>4. QED
    BY <2>2, <2>3
<1>11. QED
  BY <1>6, <1>7, <1>8, <1>9, <1>10 DEF Fit, Lives

-----------------------------------------------------------------------------
\* Every call keeps the invariant.
LEMMA InitStep ==
  ASSUME ~ReInits, IInv, down = "no", InitNetwork, UNCHANGED world
  PROVE  IInv' /\ Steady
<1>1. /\ Table' /\ Steady /\ soc' = soc /\ \A s \in Slots : soc[s].fd = None
  BY InitTable DEF IInv
<1>2. held' = {} /\ UNCHANGED <<down, worn>> /\ last' = Quiet
  BY DEF InitNetwork
<1>3. Orderly' => Fit'
  <2>1. SUFFICES ASSUME Orderly PROVE Fit'
    BY <1>2 DEF Orderly
  <2>2. \A s \in held : Ready(s)
    BY <1>1, <2>1, Typed DEF IInv, Fit, Table
  <2>3. QED
    BY <1>1, <1>2, <2>1, <2>2, FitFree DEF IInv
<1>4. TrafficStays'
  BY <1>2 DEF TrafficStays, Quiet
<1>5. QED
  BY <1>1, <1>3, <1>4 DEF IInv

LEMMA CloseNetworkStep ==
  ASSUME IInv, down = "no", CloseNetwork, UNCHANGED world
  PROVE  IInv' /\ Steady
<1>1. /\ Table' /\ Steady
      /\ \A t \in Slots : /\ soc'[t].fd = None
                          /\ soc'[t].proxy = soc[t].proxy /\ soc'[t].real = soc[t].real
                          /\ soc'[t].realUp = soc[t].realUp
  BY CloseNetworkTable DEF IInv
<1>2. held' = {} /\ UNCHANGED <<down, worn>> /\ last' = Quiet /\ \A s \in held : Ready(s)
  BY DEF CloseNetwork
<1>3. Orderly' => Fit'
  <2>1. SUFFICES ASSUME Orderly PROVE Fit'
    BY <1>2 DEF Orderly
  <2>2. QED
    BY <1>1, <1>2, <2>1, FitFree DEF IInv
<1>4. TrafficStays'
  BY <1>2 DEF TrafficStays, Quiet
<1>5. QED
  BY <1>1, <1>3, <1>4 DEF IInv

LEMMA SocketStep ==
  ASSUME IInv, down = "no", NEW type \in {"stream", "dgram"}, Socket(type), UNCHANGED world
  PROVE  IInv' /\ Steady
<1>1. PICK s \in Slots, d \in Fds :
        /\ FirstFree(s) /\ Lowest(d)
        /\ soc' = [soc EXCEPT ![s] = Opened(soc[s], d, type)]
        /\ os' = [os EXCEPT ![d] = IF type = "dgram" THEN "udp" ELSE "fresh"]
        /\ own' = [own EXCEPT ![d] = s]
        /\ held' = held \cup {s}
        /\ Wear(s)
  BY DEF Socket
<1>2. last' = Quiet /\ down' = down /\ Cardinality(held) < world.handles
  BY DEF Socket
<1>3. /\ Table' /\ Steady
      /\ soc[s].fd = None /\ soc'[s].fd = d /\ soc'[s].st = "open"
      /\ soc'[s].proxy = soc[s].proxy /\ soc'[s].real = soc[s].real
      /\ soc'[s].realUp = soc[s].realUp
      /\ \A t \in Slots \ {s} : soc'[t] = soc[t]
      /\ \A t \in Slots : soc[t].fd # d
  BY <1>1, <1>2, SocketTable, ZenonT(40) DEF IInv
<1>4. Orderly' => Fit'
  <2>1. SUFFICES ASSUME Orderly' PROVE Fit'
    OBVIOUS
  <2>2. Orderly
    BY <1>1, <2>1, Typed DEF Orderly, Wear, IInv, Table
  <2>3. QED
    BY <1>1, <1>2, <1>3, <2>1, <2>2, FitSocket DEF IInv
<1>5. TrafficStays'
  BY <1>2 DEF TrafficStays, Quiet
<1>6. QED
  BY <1>3, <1>4, <1>5 DEF IInv

LEMMA ConnectStep ==
  ASSUME IInv, down = "no", NEW s, NEW gateway \in BOOLEAN, NEW block \in BOOLEAN,
         Connect(s, gateway, block), UNCHANGED world
  PROVE  IInv' /\ Steady
<1>1. /\ s \in held /\ UNCHANGED <<own, held, down, worn>> /\ last' = Quiet
      /\ world.tidy => soc[s].st = "open"
  BY DEF Connect
<1>2. /\ Table' /\ Steady
      /\ \A t \in Slots \ {s} : soc'[t] = soc[t]
      /\ soc'[s].fd = soc[s].fd /\ soc'[s].real = soc[s].real /\ soc'[s].st # "open"
      /\ \/ soc'[s].proxy = soc[s].proxy /\ soc'[s].realUp = soc[s].realUp
         \/ ~world.cmwap /\ soc'[s].proxy /\ ~soc'[s].realUp
  BY ConnectTable DEF IInv
<1>3. Orderly' => Fit'
  <2>1. SUFFICES ASSUME Orderly PROVE Fit'
    BY <1>1 DEF Orderly
  <2>2. CASE soc'[s].proxy = soc[s].proxy /\ soc'[s].realUp = soc[s].realUp
    <3>1. Alike
      BY <1>2, <2>2 DEF Alike
    <3>2. QED
      BY <1>1, <2>1, <3>1, FitKept DEF IInv
  <2>3. CASE ~world.cmwap /\ soc'[s].proxy /\ ~soc'[s].realUp
    BY <1>1, <1>2, <2>1, <2>3, FitConnect DEF IInv
  <2>4. QED
    BY <1>2, <2>2, <2>3
<1>4. TrafficStays'
  BY <1>1 DEF TrafficStays, Quiet
<1>5. QED
  BY <1>2, <1>3, <1>4 DEF IInv

LEMMA GetSocketStateStep ==
  ASSUME IInv, down = "no", NEW s, GetSocketState(s), UNCHANGED world
  PROVE  IInv' /\ Steady
<1>1. Table' /\ Steady /\ Alike
  BY PollTable DEF IInv
<1>2. UNCHANGED <<own, held, down, worn, last>>
  BY DEF GetSocketState
<1>3. Orderly' => Fit' /\ TrafficStays'
  BY <1>1, <1>2, FitKept DEF IInv, Orderly, TrafficStays
<1>4. QED
  BY <1>1, <1>3 DEF IInv

LEMMA NetworkStep ==
  ASSUME IInv, down = "no", NEW d \in Fds, Settle(d) \/ Leave(d), UNCHANGED world
  PROVE  IInv' /\ Steady
<1>1. Table' /\ Steady /\ Alike
  BY NetworkTable DEF IInv
<1>2. UNCHANGED <<own, held, down, worn, last>>
  BY DEF Settle, Leave
<1>3. Orderly' => Fit' /\ TrafficStays'
  BY <1>1, <1>2, FitKept DEF IInv, Orderly, TrafficStays
<1>4. QED
  BY <1>1, <1>3 DEF IInv

\* A transfer on slot i for the handle s, which i's socket was opened for when
\* the application is orderly.
LEMMA TransferStep ==
  ASSUME IInv, down = "no", NEW s \in held, NEW i \in Slots,
         NEW slot \in {StopRecv(soc[i]), StopSend(soc[i]), soc[i]},
         Orderly => (soc[i].fd # None => own[soc[i].fd] = s),
         UNCHANGED <<world, os, own, held, down, worn>>,
         soc' = soc \/ soc' = [soc EXCEPT ![i] = slot],
         last' = Quiet \/ last' = [handle |-> s, fd |-> soc[i].fd]
  PROVE  IInv' /\ Steady
<1>1. s \in Slots
  BY Typed DEF IInv, Table
<1>2. Table' /\ Steady /\ Alike
  BY <1>1, TransferTable DEF IInv
<1>3. Orderly' => Fit'
  BY <1>2, FitKept DEF IInv, Orderly
<1>4. Orderly' => TrafficStays'
  BY DEF Orderly, TrafficStays, Quiet
<1>5. QED
  BY <1>2, <1>3, <1>4 DEF IInv

\* The process dies of an index outside the table, or of recursion.
LEMMA DeathStep ==
  ASSUME IInv, ~Orderly, UNCHANGED <<world, soc, os, own, held, worn>>,
         down' \in {"no", "endless", "stray"}, last' = Quiet
  PROVE  IInv' /\ Steady
<1>1. Table' /\ Steady
  BY DeathTable DEF IInv
<1>2. ~Orderly'
  BY DEF Orderly
<1>3. QED
  BY <1>1, <1>2 DEF IInv

LEMMA CloseSocketStep ==
  ASSUME IInv, down = "no", NEW s, CloseSocket(s), Ready(s), UNCHANGED world
  PROVE  IInv' /\ Steady
<1>1. s \in held /\ last' = Quiet /\ worn' = worn /\ s \in Slots
  BY Typed DEF CloseSocket, IInv, Table
<1>2. Orderly =>
        /\ soc[s].proxy => soc[s].realUp
        /\ Target(s) \in Slots /\ Target(s) # None /\ ~soc[Target(s)].proxy
        /\ Chain(s) = {s, Target(s)}
  <2>1. SUFFICES ASSUME Orderly
                 PROVE  /\ soc[s].proxy => soc[s].realUp
                        /\ Target(s) \in Slots /\ Target(s) # None /\ ~soc[Target(s)].proxy
                        /\ Chain(s) = {s, Target(s)}
    OBVIOUS
  <2>2. soc[s].proxy => soc[s].realUp
    BY <1>1, <2>1, ReadyUp DEF IInv
  <2>3. Target(s) \in Slots /\ Target(s) # None /\ ~soc[Target(s)].proxy
    BY <1>1, <2>1, <2>2, TargetOwn DEF IInv
  <2>4. QED
    BY <1>1, <2>2, <2>3, ChainOfTwo
<1>3. CASE Endless(s) \/ None \in Chain(s)
  <2>1. ~Orderly
    BY <1>1, <1>2, <1>3, Typed DEF Endless, IInv, Table
  <2>2. UNCHANGED <<soc, os, own, held>> /\ down' \in {"no", "endless", "stray"}
    BY <1>3 DEF CloseSocket
  <2>3. QED
    BY <1>1, <2>1, <2>2, DeathStep
<1>4. CASE ~Endless(s) /\ None \notin Chain(s)
  <2> DEFINE S == Chain(s) \ FreeIndexes
  <2>1. /\ soc' = Closed(S)
        /\ os' = [d \in Fds |-> IF d \in FdsOf(Chain(s)) THEN "none" ELSE os[d]]
        /\ own' = [d \in Fds |-> IF d \in FdsOf(Chain(s)) \/ own[d] = s THEN None ELSE own[d]]
        /\ held' = held \ {s}
        /\ down' = down
    BY <1>4 DEF CloseSocket
  <2>2. /\ S \subseteq Slots /\ Chain(s) \subseteq Slots /\ s \in Chain(s)
        /\ S \subseteq Chain(s) /\ \A t \in Chain(s) \ S : soc[t].fd = None
    BY <1>1, <1>4 DEF Chain, FreeIndexes
  <2> HIDE DEF S
  <2>3. FdsOf(S) = FdsOf(Chain(s))
    BY <2>2 DEF FdsOf
  <2>4. own' \in [Fds -> Slots \cup {None}]
    BY <2>1 DEF IInv, Table, TypeOK
  <2>5. held' \subseteq held /\ \A t \in held \ held' : t \in S \/ soc[t].fd = None
    BY <2>1, <2>2
  <2>6. /\ Table' /\ Steady
        /\ \A t \in S : soc'[t].fd = None
        /\ \A t \in Slots \ S : soc'[t] = soc[t]
        /\ \A t \in Slots : /\ soc'[t].proxy = soc[t].proxy /\ soc'[t].real = soc[t].real
                            /\ soc'[t].realUp = soc[t].realUp
        /\ \A t \in Slots \ S : soc[t].fd # None => soc[t].fd \in Fds \ FdsOf(S)
    BY <1>1, <2>1, <2>2, <2>3, <2>4, <2>5, ClosedTable DEF IInv
  <2>7. Orderly' => Fit'
    <3>1. SUFFICES ASSUME Orderly PROVE Fit'
      BY <1>1 DEF Orderly
    <3>2. Chain(s) = {s, Target(s)} /\ (soc[s].proxy => soc[s].realUp)
      BY <1>2, <3>1
    <3>3. /\ \A t \in Chain(s) : soc'[t].fd = None
          /\ \A t \in Slots \ Chain(s) : soc'[t] = soc[t]
          /\ \A t \in Slots \ Chain(s) : soc[t].fd # None => soc[t].fd \in Fds \ FdsOf(Chain(s))
      BY <2>2, <2>3, <2>6
    <3>4. QED
      BY <1>1, <2>1, <2>6, <3>1, <3>2, <3>3, FitClose DEF IInv
  <2>8. TrafficStays'
    BY <1>1 DEF TrafficStays, Quiet
  <2>9. QED
    BY <2>6, <2>7, <2>8 DEF IInv
<1>5. QED
  BY <1>3, <1>4

\* mr_recv and mr_send, on the slot of the handle or on the real one.
LEMMA TargetStep ==
  ASSUME IInv, down = "no", NEW s \in held, Orderly => (soc[s].proxy => soc[s].realUp),
         UNCHANGED <<world, os, own, held, worn>>,
         NEW slot \in {StopRecv(soc[Target(s)]), StopSend(soc[Target(s)])},
         IF Target(s) = None THEN Stray
         ELSE /\ down' = down
              /\ soc' = soc \/ soc' = [soc EXCEPT ![Target(s)] = slot]
              /\ last' = Quiet \/ last' = [handle |-> s, fd |-> soc[Target(s)].fd]
  PROVE  IInv' /\ Steady
<1>1. s \in Slots /\ Target(s) \in Slots \cup {None}
  BY Typed DEF IInv, Table, Slot, Target
<1>2. Orderly => Target(s) # None /\ (soc[Target(s)].fd # None => own[soc[Target(s)].fd] = s)
  BY TargetOwn DEF IInv
<1>3. CASE Target(s) = None
  BY <1>2, <1>3, DeathStep DEF Stray
<1>4. CASE Target(s) # None
  BY <1>1, <1>2, <1>4, TransferStep
<1>5. QED
  BY <1>3, <1>4

LEMMA RecvStep ==
  ASSUME IInv, down = "no", NEW s, Recv(s), Ready(s), UNCHANGED world
  PROVE  IInv' /\ Steady
<1>1. s \in held /\ UNCHANGED <<os, own, held, worn>>
  BY DEF Recv
<1>2. Orderly => (soc[s].proxy => soc[s].realUp)
  BY <1>1, ReadyUp DEF IInv
<1>3. IF Target(s) = None THEN Stray
      ELSE /\ down' = down
           /\ soc' = soc \/ soc' = [soc EXCEPT ![Target(s)] = StopRecv(soc[Target(s)])]
           /\ last' = Quiet \/ last' = [handle |-> s, fd |-> soc[Target(s)].fd]
  BY DEF Recv, Transfer
<1>4. QED
  BY <1>1, <1>2, <1>3, TargetStep

LEMMA SendStep ==
  ASSUME IInv, down = "no", NEW s, Send(s), UNCHANGED world
  PROVE  IInv' /\ Steady
<1>1. s \in held /\ UNCHANGED <<os, own, held, worn>> /\ (soc[s].proxy => soc[s].realUp)
  BY DEF Send
<1>2. IF Target(s) = None THEN Stray
      ELSE /\ down' = down
           /\ soc' = soc \/ soc' = [soc EXCEPT ![Target(s)] = StopSend(soc[Target(s)])]
           /\ last' = Quiet \/ last' = [handle |-> s, fd |-> soc[Target(s)].fd]
  BY DEF Send, Transfer
<1>3. QED
  BY <1>1, <1>2, TargetStep

\* mr_recvfrom and mr_sendto, never through the proxy.
LEMMA DatagramStep ==
  ASSUME IInv, down = "no", NEW s, RecvFrom(s) \/ SendTo(s), UNCHANGED world
  PROVE  IInv' /\ Steady
<1>1. s \in held /\ s \in Slots /\ UNCHANGED <<os, own, held, worn>>
  BY Typed DEF RecvFrom, SendTo, IInv, Table
<1>2. PICK slot \in {StopSend(soc[s]), soc[s]} :
        /\ down' = down
        /\ soc' = soc \/ soc' = [soc EXCEPT ![s] = slot]
        /\ last' = Quiet \/ last' = [handle |-> s, fd |-> soc[s].fd]
  BY DEF RecvFrom, SendTo, Transfer, StopNot
<1>3. Orderly => (soc[s].fd # None => own[soc[s].fd] = s)
  BY <1>1 DEF IInv, Fit, Owned
<1>4. QED
  BY <1>1, <1>2, <1>3, TransferStep

LEMMA SendFirstStep ==
  ASSUME IInv, down = "no", NEW s, SendFirst(s), UNCHANGED world
  PROVE  IInv' /\ Steady
<1>1. s \in held /\ soc[s].proxy /\ ~soc[s].realUp /\ held' = held
  BY DEF SendFirst
<1>2. CASE /\ FreeIndexes = {} \/ OpenFds = Fds
           /\ soc' = [soc EXCEPT ![s].real = None, ![s].realUp = TRUE]
           /\ down' = "stray" /\ last' = Quiet
           /\ UNCHANGED <<os, own, worn>>
  <2>1. /\ Table' /\ Steady
        /\ \A t \in Slots : soc'[t].fd = soc[t].fd /\ soc'[t].proxy = soc[t].proxy
        /\ \A t \in Slots \ {s} : soc'[t] = soc[t]
    BY <1>1, <1>2, FullTable DEF IInv
  <2>2. Orderly' => Fit'
    BY <1>1, <1>2, <2>1, FitFull DEF IInv, Orderly
  <2>3. TrafficStays'
    BY <1>2 DEF TrafficStays, Quiet
  <2>4. QED
    BY <2>1, <2>2, <2>3 DEF IInv
<1>3. ASSUME NEW i \in Slots, NEW d \in Fds, FirstFree(i), Lowest(d), Wear(i),
             NEW c \in ConnectOutcomes(Opened(soc[i], d, "stream"), "fresh", FALSE, TRUE),
             soc' = [soc EXCEPT ![i] = c.slot, ![s].real = i, ![s].realUp = TRUE],
             os' = [os EXCEPT ![d] = c.os],
             own' = [own EXCEPT ![d] = s],
             last' = IF c.os = "up" THEN [handle |-> s, fd |-> d] ELSE Quiet,
             down' = down
      PROVE  IInv' /\ Steady
  <2>1. /\ Table' /\ Steady
        /\ soc[i].fd = None /\ soc'[i].fd = d /\ soc'[i].proxy = soc[i].proxy
        /\ soc'[s].real = i /\ soc'[s].realUp
        /\ \A t \in Slots \ {i} : /\ soc'[t].fd = soc[t].fd /\ soc'[t].st = soc[t].st
                                  /\ soc'[t].proxy = soc[t].proxy
        /\ \A t \in Slots \ {i, s} : soc'[t] = soc[t]
        /\ \A t \in Slots : soc[t].fd # d
    <3>1. Table /\ s \in held /\ UNCHANGED <<world, held, down>>
      BY <1>1, <1>3 DEF IInv
    <3>2. QED
      BY <1>3, <3>1, RequestTable, Zenon
  <2>2. Orderly' => Fit'
    <3>1. SUFFICES ASSUME Orderly' PROVE Fit'
      OBVIOUS
    <3>2. Orderly
      BY <1>3, <3>1, Typed DEF Orderly, Wear, IInv, Table
    <3>3. QED
      BY <1>1, <1>3, <2>1, <3>1, <3>2, FitRequest DEF IInv
  <2>3. TrafficStays'
    <3>1. own'[d] = s
      BY <1>3 DEF IInv, Table, TypeOK
    <3>2. QED
      BY <1>3, <3>1 DEF TrafficStays, Quiet
  <2>4. QED
    BY <2>1, <2>2, <2>3 DEF IInv
<1>4. QED
  BY <1>2, <1>3 DEF SendFirst

-----------------------------------------------------------------------------
LEMMA CallStep ==
  ASSUME IInv, down = "no", NEW s \in Slots, Call(s), UNCHANGED world
  PROVE  IInv' /\ Steady
<1>1. CASE GetSocketState(s)
  BY <1>1, GetSocketStateStep
<1>2. CASE SendFirst(s)
  BY <1>2, SendFirstStep
<1>3. CASE \E gateway, block \in BOOLEAN : Connect(s, gateway, block)
  BY <1>3, ConnectStep
<1>4. CASE Ready(s) /\ CloseSocket(s)
  BY <1>4, CloseSocketStep
<1>5. CASE Ready(s) /\ Recv(s)
  BY <1>5, RecvStep
<1>6. CASE Send(s)
  BY <1>6, SendStep
<1>7. CASE RecvFrom(s) \/ SendTo(s)
  BY <1>7, DatagramStep
<1>8. QED
  BY <1>1, <1>2, <1>3, <1>4, <1>5, <1>6, <1>7 DEF Call

LEMMA InitInvariant ==
  ASSUME Init
  PROVE  IInv
<1>1. 0 \in Slots
  BY NetworkAssumption DEF Slots
<1>2. TypeOK
  BY <1>1, NetworkAssumption DEF Init, TypeOK, FreeSlot, SlotStates, OsStates, Quiet
<1>3. Sockets /\ Pending /\ ConnectedIsReal /\ TrafficStays
  BY DEF Init, Sockets, Pending, ConnectedIsReal, TrafficStays, FreeSlot, Quiet, OpenFds
<1>4. Fit
  BY <1>1 DEF Init, Fit, Owned, Linked, Direct, Alone, Lives, FreeSlot
<1>5. QED
  BY <1>2, <1>3, <1>4 DEF IInv, Table

LEMMA StepInvariant ==
  ASSUME ~ReInits, IInv, [Next]_vars
  PROVE  IInv' /\ Steady
<1>1. CASE UNCHANGED vars
  <2>1. UNCHANGED <<world, soc, os, own, held, down, worn, last>>
    BY <1>1 DEF vars
  <2>2. Table' /\ Orderly' = Orderly /\ TrafficStays' = TrafficStays
    BY <2>1 DEF IInv, Table, TypeOK, Sockets, OpenFds, Pending, ConnectedIsReal, OsOf,
                Orderly, TrafficStays
  <2>3. Fit' = Fit
    BY <2>1 DEF Fit, Owned, Linked, Direct, Alone, Lives, FreeIndexes, OpenFds
  <2>4. Steady
    BY <2>1 DEF Steady
  <2>5. QED
    BY <2>2, <2>3, <2>4 DEF IInv
<1>2. CASE down = "no" /\ UNCHANGED world /\ InitNetwork
  BY <1>2, InitStep
<1>3. CASE down = "no" /\ UNCHANGED world /\ CloseNetwork
  BY <1>3, CloseNetworkStep
<1>4. CASE down = "no" /\ UNCHANGED world /\ \E type \in {"stream", "dgram"} : Socket(type)
  BY <1>4, SocketStep
<1>5. CASE down = "no" /\ UNCHANGED world /\ \E s \in Slots : Call(s)
  BY <1>5, CallStep
<1>6. CASE down = "no" /\ UNCHANGED world /\ \E d \in Fds : Settle(d) \/ Leave(d)
  BY <1>6, NetworkStep
<1>7. QED
  BY <1>1, <1>2, <1>3, <1>4, <1>5, <1>6 DEF Next

\* What the following theorems rest on, where mr_initNetwork is only called
\* with no socket open: no sequence of calls, connects that end and peers that
\* leave gets slots and descriptors out of step, and, in an orderly
\* application, handles and their sockets.
THEOREM NetworkInvariance ==
  ASSUME ~ReInits
  PROVE  Spec => []IInv
<1>1. Init => IInv
  BY InitInvariant
<1>2. IInv /\ [Next]_vars => IInv'
  BY StepInvariant
<1>3. QED
  BY <1>1, <1>2, PTL DEF Spec

\* The socket table of network.c and the operating system agree, and the
\* slots of an orderly application's handles keep the sockets mr_socket opened.
THEOREM TableTrue ==
  ASSUME ~ReInits
  PROVE  Spec => []TableIsTrue
<1>1. IInv => TableIsTrue
  <2>1. SUFFICES ASSUME IInv PROVE TableIsTrue
    OBVIOUS
  <2>2. FdsOf(Slots) = OpenFds
    BY <2>1, Typed DEF IInv, Table, Sockets, FdsOf, OpenFds
  <2>3. Orderly => \A s \in held : soc[s].fd # None /\ own[soc[s].fd] = s
    BY <2>1, Typed DEF IInv, Table, Fit, Owned
  <2>4. Orderly /\ down = "stray" => FreeIndexes = {} \/ OpenFds = Fds
    BY <2>1 DEF IInv, Fit, Lives
  <2>5. QED
    BY <2>1, <2>2, <2>3, <2>4 DEF TableIsTrue, IInv, Table, Sockets
<1>2. QED
  BY <1>1, NetworkInvariance, PTL

\* mr_getSocketState reports no pending or refused connect as made.
THEOREM ConnectedReal ==
  ASSUME ~ReInits
  PROVE  Spec => []ConnectedIsReal
<1>1. IInv => ConnectedIsReal
  BY DEF IInv, Table
<1>2. QED
  BY <1>1, NetworkInvariance, PTL

\* mr_send and mr_recv of an orderly application only use a socket opened for
\* their handle, through however many stale fields of the proxy.
THEOREM TrafficOwn ==
  ASSUME ~ReInits
  PROVE  Spec => []TrafficIsOwn
<1>1. IInv => TrafficIsOwn
  BY DEF IInv, TrafficIsOwn
<1>2. QED
  BY <1>1, NetworkInvariance, PTL

\* In an orderly application mr_closeSocket ends, and closing every handle
\* closes every socket.
THEOREM ClosesAll ==
  ASSUME ~ReInits
  PROVE  Spec => []AllClosed
<1>1. IInv => AllClosed
  <2>1. SUFFICES ASSUME IInv, Orderly PROVE down # "endless" /\ (held = {} => OpenFds = {})
    BY DEF AllClosed
  <2>2. down # "endless"
    BY <2>1 DEF IInv, Fit, Lives
  <2>3. ASSUME held = {} PROVE OpenFds = {}
    <3>1. \A s \in Slots : soc[s].fd = None
      BY <2>1, <2>3, NoneOpen DEF IInv
    <3>2. QED
      BY <2>1, <3>1, Typed DEF IInv, Table, Sockets, OpenFds
  <2>4. QED
    BY <2>2, <2>3
<1>2. QED
  BY <1>1, NetworkInvariance, PTL

-----------------------------------------------------------------------------
\* The fairness of FairSpec with what enables its actions written out: a poll
\* changes something when the pending connect has ended, or when the slot is
\* neither connected nor in error; a connect can end when it is under way.
PollDue(s) ==
  /\ down = "no" /\ s \in held
  /\ IF soc[s].st = "connecting" THEN os[soc[s].fd] # "trying"
                                ELSE soc[s].st \notin {"connected", "err"}
EndDue(d) == down = "no" /\ os[d] = "trying"

Runs ==
  /\ \A s \in Slots : <>[]~PollDue(s) \/ []<><<Poll(s)>>_vars
  /\ \A d \in Fds : []<>~EndDue(d) \/ []<><<Ends(d)>>_vars

\* Whatever the application, one that polls learns how each pending connect
\* ended, unless the process dies first.
THEOREM PollsEnd ==
  ASSUME ~ReInits
  PROVE  Spec /\ Runs => PollEnds
<1> SUFFICES ASSUME NEW s \in Slots, NEW d \in Fds
             PROVE  Spec /\ Runs =>
                      ((soc[s].st = "connecting" /\ soc[s].fd = d)
                         ~> (soc[s].st # "connecting" \/ down # "no"))
  BY DEF PollEnds
<1> DEFINE W == soc[s].st = "connecting" /\ soc[s].fd = d
<1> DEFINE G == soc[s].st # "connecting" \/ down # "no"
<1> DEFINE T == os[d] = "trying"
<1> DEFINE P == PollDue(s)
<1> DEFINE E == EndDue(d)
<1>1. IInv => (W /\ T => E \/ G) /\ (W /\ ~T => P \/ G)
  BY DEF IInv, Table, Pending, PollDue, EndDue
<1>2. IInv /\ [Next]_vars => (W => W' \/ G')
  <2>1. SUFFICES ASSUME IInv, [Next]_vars, W PROVE W' \/ G'
    OBVIOUS
  <2>2. soc'[s].fd = soc[s].fd \/ soc'[s].st # "connecting"
    BY <2>1, StepInvariant DEF Steady
  <2>3. QED
    BY <2>1, <2>2
<1>3. IInv => (W /\ <<Poll(s)>>_vars => G')
  <2>1. SUFFICES ASSUME IInv, W, Poll(s), vars' # vars PROVE G'
    OBVIOUS
  <2>2. soc[s] \in Slot /\ UNCHANGED <<world, os, own, held, down, worn, last>>
    BY <2>1, Typed DEF Poll, GetSocketState, IInv, Table
  <2>3. soc' # soc
    BY <2>1, <2>2 DEF vars
  <2>4. soc' = [soc EXCEPT ![s] = IF os[d] = "up" THEN Up(soc[s]) ELSE Failed(soc[s])]
    BY <2>1, <2>3, Typed DEF Poll, GetSocketState, IInv, Table
  <2>5. soc'[s].st # "connecting"
    BY <2>1, <2>2, <2>4, Typed DEF IInv, Table, Up, Failed, Slot
  <2>6. QED
    BY <2>5
<1>4. IInv => (<<Ends(d)>>_vars => ~T')
  BY DEF IInv, Table, TypeOK, Ends, Settle
<1>5. Runs => /\ <>[]~P \/ []<><<Poll(s)>>_vars
              /\ []<>~E \/ []<><<Ends(d)>>_vars
  BY DEF Runs
<1>6. Spec => []IInv /\ [][Next]_vars
  BY NetworkInvariance, PTL DEF Spec
<1> HIDE DEF W, G, T, P, E
<1>7. []IInv /\ [][Next]_vars /\ Runs => (W ~> G)
  BY <1>1, <1>2, <1>3, <1>4, <1>5, PTL
<1>8. QED
  BY <1>6, <1>7, PTL DEF W, G
=============================================================================
