------------------------- MODULE UseTelemetryProofs -------------------------
(***************************************************************************)
(* TelemetryClient implements LiveView, for any number of sockets, worlds, *)
(* messages on their way and faults, and any delays.                       *)
(*                                                                         *)
(* That the stream never goes back is not visible in one step: it rests on *)
(* what is still on the wire of the socket in use.  WireInv says of it     *)
(* that its worlds were published, come in their order and are no older    *)
(* than the newest one shown; and of a closed socket, which may become the *)
(* one in use, that nothing is on its wire.                                *)
(***************************************************************************)
EXTENDS UseTelemetry, TLAPS

SocketStates == {"closed", "connecting", "open", "closing", "lost"}
SocketType == [state : SocketStates, sent : Nat, wire : Seq(Nat)]

\* The part of the types that the refinement rests on.
WireTypes ==
    /\ published \in Nat \ {0}
    /\ sockets \in [Sockets -> SocketType]
    /\ request \in [state : {"none", "asked", "answered"}, world : Nat]
    /\ streamed \in Nat

\* Worlds under way were published, and arrive in the order of publication.
Ordered(wire) ==
    \A i, j \in 1..Len(wire) : i < j /\ wire[i] # Bad /\ wire[j] # Bad => wire[i] <= wire[j]

Published(wire, newest) == \A i \in 1..Len(wire) : wire[i] <= newest

\* None is older than the newest the stream has shown.
NotOlder(wire, last) == \A i \in 1..Len(wire) : wire[i] # Bad => wire[i] >= last

WireInv ==
    /\ WireTypes
    /\ streamed <= published
    /\ request.state = "answered" => request.world \in 1..published
    /\ \A s \in Sockets :
        /\ Ordered(sockets[s].wire)
        /\ Published(sockets[s].wire, published)
        /\ sockets[s].state = "closed" => sockets[s].wire = << >>
        /\ current = s => NotOlder(sockets[s].wire, streamed)

-----------------------------------------------------------------------------
(***************************************************************************)
(* What happens to a wire.                                                 *)
(***************************************************************************)
LEMMA EmptyWire ==
    /\ << >> \in Seq(Nat)
    /\ Ordered(<< >>)
    /\ \A n : Published(<< >>, n) /\ NotOlder(<< >>, n)
  BY DEF Ordered, Published, NotOlder

\* A delivered message leaves the rest in order, and no older than itself.
LEMMA TailWire ==
    ASSUME NEW wire \in Seq(Nat), wire # << >>, Ordered(wire), Published(wire, published)
    PROVE  /\ Tail(wire) \in Seq(Nat)
           /\ Head(wire) \in Nat /\ Head(wire) <= published
           /\ Ordered(Tail(wire)) /\ Published(Tail(wire), published)
           /\ NotOlder(wire, streamed) => NotOlder(Tail(wire), streamed)
           /\ Head(wire) # Bad => NotOlder(Tail(wire), Head(wire))
  <1>1. /\ Tail(wire) \in Seq(Nat) /\ Len(wire) \in Nat \ {0}
        /\ Len(Tail(wire)) = Len(wire) - 1
        /\ \A i \in 1..Len(Tail(wire)) : Tail(wire)[i] = wire[i + 1] /\ i + 1 \in 1..Len(wire)
        /\ Head(wire) = wire[1] /\ 1 \in 1..Len(wire) /\ Head(wire) \in Nat
    OBVIOUS
  <1> QED
    BY <1>1 DEF Ordered, Published, NotOlder

\* The newest world may be put on any wire.
LEMMA AppendWire ==
    ASSUME NEW wire \in Seq(Nat), NEW world \in Nat, published \in Nat, streamed \in Nat,
           Ordered(wire), Published(wire, published), world = Bad \/ world = published,
           streamed <= published
    PROVE  /\ Append(wire, world) \in Seq(Nat)
           /\ Ordered(Append(wire, world)) /\ Published(Append(wire, world), published)
           /\ NotOlder(wire, streamed) => NotOlder(Append(wire, world), streamed)
  <1> DEFINE longer == Append(wire, world)
  <1>1. /\ longer \in Seq(Nat) /\ Len(wire) \in Nat /\ Len(longer) = Len(wire) + 1
        /\ \A i \in 1..Len(wire) : longer[i] = wire[i] /\ wire[i] \in Nat
        /\ longer[Len(wire) + 1] = world
    OBVIOUS
  <1>2. Published(longer, published)
    BY <1>1 DEF Published, Bad
  <1>3. Ordered(longer)
    BY <1>1 DEF Ordered, Published, Bad
  <1>4. NotOlder(wire, streamed) => NotOlder(longer, streamed)
    BY <1>1 DEF NotOlder, Bad
  <1> QED
    BY <1>1, <1>2, <1>3, <1>4

(***************************************************************************)
(* Most steps leave each wire alone or empty it; a socket comes into use   *)
(* with an empty wire, or in a mounting that has shown nothing.            *)
(***************************************************************************)
LEMMA KeptWires ==
    ASSUME WireInv,
           published' \in Nat, published' >= published,
           streamed' = streamed \/ streamed' = 0,
           request' \in [state : {"none", "asked", "answered"}, world : Nat],
           request'.state = "answered" => request'.world \in 1..published',
           sockets' \in [Sockets -> SocketType],
           \A t \in Sockets :
               \/ sockets'[t].wire = << >>
               \/ /\ sockets'[t].wire = sockets[t].wire
                  /\ sockets'[t].state = "closed" => sockets[t].state = "closed"
                  /\ current' = t => current = t \/ streamed' = 0
    PROVE  WireInv'
  <1>1. WireTypes' /\ streamed' <= published'
    BY DEF WireInv, WireTypes
  <1>2. ASSUME NEW t \in Sockets
        PROVE  /\ Ordered(sockets'[t].wire)
               /\ Published(sockets'[t].wire, published')
               /\ sockets'[t].state = "closed" => sockets'[t].wire = << >>
               /\ current' = t => NotOlder(sockets'[t].wire, streamed')
    <2>1. CASE sockets'[t].wire = << >>
      BY <2>1, EmptyWire
    <2>2. CASE /\ sockets'[t].wire = sockets[t].wire
               /\ sockets'[t].state = "closed" => sockets[t].state = "closed"
               /\ current' = t => current = t \/ streamed' = 0
      <3> DEFINE wire == sockets[t].wire
      <3>1. /\ wire \in Seq(Nat) /\ Len(wire) \in Nat
            /\ \A i \in 1..Len(wire) : wire[i] \in Nat
            /\ Ordered(wire) /\ Published(wire, published)
            /\ sockets[t].state = "closed" => wire = << >>
            /\ current = t => NotOlder(wire, streamed)
            /\ published \in Nat /\ streamed \in Nat
        BY DEF WireInv, WireTypes, SocketType
      <3>2. Published(wire, published')
        BY <3>1 DEF Published
      <3>3. NotOlder(wire, 0)
        BY <3>1 DEF NotOlder
      <3> QED
        BY <2>2, <3>1, <3>2, <3>3
    <2> QED
      BY <2>1, <2>2
  <1> QED
    BY <1>1, <1>2 DEF WireInv

-----------------------------------------------------------------------------
LEMMA InitWires == Init => WireInv
  <1> SUFFICES ASSUME Init PROVE WireInv
    OBVIOUS
  <1>1. WireTypes
    <2> DEFINE Opening == [Closed EXCEPT !.state = "connecting"]
    <2>1. Closed \in SocketType /\ Opening \in SocketType
      BY EmptyWire DEF Closed, SocketType, SocketStates
    <2>2. PICK s \in Sockets :
            sockets = [t \in Sockets |-> IF t = s THEN Opening ELSE Closed]
      BY DEF Init
    <2>3. sockets \in [Sockets -> SocketType]
      BY <2>1, <2>2
    <2> QED
      BY <2>3 DEF Init, WireTypes, NoRequest
  <1>2. \A s \in Sockets : sockets[s].wire = << >>
    BY DEF Init, Closed
  <1> QED
    BY <1>1, <1>2, EmptyWire DEF Init, WireInv, NoRequest

\* A delivered world, and the socket that brought it.
LEMMA MessageWires ==
    ASSUME WireInv, NEW s \in Sockets, Message(s)
    PROVE  WireInv'
  <1> DEFINE wire == sockets[s].wire
  <1>1. /\ sockets[s] \in SocketType /\ wire \in Seq(Nat) /\ wire # << >>
        /\ Ordered(wire) /\ Published(wire, published) /\ Head(wire) # Bad
        /\ sockets[s].state # "closed"
        /\ current = s => NotOlder(wire, streamed)
    BY DEF WireInv, WireTypes, SocketType, Message
  <1>2. /\ sockets' = [sockets EXCEPT ![s].wire = Tail(wire)]
        /\ UNCHANGED <<published, request, current>>
    BY DEF Message, backendVars
  <1>3. /\ sockets' \in [Sockets -> SocketType]
        /\ sockets'[s].wire = Tail(wire) /\ sockets'[s].state = sockets[s].state
        /\ \A t \in Sockets \ {s} : sockets'[t] = sockets[t]
    BY <1>1, <1>2, TailWire DEF WireInv, WireTypes, SocketType
  <1>4. streamed' = IF current = s THEN Head(wire) ELSE streamed
    BY DEF Message, ApplyWorld, viewVars
  <1>5. WireTypes' /\ streamed' <= published'
    BY <1>1, <1>2, <1>3, <1>4, TailWire DEF WireInv, WireTypes
  <1>6. ASSUME NEW t \in Sockets
        PROVE  /\ Ordered(sockets'[t].wire)
               /\ Published(sockets'[t].wire, published')
               /\ sockets'[t].state = "closed" => sockets'[t].wire = << >>
               /\ current' = t => NotOlder(sockets'[t].wire, streamed')
    <2>1. CASE t = s
      <3>1. /\ Ordered(Tail(wire)) /\ Published(Tail(wire), published)
            /\ NotOlder(wire, streamed) => NotOlder(Tail(wire), streamed)
            /\ NotOlder(Tail(wire), Head(wire))
        BY <1>1, TailWire
      <3> QED
        BY <1>1, <1>2, <1>3, <1>4, <2>1, <3>1 DEF Published, NotOlder
    <2>2. CASE t # s
      BY <1>2, <1>3, <1>4, <2>2 DEF WireInv, Published, NotOlder
    <2> QED
      BY <2>1, <2>2
  <1> QED
    BY <1>2, <1>5, <1>6 DEF WireInv

\* A world, or what is none, that the backend puts on the wire.
LEMMA SendWires ==
    ASSUME WireInv, NEW s \in Sockets, Send(s) \/ SendBad(s)
    PROVE  WireInv'
  <1> DEFINE wire == sockets[s].wire
  <1>1. PICK world \in {Bad, published} :
            sockets' = [sockets EXCEPT ![s].sent = published, ![s].wire = Append(wire, world)]
    BY DEF Send, SendBad
  <1>2. UNCHANGED <<published, request, current, streamed>> /\ sockets[s].state = "open"
    BY DEF Send, SendBad, backendVars, viewVars
  <1>3. /\ sockets[s] \in SocketType /\ wire \in Seq(Nat) /\ world \in Nat
        /\ published \in Nat /\ streamed \in Nat /\ streamed <= published
        /\ Ordered(wire) /\ Published(wire, published) /\ (current = s => NotOlder(wire, streamed))
    BY <1>1 DEF WireInv, WireTypes, SocketType, Bad
  <1>4. /\ Append(wire, world) \in Seq(Nat)
        /\ Ordered(Append(wire, world)) /\ Published(Append(wire, world), published)
        /\ NotOlder(wire, streamed) => NotOlder(Append(wire, world), streamed)
    BY <1>1, <1>3, AppendWire
  <1>5. /\ sockets' \in [Sockets -> SocketType]
        /\ sockets'[s].wire = Append(wire, world) /\ sockets'[s].state = "open"
        /\ \A t \in Sockets \ {s} : sockets'[t] = sockets[t]
    BY <1>1, <1>2, <1>3, <1>4 DEF WireInv, WireTypes, SocketType
  <1>6. ASSUME NEW t \in Sockets
        PROVE  /\ Ordered(sockets'[t].wire)
               /\ Published(sockets'[t].wire, published')
               /\ sockets'[t].state = "closed" => sockets'[t].wire = << >>
               /\ current' = t => NotOlder(sockets'[t].wire, streamed')
    <2>1. CASE t = s
      BY <1>2, <1>3, <1>4, <1>5, <2>1 DEF Published, NotOlder
    <2>2. CASE t # s
      BY <1>2, <1>5, <2>2 DEF WireInv, Published, NotOlder
    <2> QED
      BY <2>1, <2>2
  <1> QED
    BY <1>2, <1>5, <1>6 DEF WireInv, WireTypes

\* A connection that is lost keeps what was on its wire.
LEMMA LostSocket ==
    ASSUME NEW socket \in SocketType
    PROVE  /\ Lost(socket) \in SocketType
           /\ Lost(socket).wire = socket.wire
           /\ Lost(socket).state = "closed" => socket.state = "closed"
  BY DEF SocketType, SocketStates, Lost

LEMMA ClosedSocket == Closed \in SocketType /\ Closed.wire = << >>
  BY EmptyWire DEF Closed, SocketType, SocketStates

\* The steps that leave every socket as it is.
LEMMA QuietWires ==
    ASSUME WireInv,
           \/ StaleTimerFires \/ SnapshotArrives \/ SnapshotFails
           \/ Publish \/ Answer \/ Restart \/ Tick \/ UNCHANGED vars
    PROVE  WireInv'
  <1>1. /\ published \in Nat \ {0} /\ streamed \in Nat
        /\ request \in [state : {"none", "asked", "answered"}, world : Nat]
        /\ request.state = "answered" => request.world \in 1..published
        /\ sockets \in [Sockets -> SocketType]
    BY DEF WireInv, WireTypes
  <1>2. sockets' = sockets /\ current' = current /\ streamed' = streamed
    BY DEF StaleTimerFires, SnapshotArrives, SnapshotFails, Publish, Answer, Restart, Tick,
           vars, backendVars, viewVars, timerVars, ApplyWorld
  <1>3. published' \in Nat /\ published' >= published
    BY <1>1 DEF StaleTimerFires, SnapshotArrives, SnapshotFails, Publish, Answer, Restart,
                Tick, vars, backendVars
  <1>4. /\ request' \in [state : {"none", "asked", "answered"}, world : Nat]
        /\ request'.state = "answered" => request'.world \in 1..published'
    <2>1. CASE request' = request
      BY <1>1, <1>3, <2>1
    <2>2. CASE SnapshotArrives \/ SnapshotFails
      BY <2>2 DEF SnapshotArrives, SnapshotFails, NoRequest
    <2>3. CASE Answer
      BY <1>1, <2>3 DEF Answer, backendVars
    <2> QED
      BY <2>1, <2>2, <2>3 DEF StaleTimerFires, Publish, Restart, Tick, vars
  <1> QED
    BY <1>1, <1>2, <1>3, <1>4, KeptWires

\* connect() uses a socket that is closed, and so carries nothing.
LEMMA ConnectWires ==
    ASSUME WireInv, Connect, UNCHANGED <<published, request, streamed>>
    PROVE  WireInv'
  <1>1. /\ published \in Nat \ {0}
        /\ request \in [state : {"none", "asked", "answered"}, world : Nat]
        /\ request.state = "answered" => request.world \in 1..published
        /\ sockets \in [Sockets -> SocketType]
    BY DEF WireInv, WireTypes
  <1>2. CASE current # NoSocket
    BY <1>1, <1>2, KeptWires DEF Connect
  <1>3. CASE current = NoSocket
    <2>1. PICK s \in Sockets :
            /\ sockets[s].state = "closed"
            /\ sockets' = [sockets EXCEPT ![s].state = "connecting"]
            /\ current' = s
      BY <1>3 DEF Connect
    <2>2. sockets[s].wire = << >> /\ sockets[s] \in SocketType
      BY <1>1, <2>1 DEF WireInv
    <2>3. /\ sockets' \in [Sockets -> SocketType]
          /\ sockets'[s].wire = << >>
          /\ \A t \in Sockets \ {s} : sockets'[t] = sockets[t]
      BY <1>1, <2>1, <2>2 DEF SocketType, SocketStates
    <2> QED
      BY <1>1, <2>1, <2>3, KeptWires
  <1> QED
    BY <1>2, <1>3

\* The steps of one socket that put nothing on its wire.
LEMMA SocketWires ==
    ASSUME WireInv, NEW s \in Sockets,
           Opened(s) \/ BadMessage(s) \/ CloseEvent(s) \/ Refuse(s) \/ Break(s)
    PROVE  WireInv'
  <1>1. /\ published \in Nat \ {0}
        /\ request \in [state : {"none", "asked", "answered"}, world : Nat]
        /\ request.state = "answered" => request.world \in 1..published
        /\ sockets \in [Sockets -> SocketType] /\ sockets[s] \in SocketType
    BY DEF WireInv, WireTypes
  <1>2. UNCHANGED <<published, request, streamed>>
    BY DEF Opened, BadMessage, CloseEvent, Refuse, Break, backendVars, viewVars
  <1>3. current' = current \/ current' = NoSocket
    BY DEF Opened, BadMessage, CloseEvent, Refuse, Break
  <1>4. PICK socket \in SocketType :
            /\ sockets' = [sockets EXCEPT ![s] = socket]
            /\ \/ socket.wire = << >>
               \/ /\ socket.wire = sockets[s].wire
                  /\ socket.state = "closed" => sockets[s].state = "closed"
    <2>1. CASE Opened(s)
      <3> DEFINE socket == [sockets[s] EXCEPT !.state = "open"]
      <3>1. /\ socket \in SocketType
            /\ socket.wire = sockets[s].wire /\ socket.state = "open"
        BY <1>1 DEF SocketType, SocketStates
      <3>2. sockets' = [sockets EXCEPT ![s] = socket]
        BY <1>1, <2>1 DEF Opened, SocketType
      <3> QED
        BY <3>1, <3>2
    <2>2. CASE BadMessage(s)
      <3> DEFINE socket == [sockets[s] EXCEPT
                              !.wire = << >>,
                              !.state = IF current = s THEN "closing" ELSE @]
      <3>1. socket \in SocketType /\ socket.wire = << >>
        BY <1>1, EmptyWire DEF SocketType, SocketStates
      <3>2. sockets' = [sockets EXCEPT ![s] = socket]
        BY <1>1, <2>2 DEF BadMessage, SocketType
      <3> QED
        BY <3>1, <3>2
    <2>3. CASE CloseEvent(s)
      BY <2>3, ClosedSocket DEF CloseEvent
    <2>4. CASE Refuse(s) \/ Break(s)
      BY <1>1, <2>4, LostSocket DEF Refuse, Break
    <2> QED
      BY <2>1, <2>2, <2>3, <2>4
  <1>5. /\ sockets' \in [Sockets -> SocketType]
        /\ sockets'[s] = socket
        /\ \A t \in Sockets \ {s} : sockets'[t] = sockets[t]
    BY <1>1, <1>4
  <1>6. \A t \in Sockets : current' = t => current = t
    BY <1>3, TelemetryClientAssumption DEF TelemetryClientAssumption, NoSocket
  <1> QED
    BY <1>1, <1>2, <1>4, <1>5, <1>6, KeptWires

\* The page is left, or entered; the backend loses every connection.
LEMMA PageWires ==
    ASSUME WireInv, Unmount \/ Mount \/ Crash
    PROVE  WireInv'
  <1>1. /\ published \in Nat \ {0} /\ streamed \in Nat
        /\ request \in [state : {"none", "asked", "answered"}, world : Nat]
        /\ request.state = "answered" => request.world \in 1..published
        /\ sockets \in [Sockets -> SocketType]
    BY DEF WireInv, WireTypes
  <1>2. CASE Unmount
    <2>1. /\ sockets' \in [Sockets -> SocketType]
          /\ \A t \in Sockets : sockets'[t].wire = << >>
      BY <1>2, ClosedSocket DEF Unmount
    <2> QED
      BY <1>1, <1>2, <2>1, KeptWires DEF Unmount, NoRequest
  <1>3. CASE Mount
    <2>1. PICK s \in Sockets :
            current' = s /\ sockets' = [sockets EXCEPT ![s].state = "connecting"]
      BY <1>3 DEF Mount
    <2>2. /\ sockets' \in [Sockets -> SocketType]
          /\ sockets'[s].wire = sockets[s].wire /\ sockets'[s].state = "connecting"
          /\ \A t \in Sockets \ {s} : sockets'[t] = sockets[t]
      BY <1>1, <2>1 DEF SocketType, SocketStates
    <2>3. /\ published' = published /\ streamed' = 0
          /\ request' = [NoRequest EXCEPT !.state = "asked"]
      BY <1>3 DEF Mount, backendVars
    <2>4. /\ request' \in [state : {"none", "asked", "answered"}, world : Nat]
          /\ request'.state # "answered"
      BY <2>3 DEF NoRequest
    <2>5. \A t \in Sockets :
            /\ sockets'[t].wire = sockets[t].wire
            /\ sockets'[t].state = "closed" => sockets[t].state = "closed"
      BY <2>2
    <2> QED
      BY <1>1, <2>2, <2>3, <2>4, <2>5, KeptWires
  <1>4. CASE Crash
    <2>1. /\ sockets' \in [Sockets -> SocketType]
          /\ \A t \in Sockets :
                /\ sockets'[t].wire = sockets[t].wire
                /\ sockets'[t].state = "closed" => sockets[t].state = "closed"
      BY <1>1, <1>4, LostSocket DEF Crash
    <2>2. UNCHANGED <<published, request, current, streamed>>
      BY <1>4 DEF Crash, viewVars
    <2> QED
      BY <1>1, <2>1, <2>2, KeptWires
  <1> QED
    BY <1>2, <1>3, <1>4

LEMMA NextWires == WireInv /\ [Next]_vars => WireInv'
  <1> SUFFICES ASSUME WireInv, [Next]_vars PROVE WireInv'
    OBVIOUS
  <1>1. CASE \E s \in Sockets : SocketStep(s) \/ SendBad(s) \/ Break(s)
    BY <1>1, MessageWires, SendWires, SocketWires DEF SocketStep
  <1>2. CASE RetryTimerFires
    BY <1>2, ConnectWires DEF RetryTimerFires, backendVars
  <1>3. CASE VisibilityChanged
    <2>1. UNCHANGED <<published, request, streamed>>
      BY <1>3 DEF VisibilityChanged, backendVars
    <2>2. CASE Connect
      BY <2>1, <2>2, ConnectWires
    <2>3. CASE UNCHANGED <<sockets, current>>
      BY <2>1, <2>3 DEF WireInv, WireTypes
    <2> QED
      BY <1>3, <2>2, <2>3 DEF VisibilityChanged
  <1>4. CASE Unmount \/ Mount \/ Crash
    BY <1>4, PageWires
  <1>5. CASE \/ StaleTimerFires \/ SnapshotArrives \/ SnapshotFails
             \/ Publish \/ Answer \/ Restart \/ Tick \/ UNCHANGED vars
    BY <1>5, QuietWires
  <1> QED
    BY <1>1, <1>2, <1>3, <1>4, <1>5 DEF Next

(***************************************************************************)
(* Whatever is sent, broken, refused and mounted again, what is on its way *)
(* to the page was published, is in order, and is no older than the newest *)
(* world that the stream has shown.                                        *)
(***************************************************************************)
THEOREM WiresAreInOrder == Spec => []WireInv
  <1>1. Init => WireInv
    BY InitWires
  <1>2. WireInv /\ [Next]_vars => WireInv'
    BY NextWires
  <1> QED
    BY <1>1, <1>2, PTL DEF Spec

-----------------------------------------------------------------------------
(***************************************************************************)
(* The refinement: initial is request.state # "none".                      *)
(***************************************************************************)
LEMMA InitViews == Init => View!Init
  BY DEF Init, View!Init, NoRequest

LEMMA StepViews ==
    ASSUME WireInv, [Next]_vars
    PROVE  [View!Next]_View!vars
  <1> USE DEF View!vars
  <1>1. /\ published \in Nat \ {0} /\ streamed \in Nat
        /\ request.state = "answered" => request.world \in 1..published
    BY DEF WireInv, WireTypes
  <1>2. ASSUME NEW s \in Sockets, Message(s)
        PROVE  [View!Next]_View!vars
    <2>1. CASE current = s
      <3> DEFINE world == Head(sockets[s].wire)
      <3>1. world \in 1..published /\ world >= streamed
        <4> DEFINE wire == sockets[s].wire
        <4>1. /\ wire \in Seq(Nat) /\ wire # << >> /\ wire[1] # Bad
              /\ Published(wire, published) /\ NotOlder(wire, streamed)
              /\ Head(wire) = wire[1]
          BY <1>2, <2>1 DEF WireInv, WireTypes, SocketType, Message
        <4>2. 1 \in 1..Len(wire) /\ wire[1] \in Nat
          BY <4>1
        <4> QED
          BY <4>1, <4>2 DEF Published, NotOlder, Bad
      <3>2. /\ shown' = world /\ streamed' = world /\ connection' = "CONNECTED"
            /\ UNCHANGED <<published, request>>
        BY <1>2, <2>1 DEF Message, ApplyWorld, backendVars
      <3> QED
        BY <3>1, <3>2 DEF View!Next, View!StreamWorld
    <2>2. CASE current # s
      BY <1>2, <2>2 DEF Message, backendVars, viewVars
    <2> QED
      BY <2>1, <2>2
  <1>3. ASSUME NEW s \in Sockets, BadMessage(s) \/ CloseEvent(s)
        PROVE  [View!Next]_View!vars
    BY <1>3 DEF BadMessage, CloseEvent, backendVars, View!Next, View!LoseConnection
  <1>4. ASSUME NEW s \in Sockets,
               Opened(s) \/ Send(s) \/ Refuse(s) \/ SendBad(s) \/ Break(s)
        PROVE  UNCHANGED View!vars
    BY <1>4 DEF Opened, Send, Refuse, SendBad, Break, backendVars, viewVars
  <1>5. CASE StaleTimerFires
    BY <1>5 DEF StaleTimerFires, backendVars, View!Next, View!LoseConnection
  <1>6. CASE RetryTimerFires \/ VisibilityChanged
    <2>1. UNCHANGED <<published, shown, streamed, request>>
      BY <1>6 DEF RetryTimerFires, VisibilityChanged, backendVars
    <2>2. connection' = connection \/ (shown = 0 /\ connection' = "CONNECTING")
      BY <1>6 DEF RetryTimerFires, VisibilityChanged, Connect
    <2> QED
      BY <2>1, <2>2 DEF View!Next, View!Reconnect
  <1>7. CASE SnapshotArrives
    BY <1>1, <1>7 DEF SnapshotArrives, ApplyWorld, NoRequest, backendVars, View!Next,
       View!InitialSnapshot
  <1>8. CASE SnapshotFails
    BY <1>8 DEF SnapshotFails, NoRequest, backendVars, viewVars, View!Next,
       View!InitialSnapshot
  <1>9. CASE Unmount
    BY <1>9 DEF Unmount, NoRequest, View!Next, View!InitialSnapshot
  <1>10. CASE Mount
    BY <1>10 DEF Mount, NoRequest, backendVars, View!Next, View!Remount
  <1>11. CASE Publish \/ Restart
    BY <1>11 DEF Publish, Restart, viewVars, View!Next, View!Publish
  <1>12. CASE Answer \/ Crash \/ Tick \/ UNCHANGED vars
    BY <1>12 DEF Answer, Crash, Tick, backendVars, viewVars, vars
  <1> QED
    BY <1>2, <1>3, <1>4, <1>5, <1>6, <1>7, <1>8, <1>9, <1>10, <1>11, <1>12
       DEF Next, SocketStep

(***************************************************************************)
(* The page behaves as LiveView says: what it shows was published, the     *)
(* stream never goes back, and only the snapshot of the mounting may, once *)
(* (useTelemetry: applyWorld, onmessage, onclose, the fetch).              *)
(***************************************************************************)
THEOREM ImplementsLiveView == Spec => ShowsPublishedWorlds
  <1>1. Init => View!Init
    BY InitViews
  <1>2. WireInv /\ [Next]_vars => [View!Next]_View!vars
    BY StepViews
  <1> QED
    BY <1>1, <1>2, WiresAreInOrder, PTL DEF Spec, ShowsPublishedWorlds, View!Spec

-----------------------------------------------------------------------------
(***************************************************************************)
(* How old a world of the stream may be under the label CONNECTED.  The    *)
(* label stands on a timer that still runs for the socket in use: the time *)
(* gone and the time left add up to the stale limit while no socket is in  *)
(* use, and connect() and onopen() may each add an opening limit.          *)
(***************************************************************************)
Streaming == mounted /\ connection = "CONNECTED" /\ shownBy = "stream"

Allowed ==
    IF current = NoSocket THEN StaleMs
    ELSE IF sockets[current].state = "connecting" THEN StaleMs + FirstMs
    ELSE StaleMs + 2 * FirstMs

TimerType ==
    /\ age \in Nat
    /\ staleTimer.left \in 0..FirstMs + 1
    /\ staleTimer \in [of : Sockets \cup {NoSocket}, left : Nat]
    /\ current \in Sockets \cup {NoSocket}

TimerInv ==
    /\ TimerType
    /\ staleTimer # Off => staleTimer.of = current /\ staleTimer.left <= FirstMs
    /\ Streaming => staleTimer # Off /\ age + staleTimer.left <= Allowed

LEMMA TimersAreNat ==
    /\ StaleMs \in Nat /\ FirstMs \in Nat /\ RetryMs \in Nat
    /\ 0 < StaleMs /\ StaleMs < FirstMs
    /\ NoSocket \notin Sockets
    /\ Never \in Nat
    /\ \A left \in 0..FirstMs : [of |-> NoSocket, left |-> left] # Off
  BY TelemetryClientAssumption DEF TelemetryClientAssumption, NoSocket, Never, Off

LEMMA InitTimers == Init => TimerInv
  BY TimersAreNat DEF Init, TimerInv, TimerType, Streaming

LEMMA NextTimers ==
    ASSUME WireInv, TimerInv, [Next]_vars
    PROVE  TimerInv'
  <1> USE TimersAreNat
  <1>1. /\ age \in Nat /\ staleTimer.left \in 0..FirstMs + 1
        /\ sockets \in [Sockets -> SocketType]
        /\ current \in Sockets \cup {NoSocket}
    BY DEF WireInv, WireTypes, TimerInv, TimerType
  <1>2. ASSUME UNCHANGED <<mounted, connection, shownBy, current, age, staleTimer>>,
               current \in Sockets /\ sockets'[current].state = "connecting" =>
                   sockets[current].state = "connecting"
        PROVE  TimerInv'
    <2>1. Allowed <= Allowed'
      BY <1>1, <1>2 DEF Allowed
    <2>2. Allowed \in Nat /\ Allowed' \in Nat
      BY <1>1, <1>2 DEF Allowed
    <2> QED
      BY <1>1, <1>2, <2>1, <2>2 DEF TimerInv, TimerType, Streaming
  <1>3. ASSUME NEW s \in Sockets, Opened(s)
        PROVE  TimerInv'
    <2>1. CASE current = s
      <3>1. Allowed = StaleMs + FirstMs
        BY <1>3, <2>1 DEF Opened, Allowed
      <3>2. Allowed' = StaleMs + 2 * FirstMs
        BY <1>1, <1>3, <2>1 DEF Opened, Allowed, SocketType
      <3>3. staleTimer' = [of |-> s, left |-> FirstMs] /\ staleTimer' # Off
        BY <1>3, <2>1 DEF Opened, Arm, Off
      <3>4. UNCHANGED <<mounted, connection, shownBy, current, age>>
        BY <1>3 DEF Opened, viewVars
      <3> QED
        BY <1>1, <2>1, <3>1, <3>2, <3>3, <3>4 DEF TimerInv, TimerType, Streaming
    <2>2. CASE current # s
      BY <1>1, <1>2, <1>3, <2>2 DEF Opened, viewVars
    <2> QED
      BY <2>1, <2>2
  <1>4. ASSUME NEW s \in Sockets, Message(s)
        PROVE  TimerInv'
    <2>1. CASE current = s
      <3>1. staleTimer' = [of |-> s, left |-> StaleMs] /\ staleTimer' # Off
        BY <1>4, <2>1 DEF Message, Arm, Off
      <3>2. age' = 0 /\ current' = current
        BY <1>4, <2>1 DEF Message, ApplyWorld
      <3>3. Allowed' >= StaleMs
        BY <1>1, <3>2 DEF Allowed
      <3> QED
        BY <1>1, <2>1, <3>1, <3>2, <3>3 DEF TimerInv, TimerType, Streaming, Allowed
    <2>2. CASE current # s
      BY <1>1, <1>2, <1>4, <2>2 DEF Message, viewVars
    <2> QED
      BY <2>1, <2>2
  <1>5. ASSUME NEW s \in Sockets, BadMessage(s)
        PROVE  TimerInv'
    <2>1. CASE current = s
      BY <1>5, <2>1 DEF BadMessage, timerVars, TimerInv, TimerType, Streaming
    <2>2. CASE current # s
      BY <1>1, <1>2, <1>5, <2>2 DEF BadMessage, timerVars
    <2> QED
      BY <2>1, <2>2
  <1>6. ASSUME NEW s \in Sockets, CloseEvent(s)
        PROVE  TimerInv'
    <2>1. CASE current = s
      <3>1. current' = NoSocket /\ UNCHANGED <<mounted, shownBy, age>>
        BY <1>6, <2>1 DEF CloseEvent
      <3>2. Allowed' = StaleMs
        BY <3>1 DEF Allowed
      <3>3. CASE shown # 0 /\ age < StaleMs
        <4>1. staleTimer' = [of |-> NoSocket, left |-> StaleMs - age]
          BY <1>6, <2>1, <3>3 DEF CloseEvent, Arm
        <4>2. StaleMs - age \in 0..FirstMs
          BY <1>1, <3>3
        <4> QED
          BY <1>1, <3>1, <3>2, <4>1, <4>2 DEF TimerInv, TimerType, Streaming
      <3>4. CASE ~(shown # 0 /\ age < StaleMs)
        BY <1>1, <1>6, <2>1, <3>1, <3>4
          DEF CloseEvent, Off, TimerInv, TimerType, Streaming
      <3> QED
        BY <3>3, <3>4
    <2>2. CASE current # s
      BY <1>1, <1>2, <1>6, <2>2 DEF CloseEvent, Closed
    <2> QED
      BY <2>1, <2>2
  <1>7. ASSUME NEW s \in Sockets, Send(s) \/ SendBad(s) \/ Refuse(s) \/ Break(s)
        PROVE  TimerInv'
    <2>1. UNCHANGED <<mounted, connection, shownBy, current, age, staleTimer>>
      BY <1>7 DEF Send, SendBad, Refuse, Break, viewVars, timerVars
    <2>2. \A t \in Sockets :
            sockets'[t].state = "connecting" => sockets[t].state = "connecting"
      BY <1>1, <1>7 DEF Send, SendBad, Refuse, Break, Lost, SocketType
    <2> QED
      BY <1>2, <2>1, <2>2
  <1>8. ASSUME Connect, UNCHANGED <<mounted, shown, shownBy, age>>
        PROVE  TimerInv'
    <2>1. CASE current # NoSocket
      BY <1>1, <1>2, <1>8, <2>1 DEF Connect
    <2>2. CASE current = NoSocket
      <3>1. PICK s \in Sockets :
              /\ sockets' = [sockets EXCEPT ![s].state = "connecting"]
              /\ current' = s
              /\ staleTimer' = [of |-> s, left |-> FirstMs]
              /\ connection' = IF shown = 0 THEN "CONNECTING" ELSE connection
        BY <1>8, <2>2 DEF Connect, Arm
      <3>2. Allowed' = StaleMs + FirstMs /\ Allowed = StaleMs
        BY <1>1, <2>2, <3>1 DEF Allowed, SocketType
      <3>3. staleTimer' # Off
        BY <3>1 DEF Off
      <3> QED
        BY <1>1, <1>8, <3>1, <3>2, <3>3 DEF TimerInv, TimerType, Streaming
    <2> QED
      BY <2>1, <2>2
  <1>9. CASE StaleTimerFires
    <2>1. staleTimer # Off
      BY <1>9 DEF StaleTimerFires, Off
    <2> QED
      BY <1>1, <1>9, <2>1 DEF StaleTimerFires, Off, TimerInv, TimerType, Streaming
  <1>10. CASE RetryTimerFires
    BY <1>8, <1>10 DEF RetryTimerFires
  <1>11. CASE VisibilityChanged
    <2>1. CASE hidden
      BY <1>8, <1>11, <2>1 DEF VisibilityChanged
    <2>2. CASE ~hidden
      BY <1>2, <1>11, <2>2 DEF VisibilityChanged
    <2> QED
      BY <2>1, <2>2
  <1>12. CASE SnapshotArrives
    BY <1>1, <1>12
      DEF SnapshotArrives, ApplyWorld, timerVars, TimerInv, TimerType, Streaming
  <1>13. CASE Unmount
    BY <1>1, <1>13 DEF Unmount, Off, TimerInv, TimerType, Streaming
  <1>14. CASE Mount
    BY <1>1, <1>14 DEF Mount, Arm, TimerInv, TimerType, Streaming
  <1>15. CASE SnapshotFails \/ Publish \/ Answer \/ Restart
    BY <1>2, <1>15
      DEF SnapshotFails, Publish, Answer, Restart, viewVars, timerVars
  <1>16. CASE Crash
    <2>1. UNCHANGED <<mounted, connection, shownBy, current, age, staleTimer>>
      BY <1>16 DEF Crash, viewVars, timerVars
    <2>2. \A t \in Sockets :
            sockets'[t].state = "connecting" => sockets[t].state = "connecting"
      BY <1>1, <1>16 DEF Crash, Lost, SocketType
    <2> QED
      BY <1>2, <2>1, <2>2
  <1>17. CASE Tick
    <2>1. UNCHANGED <<mounted, connection, shownBy, current, sockets>>
      BY <1>17 DEF Tick
    <2>2. Allowed' = Allowed /\ Streaming' = Streaming
      BY <2>1 DEF Allowed, Streaming
    <2>3. age' \in Nat /\ age' <= age + 1
      BY <1>1, <1>17 DEF Tick
    <2>4. CASE staleTimer = Off
      BY <1>1, <1>17, <2>1, <2>2, <2>3, <2>4 DEF Tick, Off, TimerInv, TimerType
    <2>5. CASE staleTimer # Off
      <3>1. staleTimer' = [staleTimer EXCEPT !.left = @ - 1] /\ staleTimer.left # 0
        BY <1>17, <2>5 DEF Tick, Due
      <3>2. /\ staleTimer'.left = staleTimer.left - 1
            /\ staleTimer'.of = staleTimer.of
            /\ staleTimer' \in [of : Sockets \cup {NoSocket}, left : Nat]
        BY <1>1, <3>1 DEF TimerInv, TimerType
      <3>3. staleTimer' # Off
        BY <1>1, <2>5, <3>2 DEF Off, TimerInv
      <3>4. Allowed \in Nat
        BY <1>1 DEF Allowed
      <3> QED
        BY <1>1, <2>1, <2>2, <2>3, <2>5, <3>2, <3>3, <3>4 DEF TimerInv, TimerType
    <2> QED
      BY <2>4, <2>5
  <1>18. CASE UNCHANGED vars
    BY <1>2, <1>18 DEF vars
  <1> QED
    BY <1>3, <1>4, <1>5, <1>6, <1>7, <1>9, <1>10, <1>11, <1>12, <1>13, <1>14,
       <1>15, <1>16, <1>17, <1>18 DEF Next, SocketStep

(***************************************************************************)
(* However its sockets open, break and are opened again, the page labels   *)
(* what the stream brought CONNECTED for at most the stale limit and two   *)
(* opening limits (armStaleTimer, connect, onopen, onclose).               *)
(***************************************************************************)
THEOREM StreamIsRecent == Spec => []StreamedIsRecent
  <1>1. TimerInv => StreamedIsRecent
    <2> USE TimersAreNat
    <2> SUFFICES ASSUME TimerInv, Streaming
                 PROVE  age <= StaleMs + 2 * FirstMs
      BY DEF StreamedIsRecent, Streaming
    <2>1. Allowed \in Nat /\ Allowed <= StaleMs + 2 * FirstMs
      BY DEF Allowed
    <2> QED
      BY <2>1 DEF TimerInv, TimerType
  <1>2. Spec => []WireInv
    BY WiresAreInOrder
  <1> QED
    BY <1>1, <1>2, InitTimers, NextTimers, PTL DEF Spec

-----------------------------------------------------------------------------
(***************************************************************************)
(* The recorded demo, for any recording, cache and number of pauses.       *)
(*                                                                         *)
(* DriverIsOne says who may act next: the timer or one call of the present *)
(* generation while the demo plays, and nobody while it is paused, so that *)
(* only calls of older generations are left and their token stops them.    *)
(* FrameIsPlace says where the recording stands: what is held and shown    *)
(* next follows the frame on the screen.  CallsLackFrames says of a call   *)
(* that drives what it is made for: no held frame is left to show.         *)
(***************************************************************************)
Driving == {call \in calls : Current(call)}

DriverIsOne ==
    /\ generation \in Nat
    /\ calls \subseteq [token : Nat, awaits : {"manifest", "chunk"}]
    /\ \A call \in calls : call.token <= generation
    /\ active \in BOOLEAN /\ attached \in BOOLEAN /\ disposed \in BOOLEAN /\ timer \in BOOLEAN
    /\ ~attached => ~active /\ ~timer /\ calls = {} /\ ~disposed
    /\ active => attached /\ ~disposed
    /\ OneDriver

FrameIsPlace ==
    /\ frameIndex \in Nat \ {0}
    /\ frame = NoFrame => chunk = 0 /\ chunkIndex = 1 /\ frameIndex = Frames + 1
    /\ frame # NoFrame =>
        /\ frame = <<frame[1], frame[2]>> /\ frame[2] \in 1 .. Frames
        /\ disposed \/ (/\ chunk = frame[1]
                        /\ chunkIndex = (frame[1] % Chunks) + 1
                        /\ frameIndex = frame[2] + 1)

CallsLackFrames ==
    /\ ~manifest => frame = NoFrame
    /\ \A call \in Driving : frameIndex > Frames /\ (call.awaits = "chunk" => manifest)

LEMMA RecordingIsThere == Chunks \in Nat \ {0} /\ Frames \in Nat \ {0}
  <1>1. {Chunks, Frames, CacheSize} \subseteq Nat \ {0}
    BY DemoPlaybackAssumption
  <1> QED
    BY <1>1, Zenon

LEMMA InitDriver == DemoInit => DriverIsOne
  <1> SUFFICES ASSUME DemoInit
               PROVE  DriverIsOne
    OBVIOUS
  <1>1. /\ attached = FALSE /\ active = FALSE /\ disposed = FALSE /\ timer = FALSE
        /\ generation = 0 /\ calls = {}
    BY DEF DemoInit
  <1>2. OneDriver
    BY <1>1, Zenon DEF OneDriver
  <1> QED
    BY <1>1, <1>2 DEF DriverIsOne

LEMMA InitFrame == DemoInit => FrameIsPlace
  <1> SUFFICES ASSUME DemoInit
               PROVE  FrameIsPlace
    OBVIOUS
  <1>1. frame = NoFrame /\ chunk = 0 /\ chunkIndex = 1 /\ frameIndex = Frames + 1
    BY DEF DemoInit
  <1>2. Frames + 1 \in Nat \ {0}
    BY RecordingIsThere
  <1> QED
    BY <1>1, <1>2, Zenon DEF FrameIsPlace

\* The beginning of a call, with nobody else driving: it shows and sets the
\* timer, or it becomes the one that drives.
LEMMA AdvanceDrives ==
    ASSUME NEW g \in Nat, NEW others \in SUBSET [token : Nat, awaits : {"manifest", "chunk"}],
           \A call \in others : call.token < g, generation' = g, Advance(g, others),
           timer \in BOOLEAN
    PROVE  /\ calls' \subseteq [token : Nat, awaits : {"manifest", "chunk"}]
           /\ \A call \in calls' : call.token <= g
           /\ timer' \in BOOLEAN
           /\ \/ timer' /\ Driving' = {}
              \/ ~timer' /\ \E call \in calls' : Driving' = {call}
  <1>1. CASE ~manifest
    <2> DEFINE c == [token |-> g, awaits |-> "manifest"]
    <2>1. calls' = others \cup {c} /\ timer' = FALSE
      BY <1>1 DEF Advance
    <2>2. Driving' = {c}
      BY <2>1 DEF Driving, Current
    <2>3. c \in [token : Nat, awaits : {"manifest", "chunk"}] /\ c.token = g
      OBVIOUS
    <2> HIDE DEF c
    <2>4. \A call \in calls' : call.token <= g
      BY <2>1, <2>3
    <2>5. calls' \subseteq [token : Nat, awaits : {"manifest", "chunk"}] /\ c \in calls'
      BY <2>1, <2>3, Zenon
    <2> QED
      BY <2>1, <2>2, <2>4, <2>5, Zenon
  <1>2. CASE manifest /\ frameIndex > Frames
    <2> DEFINE c == [token |-> g, awaits |-> "chunk"]
    <2>1. calls' = others \cup {c} /\ timer' = FALSE
      BY <1>2 DEF Advance
    <2>2. Driving' = {c}
      BY <2>1 DEF Driving, Current
    <2>3. c \in [token : Nat, awaits : {"manifest", "chunk"}] /\ c.token = g
      OBVIOUS
    <2> HIDE DEF c
    <2>4. \A call \in calls' : call.token <= g
      BY <2>1, <2>3
    <2>5. calls' \subseteq [token : Nat, awaits : {"manifest", "chunk"}] /\ c \in calls'
      BY <2>1, <2>3, Zenon
    <2> QED
      BY <2>1, <2>2, <2>4, <2>5, Zenon
  <1>3. CASE manifest /\ ~(frameIndex > Frames)
    <2>1. calls' = others /\ timer' = TRUE
      BY <1>3 DEF Advance, Show
    <2>2. Driving' = {}
      BY <2>1 DEF Driving, Current
    <2> QED
      BY <2>1, <2>2
  <1> QED
    BY <1>1, <1>2, <1>3

\* A call of the present generation is all that drives.
LEMMA CallDrives ==
    ASSUME DriverIsOne, NEW call \in calls, Current(call)
    PROVE  active /\ ~timer /\ Driving = {call} /\ attached /\ ~disposed
  <1>1. call \in Driving
    BY DEF Driving
  <1>2. attached
    BY DEF DriverIsOne
  <1>3. active
    BY <1>1, <1>2 DEF DriverIsOne, OneDriver, Driving
  <1>4. PICK c \in calls : ~timer /\ Driving = {c}
    BY <1>1, <1>3 DEF DriverIsOne, OneDriver, Driving
  <1> QED
    BY <1>1, <1>3, <1>4 DEF DriverIsOne

\* What is left to show of a demo that is driven, or that drives no more.
LEMMA OneDriverLeft ==
    ASSUME generation' \in Nat, calls' \subseteq [token : Nat, awaits : {"manifest", "chunk"}],
           \A call \in calls' : call.token <= generation',
           active' \in BOOLEAN, attached' = TRUE, disposed' \in BOOLEAN, timer' \in BOOLEAN,
           active' => ~disposed',
           active' => \/ timer' /\ Driving' = {}
                      \/ ~timer' /\ \E call \in calls' : Driving' = {call},
           ~active' => ~timer' /\ Driving' = {} /\ (disposed' \/ demoStatus' = "Paused")
    PROVE  DriverIsOne'
  <1>1. OneDriver'
    BY Zenon DEF OneDriver, Driving
  <1> QED
    BY <1>1 DEF DriverIsOne

LEMMA SetActiveDrives ==
    ASSUME DriverIsOne, NEW next \in BOOLEAN, SetActive(next), ~disposed,
           attached' = TRUE, UNCHANGED disposed
    PROVE  DriverIsOne'
  <1> DEFINE g == generation + 1
  <1>1. CASE active = next
    <2>1. /\ UNCHANGED <<active, generation, timer, calls>>
          /\ demoStatus' = IF next THEN demoStatus ELSE "Paused"
      BY <1>1 DEF SetActive
    <2>2. Driving' = Driving
      BY <2>1 DEF Driving, Current
    <2>3. ~active => ~timer /\ Driving = {}
      BY DEF DriverIsOne, OneDriver, Driving
    <2>4. active => \/ timer /\ Driving = {}
                    \/ ~timer /\ \E call \in calls : Driving = {call}
      BY DEF DriverIsOne, OneDriver, Driving
    <2> QED
      BY <1>1, <2>1, <2>2, <2>3, <2>4, OneDriverLeft DEF DriverIsOne
  <1>2. CASE active # next /\ next
    <2>1. active' = TRUE /\ generation' = g /\ Advance(g, calls)
      BY <1>2 DEF SetActive
    <2>2. g \in Nat /\ \A call \in calls : call.token < g
      BY DEF DriverIsOne
    <2>3. calls \in SUBSET [token : Nat, awaits : {"manifest", "chunk"}] /\ timer \in BOOLEAN
      BY DEF DriverIsOne
    <2> HIDE DEF g
    <2>4. /\ calls' \subseteq [token : Nat, awaits : {"manifest", "chunk"}]
          /\ \A call \in calls' : call.token <= g
          /\ timer' \in BOOLEAN
          /\ \/ timer' /\ Driving' = {}
             \/ ~timer' /\ \E call \in calls' : Driving' = {call}
      BY <2>1, <2>2, <2>3, AdvanceDrives
    <2> QED
      BY <2>1, <2>2, <2>4, OneDriverLeft DEF DriverIsOne
  <1>3. CASE active # next /\ ~next
    <2>1. /\ active' = FALSE /\ generation' = g /\ timer' = FALSE /\ demoStatus' = "Paused"
          /\ calls' = calls
      BY <1>3 DEF SetActive
    <2>2. g \in Nat /\ \A call \in calls : call.token < g
      BY DEF DriverIsOne
    <2>3. Driving' = {}
      BY <2>1, <2>2 DEF Driving, Current, DriverIsOne
    <2> HIDE DEF g
    <2>4. /\ calls' \subseteq [token : Nat, awaits : {"manifest", "chunk"}]
          /\ \A call \in calls' : call.token <= generation'
      BY <2>1, <2>2 DEF DriverIsOne
    <2>5. disposed' \in BOOLEAN /\ generation' \in Nat
      BY <2>1, <2>2 DEF DriverIsOne
    <2> QED
      BY <2>1, <2>3, <2>4, <2>5, OneDriverLeft
  <1> QED
    BY <1>1, <1>2, <1>3

LEMMA StepDriver == DriverIsOne /\ [DemoNext]_demoVars => DriverIsOne'
  <1> SUFFICES ASSUME DriverIsOne, [DemoNext]_demoVars
               PROVE  DriverIsOne'
    OBVIOUS
  <1>1. CASE TimerFires
    <2>1. /\ active /\ timer /\ Advance(generation, calls)
          /\ UNCHANGED <<attached, active, disposed, generation>>
      BY <1>1 DEF TimerFires
    <2>2. attached /\ ~disposed
      BY <2>1 DEF DriverIsOne
    <2>3. Driving = {}
      BY <2>1 DEF DriverIsOne, OneDriver, Driving
    <2>4. generation \in Nat /\ \A call \in calls : call.token < generation
      BY <2>3 DEF DriverIsOne, Driving, Current
    <2>5. calls \in SUBSET [token : Nat, awaits : {"manifest", "chunk"}] /\ timer \in BOOLEAN
      BY DEF DriverIsOne
    <2>6. /\ calls' \subseteq [token : Nat, awaits : {"manifest", "chunk"}]
          /\ \A call \in calls' : call.token <= generation
          /\ timer' \in BOOLEAN
          /\ \/ timer' /\ Driving' = {}
             \/ ~timer' /\ \E call \in calls' : Driving' = {call}
      BY <2>1, <2>4, <2>5, AdvanceDrives
    <2> QED
      BY <2>1, <2>2, <2>6, OneDriverLeft DEF DriverIsOne
  <1>2. ASSUME NEW call \in calls, ManifestLoaded(call)
        PROVE  DriverIsOne'
    <2> DEFINE c == [call EXCEPT !.awaits = "chunk"]
    <2>1. /\ Current(call) /\ calls' = (calls \ {call}) \cup {c}
          /\ UNCHANGED <<attached, active, disposed, generation, timer>>
      BY <1>2 DEF ManifestLoaded
    <2>2. active /\ ~timer /\ Driving = {call} /\ attached /\ ~disposed
      BY <2>1, CallDrives
    <2>3. c.token = generation /\ c \in [token : Nat, awaits : {"manifest", "chunk"}]
      BY <2>1 DEF DriverIsOne, Current
    <2> HIDE DEF c
    <2>4. Driving' = {c}
      BY <2>1, <2>2, <2>3 DEF Driving, Current
    <2>5. /\ calls' \subseteq [token : Nat, awaits : {"manifest", "chunk"}] /\ c \in calls'
          /\ \A k \in calls' : k.token <= generation
      BY <2>1, <2>3 DEF DriverIsOne
    <2> QED
      BY <2>1, <2>2, <2>4, <2>5, OneDriverLeft DEF DriverIsOne
  <1>3. ASSUME NEW call \in calls, ChunkLoaded(call) \/ Failed(call)
        PROVE  DriverIsOne'
    <2>1. /\ Current(call) /\ calls' = calls \ {call} /\ timer' = TRUE
          /\ UNCHANGED <<attached, active, disposed, generation>>
      BY <1>3 DEF ChunkLoaded, Failed, Show
    <2>2. active /\ ~timer /\ Driving = {call} /\ attached /\ ~disposed
      BY <2>1, CallDrives
    <2>3. Driving' = {}
      BY <2>1, <2>2 DEF Driving, Current
    <2>4. /\ calls' \subseteq [token : Nat, awaits : {"manifest", "chunk"}]
          /\ \A k \in calls' : k.token <= generation
      BY <2>1 DEF DriverIsOne
    <2> QED
      BY <2>1, <2>2, <2>3, <2>4, OneDriverLeft DEF DriverIsOne
  <1>4. ASSUME NEW call \in calls, Superseded(call)
        PROVE  DriverIsOne'
    <2>1. /\ ~Current(call) /\ calls' = calls \ {call}
          /\ UNCHANGED <<attached, active, disposed, generation, timer, demoStatus>>
      BY <1>4 DEF Superseded, playVars, demoViewVars
    <2>2. Driving' = Driving
      BY <2>1 DEF Driving, Current
    <2>3. /\ calls' \subseteq [token : Nat, awaits : {"manifest", "chunk"}]
          /\ \A k \in calls' : k.token <= generation
      BY <2>1 DEF DriverIsOne
    <2>4. attached
      BY DEF DriverIsOne
    <2>5. ~active => ~timer /\ Driving = {} /\ (disposed \/ demoStatus = "Paused")
      BY <2>4 DEF DriverIsOne, OneDriver, Driving
    <2>6. active => \/ timer /\ Driving = {}
                    \/ ~timer /\ \E k \in calls' : Driving = {k}
      BY <2>2 DEF DriverIsOne, OneDriver, Driving
    <2> QED
      BY <2>1, <2>2, <2>3, <2>4, <2>5, <2>6, OneDriverLeft DEF DriverIsOne
  <1>5. CASE Attach \/ TogglePaused \/ TabVisibility
    <2>1. PICK h, q : Update(h, q) /\ ~disposed
      BY <1>5 DEF Attach, TogglePaused, TabVisibility, DriverIsOne
    <2>2. PICK next \in BOOLEAN : next = (~h /\ ~q)
      OBVIOUS
    <2>3. SetActive(next) /\ attached' = TRUE /\ UNCHANGED disposed
      BY <2>1, <2>2 DEF Update
    <2> QED
      BY <2>1, <2>3, SetActiveDrives
  <1>6. CASE Dispose
    <2>1. /\ attached /\ disposed' = TRUE /\ active' = FALSE /\ timer' = FALSE
          /\ generation' = IF active THEN generation + 1 ELSE generation
          /\ UNCHANGED <<attached, calls>>
      BY <1>6 DEF Dispose
    <2>2. generation' \in Nat /\ generation <= generation'
      BY <2>1 DEF DriverIsOne
    <2>3. \A call \in calls : call.token < generation'
      <3>1. CASE active
        BY <2>1, <3>1 DEF DriverIsOne
      <3>2. CASE ~active
        <4>1. Driving = {}
          BY <2>1, <3>2 DEF DriverIsOne, OneDriver, Driving
        <4> QED
          BY <2>1, <3>2, <4>1 DEF DriverIsOne, Driving, Current
      <3> QED
        BY <3>1, <3>2
    <2>4. Driving' = {}
      BY <2>1, <2>2, <2>3 DEF Driving, Current, DriverIsOne
    <2>5. /\ calls' \subseteq [token : Nat, awaits : {"manifest", "chunk"}]
          /\ \A call \in calls' : call.token <= generation'
      BY <2>1, <2>2, <2>3 DEF DriverIsOne
    <2>6. attached' = TRUE
      BY <2>1 DEF DriverIsOne
    <2> QED
      BY <2>1, <2>2, <2>4, <2>5, <2>6, OneDriverLeft
  <1>7. CASE UNCHANGED demoVars
    BY <1>7 DEF demoVars, DriverIsOne, OneDriver, Current
  <1> QED
    BY <1>1, <1>2, <1>3, <1>4, <1>5, <1>6, <1>7 DEF DemoNext, CallStep

\* What is held is shown in its order, and what follows it stays next.
LEMMA AdvanceShows ==
    ASSUME FrameIsPlace, ~disposed, UNCHANGED <<chunk, chunkIndex>>,
           NEW g, NEW others, Advance(g, others)
    PROVE  FrameIsPlace' /\ (frame' # frame => frame' = Successor(frame))
  <1> USE RecordingIsThere
  <1>1. CASE UNCHANGED <<frame, frameIndex>>
    BY <1>1 DEF FrameIsPlace
  <1>2. CASE Show(chunk, frameIndex) /\ ~(frameIndex > Frames)
    <2>1. frame # NoFrame
      BY <1>2 DEF FrameIsPlace
    <2>2. /\ frame = <<frame[1], frame[2]>> /\ frame[2] \in 1 .. Frames
          /\ chunk = frame[1] /\ chunkIndex = (frame[1] % Chunks) + 1
          /\ frameIndex = frame[2] + 1
      BY <2>1 DEF FrameIsPlace
    <2>3. frame' = <<frame[1], frame[2] + 1>> /\ frameIndex' = frame[2] + 2
      BY <1>2, <2>2 DEF Show
    <2>4. frame[2] + 1 \in 1 .. Frames
      BY <1>2, <2>2
    <2>5. Successor(frame) = <<frame[1], frame[2] + 1>>
      BY <2>1, <2>2, <2>4 DEF Successor
    <2>6. frame'[1] = frame[1] /\ frame'[2] = frame[2] + 1
      BY <2>3
    <2>7. frame' # NoFrame
      BY <2>4, <2>6 DEF NoFrame
    <2>8. FrameIsPlace'
      BY <2>2, <2>3, <2>4, <2>6, <2>7 DEF FrameIsPlace
    <2> QED
      BY <2>3, <2>5, <2>8
  <1> QED
    BY <1>1, <1>2 DEF Advance, demoViewVars

LEMMA StepFrame ==
    DriverIsOne /\ FrameIsPlace /\ CallsLackFrames /\ [DemoNext]_demoVars =>
        FrameIsPlace' /\ (frame' # frame => frame' = Successor(frame) /\ active')
  <1> SUFFICES ASSUME DriverIsOne, FrameIsPlace, CallsLackFrames, [DemoNext]_demoVars
               PROVE  FrameIsPlace' /\ (frame' # frame => frame' = Successor(frame) /\ active')
    OBVIOUS
  <1>1. CASE TimerFires
    <2>1. /\ active /\ ~disposed /\ Advance(generation, calls)
          /\ UNCHANGED <<active, chunk, chunkIndex>>
      BY <1>1 DEF TimerFires
    <2> QED
      BY <2>1, AdvanceShows
  <1>2. ASSUME NEW call \in calls, ChunkLoaded(call)
        PROVE  FrameIsPlace' /\ (frame' # frame => frame' = Successor(frame) /\ active')
    <2>1. /\ Current(call) /\ chunk' = chunkIndex /\ chunkIndex' = (chunkIndex % Chunks) + 1
          /\ frame' = <<chunkIndex, 1>> /\ frameIndex' = 2
          /\ UNCHANGED active
      BY <1>2 DEF ChunkLoaded, Show
    <2>2. active /\ ~disposed
      BY <2>1, CallDrives
    <2>3. frame'[1] = chunkIndex /\ frame'[2] = 1 /\ 1 \in 1 .. Frames
      BY <2>1, RecordingIsThere
    <2>4. frame' # NoFrame
      BY <2>3 DEF NoFrame
    <2>5. FrameIsPlace'
      BY <2>1, <2>3, <2>4 DEF FrameIsPlace
    <2>6. frameIndex > Frames
      BY <2>1 DEF CallsLackFrames, Driving
    <2>7. CASE frame = NoFrame
      <3>1. chunkIndex = 1 /\ Successor(frame) = <<1, 1>>
        BY <2>7 DEF FrameIsPlace, Successor
      <3> QED
        BY <2>1, <2>2, <2>5, <3>1
    <2>8. CASE frame # NoFrame
      <3>1. frame[2] \in 1 .. Frames /\ ~(frame[2] < Frames)
            /\ chunkIndex = (frame[1] % Chunks) + 1
        BY <2>2, <2>6, <2>8, RecordingIsThere DEF FrameIsPlace
      <3>2. Successor(frame) = <<chunkIndex, 1>>
        BY <2>8, <3>1 DEF Successor
      <3> QED
        BY <2>1, <2>2, <2>5, <3>2
    <2> QED
      BY <2>7, <2>8
  <1>3. ASSUME NEW call \in calls, ManifestLoaded(call) \/ Failed(call) \/ Superseded(call)
        PROVE  FrameIsPlace' /\ (frame' # frame => frame' = Successor(frame) /\ active')
    BY <1>3 DEF ManifestLoaded, Failed, Superseded, playVars, demoViewVars, FrameIsPlace
  <1>4. CASE Attach \/ TogglePaused \/ TabVisibility
    <2>1. PICK h, q : Update(h, q) /\ ~disposed
      BY <1>4 DEF Attach, TogglePaused, TabVisibility, DriverIsOne
    <2>2. SetActive(~h /\ ~q) /\ UNCHANGED <<disposed, chunk, chunkIndex>>
      BY <2>1 DEF Update
    <2>3. CASE UNCHANGED <<frame, frameIndex>>
      BY <2>2, <2>3 DEF FrameIsPlace
    <2>4. CASE Advance(generation + 1, calls) /\ active'
      BY <2>1, <2>2, <2>4, AdvanceShows
    <2> QED
      BY <2>1, <2>2, <2>3, <2>4 DEF SetActive
  <1>5. CASE Dispose
    <2>1. disposed' = TRUE /\ frame' = frame
      BY <1>5 DEF Dispose, demoViewVars
    <2> QED
      BY <1>5, <2>1, RecordingIsThere DEF Dispose, FrameIsPlace
  <1>6. CASE UNCHANGED demoVars
    BY <1>6 DEF demoVars, FrameIsPlace
  <1> QED
    BY <1>1, <1>2, <1>3, <1>4, <1>5, <1>6 DEF DemoNext, CallStep

LEMMA InitCalls == DemoInit => CallsLackFrames
  BY DEF DemoInit, CallsLackFrames, Driving

\* A new call is made only when nothing that is held is left to show.
LEMMA AdvanceWaits ==
    ASSUME FrameIsPlace, CallsLackFrames, NEW g, NEW others,
           \A call \in others : call.token # g, generation' = g, Advance(g, others),
           UNCHANGED manifest
    PROVE  CallsLackFrames'
  <1> USE RecordingIsThere
  <1>1. CASE ~manifest
    <2> DEFINE c == [token |-> g, awaits |-> "manifest"]
    <2>1. calls' = others \cup {c} /\ UNCHANGED <<frame, frameIndex>>
      BY <1>1 DEF Advance, demoViewVars
    <2>2. Driving' = {c} /\ c.awaits # "chunk"
      BY <2>1 DEF Driving, Current
    <2>3. frame = NoFrame /\ frameIndex > Frames
      BY <1>1 DEF CallsLackFrames, FrameIsPlace
    <2> QED
      BY <2>1, <2>2, <2>3 DEF CallsLackFrames
  <1>2. CASE manifest /\ frameIndex > Frames
    <2> DEFINE c == [token |-> g, awaits |-> "chunk"]
    <2>1. calls' = others \cup {c} /\ UNCHANGED <<frame, frameIndex>>
      BY <1>2 DEF Advance, demoViewVars
    <2>2. Driving' = {c}
      BY <2>1 DEF Driving, Current
    <2> QED
      BY <1>2, <2>1, <2>2 DEF CallsLackFrames
  <1>3. CASE manifest /\ ~(frameIndex > Frames)
    <2>1. calls' = others
      BY <1>3 DEF Advance
    <2>2. Driving' = {}
      BY <2>1 DEF Driving, Current
    <2> QED
      BY <1>3, <2>2 DEF CallsLackFrames
  <1> QED
    BY <1>1, <1>2, <1>3

LEMMA StepCalls ==
    DriverIsOne /\ FrameIsPlace /\ CallsLackFrames /\ [DemoNext]_demoVars => CallsLackFrames'
  <1> SUFFICES ASSUME DriverIsOne, FrameIsPlace, CallsLackFrames, [DemoNext]_demoVars
               PROVE  CallsLackFrames'
    OBVIOUS
  <1>1. CASE TimerFires
    <2>1. /\ active /\ timer /\ Advance(generation, calls)
          /\ UNCHANGED <<generation, manifest>>
      BY <1>1 DEF TimerFires
    <2>2. \A call \in calls : call.token # generation
      BY <2>1 DEF DriverIsOne, OneDriver, Current
    <2> QED
      BY <2>1, <2>2, AdvanceWaits
  <1>2. ASSUME NEW call \in calls, ManifestLoaded(call)
        PROVE  CallsLackFrames'
    <2>1. /\ Current(call) /\ manifest' = TRUE /\ UNCHANGED <<frame, frameIndex>>
      BY <1>2 DEF ManifestLoaded, demoViewVars
    <2>2. frameIndex > Frames
      BY <2>1 DEF CallsLackFrames, Driving
    <2> QED
      BY <2>1, <2>2 DEF CallsLackFrames
  <1>3. ASSUME NEW call \in calls, ChunkLoaded(call)
        PROVE  CallsLackFrames'
    <2>1. /\ Current(call) /\ call.awaits = "chunk" /\ calls' = calls \ {call}
          /\ UNCHANGED <<manifest, generation>>
      BY <1>3 DEF ChunkLoaded
    <2>2. manifest
      BY <2>1 DEF CallsLackFrames, Driving
    <2>3. Driving' = {}
      BY <2>1, CallDrives DEF Driving, Current
    <2> QED
      BY <2>1, <2>2, <2>3 DEF CallsLackFrames
  <1>4. ASSUME NEW call \in calls, Failed(call) \/ Superseded(call)
        PROVE  CallsLackFrames'
    <2>1. calls' = calls \ {call} /\ UNCHANGED <<manifest, generation, frame, frameIndex>>
      BY <1>4 DEF Failed, Superseded, playVars, demoViewVars
    <2>2. Driving' \subseteq Driving
      BY <2>1 DEF Driving, Current
    <2> QED
      BY <2>1, <2>2 DEF CallsLackFrames
  <1>5. CASE Attach \/ TogglePaused \/ TabVisibility
    <2>1. PICK h, q : Update(h, q)
      BY <1>5 DEF Attach, TogglePaused, TabVisibility
    <2>2. SetActive(~h /\ ~q) /\ UNCHANGED manifest
      BY <2>1 DEF Update
    <2>3. \A call \in calls : call.token # generation + 1
      BY DEF DriverIsOne
    <2>4. CASE UNCHANGED <<generation, calls, frame, frameIndex>>
      BY <2>2, <2>4 DEF CallsLackFrames, Driving, Current
    <2>5. CASE generation' = generation + 1 /\ Advance(generation + 1, calls)
      BY <2>2, <2>3, <2>5, AdvanceWaits
    <2>6. CASE generation' = generation + 1 /\ UNCHANGED <<calls, frame, frameIndex>>
      <3>1. Driving' = {}
        BY <2>3, <2>6 DEF Driving, Current
      <3> QED
        BY <2>2, <2>6, <3>1 DEF CallsLackFrames
    <2> QED
      BY <2>2, <2>4, <2>5, <2>6 DEF SetActive
  <1>6. CASE Dispose
    <2>1. attached' /\ active' = FALSE /\ UNCHANGED <<manifest, frame>>
      BY <1>6 DEF Dispose, demoViewVars
    <2>2. DriverIsOne'
      BY StepDriver
    <2>3. Driving' = {}
      BY <2>1, <2>2 DEF DriverIsOne, OneDriver, Driving
    <2> QED
      BY <2>1, <2>3 DEF CallsLackFrames
  <1>7. CASE UNCHANGED demoVars
    BY <1>7 DEF demoVars, CallsLackFrames, Driving, Current
  <1> QED
    BY <1>1, <1>2, <1>3, <1>4, <1>5, <1>6, <1>7 DEF DemoNext, CallStep

LEMMA DemoSteps ==
    LiveEffect \/ DemoEffects \/ UNCHANGED useTelemetryVars => [DemoNext]_demoVars
  BY DEF LiveEffect, DemoEffects, useTelemetryVars

\* What the demo keeps true of itself, in a build of either kind.
THEOREM DemoInvariant == UseTelemetrySpec => [](DriverIsOne /\ FrameIsPlace /\ CallsLackFrames)
  <1>1. UseTelemetryInit => DriverIsOne /\ FrameIsPlace /\ CallsLackFrames
    BY InitDriver, InitFrame, InitCalls DEF UseTelemetryInit
  <1>2. DriverIsOne /\ FrameIsPlace /\ CallsLackFrames
          /\ [LiveEffect \/ DemoEffects]_useTelemetryVars =>
            (DriverIsOne /\ FrameIsPlace /\ CallsLackFrames)'
    BY DemoSteps, StepDriver, StepFrame, StepCalls
  <1> QED
    BY <1>1, <1>2, PTL DEF UseTelemetrySpec

(***************************************************************************)
(* A playing demo is driven by one timer or one call and never by two, a   *)
(* paused one by none, however often it is paused, resumed and fails       *)
(* (advance and setActive of demoPlayback.ts).                             *)
(***************************************************************************)
THEOREM DemoHasOneDriver == UseTelemetrySpec => []OneDriver
  <1>1. DriverIsOne => OneDriver
    BY DEF DriverIsOne
  <1> QED
    BY <1>1, DemoInvariant, PTL

(***************************************************************************)
(* The recording is played frame by frame, none skipped, repeated or shown *)
(* by a call of an older generation, for any chunks and frames (advance).  *)
(***************************************************************************)
THEOREM DemoIsInOrder == UseTelemetrySpec => FramesInOrder
  <1>1. DriverIsOne /\ FrameIsPlace /\ CallsLackFrames
          /\ [LiveEffect \/ DemoEffects]_useTelemetryVars =>
            [frame' # frame => frame' = Successor(frame) /\ active']_demoVars
    BY DemoSteps, StepFrame
  <1> QED
    BY <1>1, DemoInvariant, PTL DEF UseTelemetrySpec, FramesInOrder

=============================================================================
