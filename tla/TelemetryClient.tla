-------------------------- MODULE TelemetryClient --------------------------
(***************************************************************************)
(* The dashboard's connection to the backend: useTelemetry of              *)
(* frontend/src/state/useTelemetry.ts in a build that is not the static    *)
(* demo, with the socket and the snapshot route it talks to.               *)
(*                                                                         *)
(* One snapshot is fetched over HTTP when the page is mounted; everything  *)
(* else comes over one WebSocket that is opened again, after a pause,      *)
(* whenever it closes.  A timer turns the label to DISCONNECTED when a     *)
(* socket is quiet.                                                        *)
(*                                                                         *)
(* Worlds are numbered in the order of publication, across restarts of the *)
(* backend; 0 is defaultWorldState.  Time is counted in units that keep    *)
(* the order of the code's delays: RetryMs < StaleMs < FirstMs.  Timers    *)
(* fire on time.  The reference map, which is retained while its key does  *)
(* not change, is part of the world.                                       *)
(***************************************************************************)
EXTENDS Naturals, Sequences

CONSTANTS
    StaleMs,     \* TELEMETRY_STALE_MS
    FirstMs,     \* FIRST_TELEMETRY_TIMEOUT_MS
    RetryMs,     \* the longest pause before a socket is opened again
    Sockets,     \* socket objects that may be alive at once
    Backlog,     \* messages under way on one socket
    MaxWorlds,   \* bound on the worlds published
    MaxFaults    \* bound on the crashes, breaks, bad snapshots and exits

ASSUME TelemetryClientAssumption ==
    /\ {StaleMs, FirstMs, RetryMs} \subseteq Nat \ {0}
    /\ RetryMs < StaleMs /\ StaleMs < FirstMs
    /\ {Backlog, MaxWorlds, MaxFaults} \subseteq Nat
    /\ "null" \notin Sockets

VARIABLES
    \* the backend and the network
    published,   \* worlds published
    up,          \* the backend is serving
    sockets,     \* the two ends of each socket
    request,     \* the GET /api/world of this mounting
    faults,      \* faults so far
    \* the page
    mounted, hidden,
    current,     \* `socket` of the effect
    shown,       \* `world`
    connection,
    age,         \* the time since lastDataMs
    staleTimer,  \* what is left of it, and whose it is
    retries,     \* what is left of the pending retry timers
    \* history
    streamed,    \* the newest world the stream has shown in this mounting
    shownBy      \* what the world on the screen came with

backendVars == <<published, up, faults>>
timerVars == <<staleTimer, retries>>
viewVars == <<shown, connection, age, streamed, shownBy>>
vars == <<published, up, sockets, request, faults, mounted, hidden, current,
          shown, connection, age, staleTimer, retries, streamed, shownBy>>

NoSocket == "null"
Off == [of |-> NoSocket, left |-> FirstMs + 1]
Never == StaleMs + 2 * FirstMs + 2   \* ages are counted up to here
Bad == 0                             \* a message that is no snapshot
Closed == [state |-> "closed", sent |-> 0, wire |-> <<>>]

TypeOK ==
    /\ published \in 1..MaxWorlds
    /\ faults \in 0..MaxFaults
    /\ {up, mounted, hidden} \subseteq BOOLEAN
    /\ sockets \in [Sockets ->
            [state : {"closed", "connecting", "open", "closing", "lost"},
             sent : 0..MaxWorlds,
             wire : UNION {[1..n -> 0..MaxWorlds] : n \in 0..Backlog}]]
    /\ request \in [state : {"none", "asked", "answered"}, world : 0..MaxWorlds]
    /\ current \in Sockets \cup {NoSocket}
    /\ shown \in 0..MaxWorlds
    /\ connection \in {"CONNECTING", "CONNECTED", "DISCONNECTED"}
    /\ age \in 0..Never
    /\ staleTimer \in [of : Sockets \cup {NoSocket}, left : 0..(FirstMs + 1)]
    /\ retries \subseteq 0..RetryMs
    /\ streamed \in 0..MaxWorlds
    /\ shownBy \in {"nothing", "stream", "snapshot"}

NoRequest == [state |-> "none", world |-> 0]

Init ==
    /\ published = 1
    /\ up \in BOOLEAN
    /\ faults = 0
    /\ mounted = TRUE
    /\ hidden \in BOOLEAN
    /\ \E s \in Sockets :
        /\ current = s
        /\ sockets = [t \in Sockets |->
                        IF t = s THEN [Closed EXCEPT !.state = "connecting"]
                                 ELSE Closed]
        /\ staleTimer = [of |-> s, left |-> FirstMs]
    /\ request = [NoRequest EXCEPT !.state = "asked"]
    /\ shown = 0
    /\ connection = "CONNECTING"
    /\ age = Never
    /\ retries = {}
    /\ streamed = 0
    /\ shownBy = "nothing"

-----------------------------------------------------------------------------
(* The page's operations. *)

\* A slip: a running timer is prolonged.
ArmProlonged(s, delay) == [of |-> s, left |-> staleTimer.left + delay]

Arm(s, delay) == [of |-> s, left |-> delay]

ApplyWorld(world, by) ==
    /\ shown' = world
    /\ shownBy' = by
    /\ streamed' = IF by = "stream" THEN world ELSE streamed
    /\ age' = 0
    /\ connection' = "CONNECTED"

\* connect(): a socket is opened unless there is one already.
Connect ==
    IF current # NoSocket
    THEN UNCHANGED <<sockets, current, connection, staleTimer>>
    ELSE \E s \in Sockets :
            /\ sockets[s].state = "closed"
            /\ sockets' = [sockets EXCEPT ![s].state = "connecting"]
            /\ current' = s
            /\ connection' = IF shown = 0 THEN "CONNECTING" ELSE connection
            /\ staleTimer' = Arm(s, FirstMs)

\* onopen
Opened(s) ==
    /\ sockets[s].state = "connecting" /\ up
    /\ sockets' = [sockets EXCEPT ![s].state = "open"]
    /\ staleTimer' = IF current = s THEN Arm(s, FirstMs) ELSE staleTimer
    /\ UNCHANGED <<backendVars, request, mounted, hidden, current, viewVars, retries>>

\* A slip: the timer of the opening is left to run.
MessageTimerKept(s) ==
    /\ sockets[s].state \in {"open", "lost"}
    /\ sockets[s].wire # <<>> /\ Head(sockets[s].wire) # Bad
    /\ sockets' = [sockets EXCEPT ![s].wire = Tail(@)]
    /\ current = s
    /\ ApplyWorld(Head(sockets[s].wire), "stream")
    /\ UNCHANGED <<backendVars, request, mounted, hidden, current, timerVars>>

\* onmessage of a snapshot
Message(s) ==
    /\ sockets[s].state \in {"open", "lost"}
    /\ sockets[s].wire # <<>> /\ Head(sockets[s].wire) # Bad
    /\ sockets' = [sockets EXCEPT ![s].wire = Tail(@)]
    /\ IF current = s
       THEN /\ ApplyWorld(Head(sockets[s].wire), "stream")
            /\ staleTimer' = Arm(s, StaleMs)
       ELSE UNCHANGED <<viewVars, staleTimer>>
    /\ UNCHANGED <<backendVars, request, mounted, hidden, current, retries>>

\* onmessage of anything isWorldStateSnapshot refuses: the socket is closed
BadMessage(s) ==
    /\ sockets[s].state \in {"open", "lost"}
    /\ sockets[s].wire # <<>> /\ Head(sockets[s].wire) = Bad
    /\ sockets' = [sockets EXCEPT
                     ![s].wire = <<>>,
                     ![s].state = IF current = s THEN "closing" ELSE @]
    /\ connection' = IF current = s THEN "DISCONNECTED" ELSE connection
    /\ UNCHANGED <<backendVars, request, mounted, hidden, current, timerVars,
                   shown, age, streamed, shownBy>>

\* A slip: a fresh enough world keeps the page from retrying.
CloseEventFreshStays(s) ==
    /\ sockets[s].state \in {"closing", "lost"} /\ sockets[s].wire = <<>>
    /\ sockets' = [sockets EXCEPT ![s] = Closed]
    /\ current' = NoSocket
    /\ IF shown # 0 /\ age < StaleMs
       THEN /\ staleTimer' = Arm(NoSocket, StaleMs - age)
            /\ UNCHANGED <<connection, retries>>
       ELSE /\ staleTimer' = Off
            /\ connection' = "DISCONNECTED"
            /\ \E delay \in 1..RetryMs : retries' = retries \cup {delay}
    /\ UNCHANGED <<backendVars, request, mounted, hidden, shown, age, streamed, shownBy>>

\* onclose, after onerror or on its own
CloseEvent(s) ==
    /\ sockets[s].state \in {"closing", "lost"} /\ sockets[s].wire = <<>>
    /\ sockets' = [sockets EXCEPT ![s] = Closed]
    /\ IF current = s
       THEN /\ current' = NoSocket
            /\ IF shown # 0 /\ age < StaleMs
               THEN /\ staleTimer' = Arm(NoSocket, StaleMs - age)
                    /\ UNCHANGED connection
               ELSE /\ staleTimer' = Off
                    /\ connection' = "DISCONNECTED"
            /\ \E delay \in 1..RetryMs : retries' = retries \cup {delay}
       ELSE UNCHANGED <<current, staleTimer, connection, retries>>
    /\ UNCHANGED <<backendVars, request, mounted, hidden, shown, age, streamed, shownBy>>

StaleTimerFires ==
    /\ staleTimer.left = 0
    /\ staleTimer' = Off
    /\ connection' = IF current = staleTimer.of THEN "DISCONNECTED" ELSE connection
    /\ UNCHANGED <<backendVars, sockets, request, mounted, hidden, current, retries,
                   shown, age, streamed, shownBy>>

RetryTimerFires ==
    /\ 0 \in retries
    /\ retries' = retries \ {0}
    /\ Connect
    /\ UNCHANGED <<backendVars, request, mounted, hidden, shown, age, streamed, shownBy>>

\* visibilitychange
VisibilityChanged ==
    /\ mounted
    /\ hidden' = ~hidden
    /\ IF hidden THEN Connect
       ELSE UNCHANGED <<sockets, current, connection, staleTimer>>
    /\ UNCHANGED <<backendVars, request, mounted, retries, shown, age, streamed, shownBy>>

\* A slip: the snapshot is asked for again whenever it has come.
SnapshotArrivesAskAgain ==
    /\ request.state = "answered"
    /\ request' = [NoRequest EXCEPT !.state = "asked"]
    /\ ApplyWorld(request.world, "snapshot")
    /\ UNCHANGED <<backendVars, sockets, mounted, hidden, current, timerVars>>

\* The fetch of the mounting: the answer, its failure, an unusable body.
SnapshotArrives ==
    /\ request.state = "answered"
    /\ request' = NoRequest
    /\ ApplyWorld(request.world, "snapshot")
    /\ UNCHANGED <<backendVars, sockets, mounted, hidden, current, timerVars>>

SnapshotFails ==
    /\ \/ request.state = "answered"
       \/ request.state = "asked" /\ ~up
    /\ request' = NoRequest
    /\ UNCHANGED <<backendVars, sockets, mounted, hidden, current, timerVars, viewVars>>

\* The effect's clean-up, when the console is exited; nothing that its
\* sockets, timers or request still do touches the page.
Unmount ==
    /\ mounted /\ faults < MaxFaults
    /\ faults' = faults + 1
    /\ mounted' = FALSE
    /\ current' = NoSocket
    /\ sockets' = [s \in Sockets |-> Closed]
    /\ staleTimer' = Off /\ retries' = {}
    /\ request' = NoRequest
    /\ age' = Never
    /\ UNCHANGED <<published, up, hidden, shown, connection, streamed, shownBy>>

\* A console is entered: fresh state, the fetch, the first socket.
Mount ==
    /\ ~mounted
    /\ mounted' = TRUE
    /\ request' = [NoRequest EXCEPT !.state = "asked"]
    /\ shown' = 0 /\ age' = Never /\ streamed' = 0 /\ shownBy' = "nothing"
    /\ connection' = "CONNECTING"
    /\ \E s \in Sockets :
        /\ current' = s
        /\ sockets' = [sockets EXCEPT ![s].state = "connecting"]
        /\ staleTimer' = Arm(s, FirstMs)
    /\ UNCHANGED <<backendVars, hidden, retries>>

-----------------------------------------------------------------------------
(* The backend and the network. *)

Publish ==
    /\ up /\ published < MaxWorlds
    /\ published' = published + 1
    /\ UNCHANGED <<up, sockets, request, faults, mounted, hidden, current, viewVars,
                   timerVars>>

\* telemetry_socket: the newest world, when it is not the one sent last.
Send(s) ==
    /\ up /\ sockets[s].state = "open" /\ Len(sockets[s].wire) < Backlog
    /\ sockets[s].sent # published
    /\ sockets' = [sockets EXCEPT ![s].sent = published,
                                  ![s].wire = Append(@, published)]
    /\ UNCHANGED <<backendVars, request, mounted, hidden, current, viewVars, timerVars>>

\* The same, of a backend whose snapshots this page does not know.
SendBad(s) ==
    /\ up /\ sockets[s].state = "open" /\ Len(sockets[s].wire) < Backlog
    /\ sockets[s].sent # published /\ faults < MaxFaults
    /\ sockets' = [sockets EXCEPT ![s].sent = published, ![s].wire = Append(@, Bad)]
    /\ faults' = faults + 1
    /\ UNCHANGED <<published, up, request, mounted, hidden, current, viewVars, timerVars>>

Answer ==
    /\ up /\ request.state = "asked"
    /\ request' = [state |-> "answered", world |-> published]
    /\ UNCHANGED <<backendVars, sockets, mounted, hidden, current, viewVars, timerVars>>

Lost(socket) ==
    IF socket.state \in {"connecting", "open"} THEN [socket EXCEPT !.state = "lost"]
    ELSE socket

\* The network drops a connection, or refuses one.
Break(s) ==
    /\ Lost(sockets[s]) # sockets[s] /\ faults < MaxFaults
    /\ sockets' = [sockets EXCEPT ![s] = Lost(@)]
    /\ faults' = faults + 1
    /\ UNCHANGED <<published, up, request, mounted, hidden, current, viewVars, timerVars>>

Refuse(s) ==
    /\ ~up /\ sockets[s].state = "connecting"
    /\ sockets' = [sockets EXCEPT ![s] = Lost(@)]
    /\ UNCHANGED <<backendVars, request, mounted, hidden, current, viewVars, timerVars>>

Crash ==
    /\ up /\ faults < MaxFaults
    /\ up' = FALSE
    /\ faults' = faults + 1
    /\ sockets' = [s \in Sockets |-> Lost(sockets[s])]
    /\ UNCHANGED <<published, request, mounted, hidden, current, viewVars, timerVars>>

\* A restarted backend starts from a world of its own.
Restart ==
    /\ ~up
    /\ up' = TRUE
    /\ published' = IF published < MaxWorlds THEN published + 1 ELSE published
    /\ UNCHANGED <<sockets, request, faults, mounted, hidden, current, viewVars, timerVars>>

Due == staleTimer.left = 0 \/ 0 \in retries

Tick ==
    /\ ~Due
    /\ age' = IF age < Never THEN age + 1 ELSE age
    /\ staleTimer' = IF staleTimer = Off THEN Off ELSE [staleTimer EXCEPT !.left = @ - 1]
    /\ retries' = {left - 1 : left \in retries}
    /\ UNCHANGED <<backendVars, sockets, request, mounted, hidden, current,
                   shown, connection, streamed, shownBy>>

SocketStep(s) ==
    \/ Opened(s) \/ Message(s) \/ BadMessage(s) \/ CloseEvent(s)
    \/ Send(s) \/ Refuse(s)

Next ==
    \/ \E s \in Sockets : SocketStep(s) \/ SendBad(s) \/ Break(s)
    \/ StaleTimerFires \/ RetryTimerFires \/ VisibilityChanged
    \/ SnapshotArrives \/ SnapshotFails \/ Unmount \/ Mount
    \/ Publish \/ Answer \/ Crash \/ Restart \/ Tick

\* Timers fire, the browser delivers what has arrived, and a backend that
\* runs serves; nothing obliges it to publish, or the operator to stay.
Fairness ==
    /\ \A s \in Sockets : WF_vars(SocketStep(s))
    /\ WF_vars(StaleTimerFires) /\ WF_vars(RetryTimerFires) /\ WF_vars(Tick)
    /\ WF_vars(Restart)

Spec == Init /\ [][Next]_vars /\ Fairness

-----------------------------------------------------------------------------
(* Properties. *)

\* What the page shows, and the label beside it, behave as LiveView says
\* (useTelemetry as a whole: shown worlds were published, the stream never
\* goes back, only the one snapshot of the mounting may).
View == INSTANCE LiveView WITH initial <- request.state # "none"
ShowsPublishedWorlds == View!Spec

\* However sockets open, break and are retried, a world that the stream
\* brought is labelled CONNECTED for at most the stale limit and two opening
\* limits (armStaleTimer is restarted by connect() and again by onopen).
StreamedIsRecent ==
    mounted /\ connection = "CONNECTED" /\ shownBy = "stream" => age <= StaleMs + 2 * FirstMs

\* Once faults have ended and the operator stays, the newest world is shown,
\* unless the late snapshot of the mounting is on the screen (onclose, connect).
LatestIsShown ==
    <>[]mounted => <>[](shown = published \/ shownBy = "snapshot")

\* "stale, unhealthy, or disconnected data cannot appear clear or current",
\* of the snapshot of the mounting as of the stream (applyWorld).
ConnectedIsRecent ==
    mounted /\ connection = "CONNECTED" => age <= StaleMs + 2 * FirstMs

=============================================================================
