------------------------------ MODULE LiveView ------------------------------
(***************************************************************************)
(* What the dashboard promises about the world it shows, whatever carries  *)
(* it.  A shown world was published.  The stream never goes back to a      *)
(* world older than one it has shown; the one snapshot that the page asks  *)
(* for when it is mounted may be older, and comes at most once.  A lost    *)
(* connection changes the label and keeps the last world on the screen.    *)
(*                                                                         *)
(* Worlds are numbered in the order the backend published them (0 is the   *)
(* world the page is built with).  TelemetryClient implements this module. *)
(***************************************************************************)
EXTENDS Naturals

VARIABLES
    published,   \* how many worlds the backend has published
    shown,       \* the world on the screen
    streamed,    \* the newest world the stream has shown
    connection,  \* the label beside the world
    initial      \* whether the snapshot asked for at mounting may still come

vars == <<published, shown, streamed, connection, initial>>

Init ==
    /\ published \in Nat
    /\ shown = 0
    /\ streamed = 0
    /\ connection = "CONNECTING"
    /\ initial = TRUE

Publish ==
    /\ published' = published + 1
    /\ UNCHANGED <<shown, streamed, connection, initial>>

\* The stream shows a world no older than the ones it has shown.
StreamWorld ==
    /\ \E world \in 1..published : world >= streamed /\ shown' = world
    /\ streamed' = shown'
    /\ connection' = "CONNECTED"
    /\ UNCHANGED <<published, initial>>

\* The snapshot of the mounting is shown, or never comes.
InitialSnapshot ==
    /\ initial
    /\ initial' = FALSE
    /\ \/ shown' \in 1..published /\ connection' = "CONNECTED"
       \/ UNCHANGED <<shown, connection>>
    /\ UNCHANGED <<published, streamed>>

LoseConnection ==
    /\ connection' = "DISCONNECTED"
    /\ UNCHANGED <<published, shown, streamed, initial>>

\* Only a page that has shown no world says that it is connecting.
Reconnect ==
    /\ shown = 0
    /\ connection' = "CONNECTING"
    /\ UNCHANGED <<published, shown, streamed, initial>>

\* The page is left and entered again.
Remount ==
    /\ shown' = 0
    /\ streamed' = 0
    /\ connection' = "CONNECTING"
    /\ initial' = TRUE
    /\ UNCHANGED published

Next ==
    \/ Publish
    \/ StreamWorld
    \/ InitialSnapshot
    \/ LoseConnection
    \/ Reconnect
    \/ Remount

Spec == Init /\ [][Next]_vars

=============================================================================
