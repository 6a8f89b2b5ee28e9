---------------------------- MODULE UseTelemetry ----------------------------
(***************************************************************************)
(* useTelemetry of frontend/src/state/useTelemetry.ts as a whole: a build  *)
(* of the dashboard either talks to a backend (TelemetryClient) or plays   *)
(* the recorded demo (DemoPlayback).  Which one it does is settled by      *)
(* STATIC_DEMO when it is built; every effect of the hook tests it.        *)
(***************************************************************************)
EXTENDS TelemetryClient, DemoPlayback

VARIABLE STATIC_DEMO

useTelemetryVars == <<vars, demoVars, STATIC_DEMO>>

UseTelemetryInit ==
    /\ STATIC_DEMO \in BOOLEAN
    /\ Init
    /\ DemoInit
    /\ hiddenTab = hidden

LiveEffect == ~STATIC_DEMO /\ Next /\ UNCHANGED <<demoVars, STATIC_DEMO>>
DemoEffects == STATIC_DEMO /\ DemoNext /\ UNCHANGED <<vars, STATIC_DEMO>>

UseTelemetrySpec ==
    /\ UseTelemetryInit
    /\ [][LiveEffect \/ DemoEffects]_useTelemetryVars
    /\ ~STATIC_DEMO => Fairness
    /\ STATIC_DEMO => DemoFairness

\* Of a build that talks to a backend (connect, onclose): once faults have
\* ended and the operator stays, the newest world is shown, unless the late
\* snapshot of the mounting is on the screen.
LiveShowsTheLatest == ~STATIC_DEMO => LatestIsShown

\* Of a static demo (advance, setActive): left playing, it shows frame after
\* frame, as long as no corrupt body stays in the cache.
DemoKeepsPlaying == STATIC_DEMO => DemoPlays

=============================================================================
