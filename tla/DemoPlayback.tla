---------------------------- MODULE DemoPlayback ----------------------------
(***************************************************************************)
(* The static demo: createDemoPlayback and createChunkLoader of            *)
(* frontend/src/simulation/demoPlayback.ts, and the half of useTelemetry   *)
(* that plays the recording when there is no backend.                      *)
(*                                                                         *)
(* advance() is asynchronous: a call of it is a record that says which     *)
(* generation of the playback it belongs to and what it awaits.  Pausing   *)
(* (setActive) starts a new generation; calls of an older one go on and    *)
(* must change nothing.  A frame is its chunk and its place in the chunk;  *)
(* 0 is the world the page is built with.                                  *)
(***************************************************************************)
EXTENDS Naturals, Sequences, SequencesExt

CONSTANTS
    Chunks,          \* chunks of the recording
    Frames,          \* frames of each
    CacheSize,       \* chunks that fit in the loader's 20 MB
    MaxGenerations,  \* bound on the pauses and resumptions
    MaxCorrupt       \* bound on the bodies that do not decode

ASSUME DemoPlaybackAssumption ==
    /\ {Chunks, Frames, CacheSize} \subseteq Nat \ {0}
    /\ {MaxGenerations, MaxCorrupt} \subseteq Nat

VARIABLES
    hiddenTab, paused, attached,  \* useTelemetry: document.hidden, paused, playback # null
    active, disposed, generation,
    manifest,      \* whether it is loaded
    chunk,         \* the chunk whose frames are held, 0 for none
    chunkIndex,    \* the next chunk to load
    frameIndex,    \* the next frame to show of the held ones
    timer,         \* setTimeout(advance, ...) is pending
    calls,         \* the calls of advance() that await something
    cache,         \* the loader's bodies, the most recently used last
    corrupt,       \* corrupt bodies so far
    frame,         \* `world`
    demoStatus, demoConnection

demoViewVars == <<frame, demoStatus, demoConnection>>
playVars == <<active, disposed, generation, manifest, chunk, chunkIndex, frameIndex, timer>>
demoVars == <<hiddenTab, paused, attached, active, disposed, generation, manifest,
              chunk, chunkIndex, frameIndex, timer, calls, cache, corrupt, frame,
              demoStatus, demoConnection>>

Bodies == [of : 1..Chunks, good : BOOLEAN]
Calls == [token : 0..MaxGenerations, awaits : {"manifest", "chunk"}]
NoFrame == <<0, 0>>

DemoTypeOK ==
    /\ {hiddenTab, paused, attached, active, disposed, manifest, timer} \subseteq BOOLEAN
    /\ generation \in 0..MaxGenerations
    /\ chunk \in 0..Chunks /\ chunkIndex \in 1..Chunks
    /\ frameIndex \in 1..(Frames + 1)
    /\ calls \subseteq Calls
    /\ Len(cache) <= CacheSize /\ \A i \in 1..Len(cache) : cache[i] \in Bodies
    /\ corrupt \in 0..MaxCorrupt
    /\ frame \in {NoFrame} \cup (1..Chunks) \X (1..Frames)
    /\ demoStatus \in {"Loading demo", "Demo", "Paused", "Buffering demo"}
    /\ demoConnection \in {"CONNECTING", "CONNECTED", "DISCONNECTED"}

DemoInit ==
    /\ hiddenTab \in BOOLEAN
    /\ paused = FALSE /\ attached = FALSE
    /\ active = FALSE /\ disposed = FALSE /\ generation = 0
    /\ manifest = FALSE /\ chunk = 0 /\ chunkIndex = 1 /\ frameIndex = Frames + 1
    /\ timer = FALSE /\ calls = {}
    /\ cache = <<>> /\ corrupt = 0
    /\ frame = NoFrame
    /\ demoStatus = "Loading demo"
    /\ demoConnection = "CONNECTING"

-----------------------------------------------------------------------------
(* advance() *)

Current(call) == call.token = generation

\* onWorld and onConnection("CONNECTED") of useTelemetry, then the next timer.
Show(c, f) ==
    /\ frame' = <<c, f>>
    /\ frameIndex' = f + 1
    /\ demoStatus' = "Demo"
    /\ demoConnection' = "CONNECTED"
    /\ timer' = TRUE

\* The beginning of a call: what is held is shown, what is missing is asked
\* for.  `token` is the generation the call is made in.
Advance(token, others) ==
    IF ~manifest
    THEN /\ calls' = others \cup {[token |-> token, awaits |-> "manifest"]}
         /\ timer' = FALSE
         /\ UNCHANGED <<frameIndex, demoViewVars>>
    ELSE IF frameIndex > Frames
    THEN /\ calls' = others \cup {[token |-> token, awaits |-> "chunk"]}
         /\ timer' = FALSE
         /\ UNCHANGED <<frameIndex, demoViewVars>>
    ELSE /\ Show(chunk, frameIndex)
         /\ calls' = others

TimerFires ==
    /\ timer /\ active /\ ~disposed
    /\ Advance(generation, calls)
    /\ UNCHANGED <<hiddenTab, paused, attached, active, disposed, generation, manifest,
                   chunk, chunkIndex, cache, corrupt>>

\* The manifest has come: the call goes on to the first chunk.
ManifestLoaded(call) ==
    /\ call.awaits = "manifest" /\ Current(call)
    /\ manifest' = TRUE
    /\ calls' = (calls \ {call}) \cup {[call EXCEPT !.awaits = "chunk"]}
    /\ UNCHANGED <<hiddenTab, paused, attached, active, disposed, generation, chunk,
                   chunkIndex, frameIndex, timer, cache, corrupt, demoViewVars>>

\* createChunkLoader: a body is kept as it was downloaded, before it is
\* decoded; the least recently used ones make room for it.
Kept(body) ==
    LET others == SelectSeq(cache, LAMBDA b : b.of # body.of)
        room == IF Len(others) < CacheSize THEN others ELSE Tail(others)
    IN  Append(room, body)

\* The body that the loader works on: the cached one, or a downloaded one.
BodyOf(c, body) ==
    /\ body.of = c
    /\ \/ body \in ToSet(cache)
       \/ /\ \A b \in ToSet(cache) : b.of # c
          /\ body.good \/ corrupt < MaxCorrupt

\* A slip: a chunk that a superseded call had asked for is taken.
ChunkLoadedUnchecked(call) ==
    /\ call.awaits = "chunk"
    /\ chunk' = chunkIndex
    /\ chunkIndex' = (chunkIndex % Chunks) + 1
    /\ IF Current(call) THEN Show(chunkIndex, 1)
       ELSE frameIndex' = 1 /\ UNCHANGED <<demoViewVars, timer>>
    /\ calls' = calls \ {call}
    /\ UNCHANGED <<hiddenTab, paused, attached, active, disposed, generation, manifest,
                   cache, corrupt>>

CorruptAfter(body) ==
    IF body.good \/ body \in ToSet(cache) THEN corrupt ELSE corrupt + 1

\* A slip: a demo that has shown a frame does not try again.
FailedOnce(call) ==
    /\ Current(call)
    /\ demoStatus' = "Buffering demo"
    /\ demoConnection' = IF frame = NoFrame THEN "DISCONNECTED" ELSE "CONNECTED"
    /\ timer' = (frame = NoFrame)
    /\ calls' = calls \ {call}
    /\ UNCHANGED <<hiddenTab, paused, attached, active, disposed, generation, manifest,
                   chunk, chunkIndex, frameIndex, frame, cache, corrupt>>

\* A slip: a failed call of an older generation sets the timer, too.
FailedUnchecked(call) ==
    /\ demoStatus' = "Buffering demo"
    /\ demoConnection' = IF frame = NoFrame THEN "DISCONNECTED" ELSE "CONNECTED"
    /\ timer' = TRUE
    /\ calls' = calls \ {call}
    /\ UNCHANGED <<hiddenTab, paused, attached, active, disposed, generation, manifest,
                   chunk, chunkIndex, frameIndex, frame, cache, corrupt>>

\* The call's chunk has come and decodes (loadChunk, decodeDemoFrames).
ChunkLoaded(call) ==
    /\ call.awaits = "chunk" /\ Current(call)
    /\ \E body \in Bodies :
        /\ BodyOf(chunkIndex, body) /\ body.good
        /\ cache' = Kept(body)
    /\ chunk' = chunkIndex
    /\ chunkIndex' = (chunkIndex % Chunks) + 1
    /\ Show(chunkIndex, 1)
    /\ calls' = calls \ {call}
    /\ UNCHANGED <<hiddenTab, paused, attached, active, disposed, generation, manifest,
                   corrupt>>

\* catch: a refusal, the time limit, or a body that does not decode.
Failed(call) ==
    /\ Current(call)
    /\ \/ UNCHANGED <<cache, corrupt>>
       \/ /\ call.awaits = "chunk"
          /\ \E body \in Bodies :
              /\ BodyOf(chunkIndex, body) /\ ~body.good
              /\ cache' = Kept(body)
              /\ corrupt' = CorruptAfter(body)
    /\ demoStatus' = "Buffering demo"
    /\ demoConnection' = IF frame = NoFrame THEN "DISCONNECTED" ELSE "CONNECTED"
    /\ timer' = TRUE
    /\ calls' = calls \ {call}
    /\ UNCHANGED <<hiddenTab, paused, attached, active, disposed, generation, manifest,
                   chunk, chunkIndex, frameIndex, frame>>

\* What a call of an older generation awaits comes or fails: a body it had
\* downloaded before the abort may be kept, nothing else changes.
Superseded(call) ==
    /\ ~Current(call)
    /\ \/ UNCHANGED <<cache, corrupt>>
       \/ /\ call.awaits = "chunk"
          /\ \E body \in Bodies :
              /\ BodyOf(chunkIndex, body)
              /\ cache' = Kept(body)
              /\ corrupt' = CorruptAfter(body)
    /\ calls' = calls \ {call}
    /\ UNCHANGED <<hiddenTab, paused, attached, playVars, demoViewVars>>

-----------------------------------------------------------------------------
(* setActive and what calls it *)

\* The playback and its label after `next` is asked for.
SetActive(next) ==
    IF disposed \/ active = next
    THEN /\ demoStatus' = IF next THEN demoStatus ELSE "Paused"
         /\ UNCHANGED <<active, generation, timer, calls, frame, frameIndex, demoConnection>>
    ELSE /\ active' = next
         /\ generation' = generation + 1
         /\ IF next
            THEN Advance(generation + 1, calls)
            ELSE /\ timer' = FALSE
                 /\ demoStatus' = "Paused"
                 /\ UNCHANGED <<calls, frame, frameIndex, demoConnection>>

\* The effect on [playback, paused] and the visibilitychange listener.
Update(hiddenNow, pausedNow) ==
    /\ generation < MaxGenerations
    /\ attached' = TRUE
    /\ hiddenTab' = hiddenNow
    /\ paused' = pausedNow
    /\ SetActive(~hiddenNow /\ ~pausedNow)
    /\ UNCHANGED <<disposed, manifest, chunk, chunkIndex, cache, corrupt>>

Attach == ~attached /\ Update(hiddenTab, paused)
TogglePaused == attached /\ ~disposed /\ Update(hiddenTab, ~paused)
TabVisibility == attached /\ ~disposed /\ Update(~hiddenTab, paused)

\* The console is exited.
Dispose ==
    /\ attached /\ ~disposed /\ generation < MaxGenerations
    /\ disposed' = TRUE
    /\ active' = FALSE
    /\ generation' = IF active THEN generation + 1 ELSE generation
    /\ timer' = FALSE
    /\ chunk' = 0 /\ frameIndex' = Frames + 1
    /\ UNCHANGED <<hiddenTab, paused, attached, manifest, chunkIndex, calls, cache,
                   corrupt, demoViewVars>>

CallStep == \E call \in calls :
    ManifestLoaded(call) \/ ChunkLoaded(call) \/ Failed(call) \/ Superseded(call)

DemoNext ==
    \/ TimerFires \/ CallStep
    \/ Attach \/ TogglePaused \/ TabVisibility \/ Dispose

\* The browser fires timers, and downloads that are tried again and again
\* succeed at last.
DemoFairness ==
    /\ WF_demoVars(Attach)
    /\ WF_demoVars(TimerFires)
    /\ WF_demoVars(CallStep)
    /\ SF_demoVars(\E call \in calls : ManifestLoaded(call))
    /\ SF_demoVars(\E call \in calls : ChunkLoaded(call))

DemoSpec == DemoInit /\ [][DemoNext]_demoVars /\ DemoFairness

-----------------------------------------------------------------------------
(* Properties. *)

Successor(f) ==
    IF f = NoFrame THEN <<1, 1>>
    ELSE IF f[2] < Frames THEN <<f[1], f[2] + 1>>
    ELSE <<(f[1] % Chunks) + 1, 1>>

\* Whatever is paused, aborted, evicted or downloaded again, the recording
\* is played frame by frame: none is skipped, repeated or shown by a call
\* of an older generation (the token checks of advance()).
FramesInOrder == [][frame' # frame => frame' = Successor(frame) /\ active']_demoVars

\* A playing demo is driven by one timer or one call and never by two, and
\* a paused one by none, so that its label stays (advance, setActive).
OneDriver ==
    LET driving == {call \in calls : Current(call)}
    IN  /\ active => \/ timer /\ driving = {}
                     \/ ~timer /\ \E call \in calls : driving = {call}
        /\ attached /\ ~active => ~timer /\ driving = {}
        /\ attached /\ ~active /\ ~disposed => demoStatus = "Paused"

\* "The download will retry automatically": a demo that is left playing
\* shows frame after frame, as long as no corrupt body is in the cache.
DemoPlays ==
    (/\ <>[]active
     /\ <>[](\A b \in ToSet(cache) : b.good))
        => \A f \in (1..Chunks) \X (1..Frames) : []<>(frame = f)

=============================================================================
