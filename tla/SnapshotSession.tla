-------------------------- MODULE SnapshotSession --------------------------
(***************************************************************************)
(* visualization/playback_session.py: an evaluation caches the state of    *)
(* the physics and what its overlay getter draws, frame by frame, and      *)
(* renders them to a video at the end of a trial.  The getters are the     *)
(* caller's and may raise; the caller may go on.  A state is its time.     *)
(***************************************************************************)
EXTENDS Integers, Sequences

CONSTANTS
    SnCapabilities,   \* what environments can do: [physics, overlay]
    MaxSnTime

VARIABLES
    snSession,    \* [at, getter, snapshots, overlays]
    snCan,        \* the capabilities of the environment
    snTime,       \* the environment's state
    snTorn,       \* ghost: an overlay getter raised since the cache was last empty
    snVideo       \* ghost: the last video, [frames : Seq([state, drawn]), own, at, torn]

snvars == <<snSession, snCan, snTime, snTorn, snVideo>>

NoOverlay == 0

SnInit ==
    /\ snCan \in SnCapabilities
    /\ snSession = [at |-> "absent", getter |-> FALSE, snapshots |-> <<>>, overlays |-> <<>>]
    /\ snTime = 1 /\ snTorn = FALSE /\ snVideo = [frames |-> <<>>, own |-> FALSE, at |-> 0, torn |-> FALSE]

\* The constructor, gated by the capabilities.
OpenSession ==
    /\ snSession.at = "absent"
    /\ \E getter \in BOOLEAN :
        snSession' = [snSession EXCEPT !.getter = getter,
                        !.at = IF snCan.physics /\ (getter => snCan.overlay) THEN "open" ELSE "refused"]
    /\ UNCHANGED <<snCan, snTime, snTorn, snVideo>>

StepTrial ==
    /\ snSession.at = "open" /\ snTime < MaxSnTime
    /\ snTime' = snTime + 1
    /\ UNCHANGED <<snSession, snCan, snTorn, snVideo>>

\* The state is cached before the overlays are asked for.
Cached(session, drawn) ==
    [session EXCEPT !.snapshots = Append(@, snTime), !.overlays = Append(@, drawn)]
Snapshot ==
    /\ snSession.at = "open" /\ Len(snSession.snapshots) < MaxSnTime
    /\ \/ snSession' = Cached(snSession, IF snSession.getter THEN snTime ELSE NoOverlay) /\ UNCHANGED snTorn
       \/ /\ snSession.getter
          /\ snSession' = [snSession EXCEPT !.snapshots = Append(@, snTime)]
          /\ snTorn' = TRUE
    /\ UNCHANGED <<snCan, snTime, snVideo>>

Cleared(session) == [session EXCEPT !.snapshots = <<>>, !.overlays = <<>>]
Clear ==
    /\ snSession.at = "open"
    /\ snSession' = Cleared(snSession) /\ snTorn' = FALSE
    /\ UNCHANGED <<snCan, snTime, snVideo>>

\* render_snapshots: overlays of its own getter, asked now once per frame, before those
\* cached; without any, none are drawn.
Drawn(own) ==
    IF own THEN [i \in DOMAIN snSession.snapshots |-> snTime] ELSE snSession.overlays
Visible(drawn) == \E i \in DOMAIN drawn : drawn[i] # NoOverlay
Frame(drawn, i) ==
    [state |-> snSession.snapshots[i],
     drawn |-> IF Visible(drawn) /\ i \in DOMAIN drawn THEN drawn[i] ELSE NoOverlay]
Render ==
    /\ snSession.at = "open" /\ snSession.snapshots # <<>>
    /\ \E own \in BOOLEAN :
        /\ Visible(Drawn(own)) => snCan.overlay
        /\ snVideo' = [frames |-> [i \in DOMAIN snSession.snapshots |-> Frame(Drawn(own), i)],
                        own |-> own, at |-> snTime, torn |-> snTorn]
    /\ UNCHANGED <<snSession, snCan, snTime, snTorn>>

SnNext == OpenSession \/ StepTrial \/ Snapshot \/ Clear \/ Render

SnSpec == SnInit /\ [][SnNext]_snvars

\* Every frame of a video draws over its state what the getter drew at that state, and
\* never what it drew in an earlier trial; a getter given at the end draws the end on
\* every frame.  A getter that raised in the trial shifts the frames after it.
FramesAligned ==
    snVideo.torn \/ \A i \in DOMAIN snVideo.frames :
        snVideo.frames[i].drawn =
            IF snVideo.own THEN snVideo.at ELSE IF snSession.getter THEN snVideo.frames[i].state ELSE NoOverlay
=============================================================================
