------------------------------- MODULE Holdout -------------------------------
(***************************************************************************)
(* visualization/: how a frozen policy is evaluated on the flip.  A native *)
(* rollout is recorded (single_reference, unidr_holdout) and scored        *)
(* (trajectory_metrics); a second rollout shows what follows the first     *)
(* failure (failure_tail) and must agree with the first up to it           *)
(* (checkpoint_series.validate_native_prefix); a trial plays the clip once *)
(* and waits (flip_trials).                                                *)
(*                                                                         *)
(* Policy and physics are deterministic: the state of the robot is the     *)
(* sequence of reference frames its policy was shown since it was placed,  *)
(* and a state that recurs looks and ends as before.  How a step looks and *)
(* ends is an Outcome.                                                     *)
(***************************************************************************)
EXTENDS Integers, Sequences, FiniteSets, SequencesExt

CONSTANTS
    LastFrame,               \* of the one clip
    RolloutSteps,            \* STEPS of a recording
    HorizonSteps,            \* the steps scored
    ObservationSteps,        \* of a trial, after the motion
    TailSteps,               \* steps shown after the first failure
    LandingFrom, LandingFrames,  \* where a landing counts, and how long it lasts
    AirborneSteps,           \* a flip's least time in the air
    Outcomes                 \* [flying, upright, terminated, truncated]

\* A recording shorter than its horizon has no score (trajectory_metrics.py:109).
ASSUME HoldoutAssumption ==
    /\ LastFrame \in Nat \ {0} /\ RolloutSteps \in Nat \ {0} /\ TailSteps \in Nat \ {0}
    /\ HorizonSteps \in 1 .. LastFrame /\ HorizonSteps <= RolloutSteps /\ ObservationSteps \in Nat
    /\ LandingFrom \in 0 .. LastFrame /\ LandingFrames \in Nat \ {0} /\ AirborneSteps \in Nat
    /\ \A o \in Outcomes : {o.flying, o.upright, o.terminated, o.truncated} \subseteq BOOLEAN

VARIABLES
    kind,                    \* native, tail or trial
    refFrame,                \* motion.time_steps
    life, shown,             \* the robot: how often it was placed, and the frames shown since
    tail,                    \* FailureTailTerminations
    telemetry,               \* PhaseTelemetry without its rows
    rows, nativeRows,        \* of this rollout; of the native one
    ruling                   \* running, or how it ended

hovars == <<kind, refFrame, life, shown, tail, telemetry, rows, nativeRows, ruling>>

Never == -1
NoTail == [tick |-> 0, firstDone |-> Never, seen |-> FALSE]
NoTelemetry == [episode |-> 0, attempt |-> 0, airborne |-> FALSE, inversion |-> FALSE, stable |-> 0,
                recorded |-> FALSE]

HoInit ==
    /\ kind \in {"native", "trial"}
    /\ refFrame = 0 /\ life = 0 /\ shown = <<>>
    /\ tail = NoTail /\ telemetry = NoTelemetry
    /\ rows = <<>> /\ nativeRows = <<>> /\ ruling = "running"

TrialSteps == LastFrame + ObservationSteps
Steps == IF kind = "trial" THEN TrialSteps ELSE RolloutSteps

------------------------------------------------------------------------------
(* failure_tail.py, and the end of the clip in flip_trials.py *)

\* FailureTailTerminations.compute: the native flags are noted, and the episode ends
\* once the tail is over.
Continued(o) ==
    LET first == IF tail.firstDone = Never /\ (o.terminated \/ o.truncated) THEN tail.tick ELSE tail.firstDone
        limit == IF kind = "trial" THEN TrialSteps ELSE TailSteps
        expired == first # Never /\ tail.tick - first >= limit
        failed == tail.seen \/ o.terminated
    IN [tail |-> [tick |-> tail.tick + 1, firstDone |-> first, seen |-> failed],
        after |-> IF first = Never THEN Never ELSE tail.tick - first,
        terminated |-> expired /\ failed, truncated |-> expired /\ ~failed]

Ending(o) == IF kind = "native" THEN [tail |-> tail, after |-> Never, terminated |-> o.terminated,
                                      truncated |-> o.truncated]
             ELSE Continued(o)

\* Mutant: the last frame is held before anything failed as well.
HoldsAtOnce(first) == refFrame = LastFrame /\ kind # "native"

\* The command that holds the last frame, _HoldLastMotion or _TrialMotion.
Holds(first) == refFrame = LastFrame /\ (kind = "trial" \/ (kind = "tail" /\ first # Never))

------------------------------------------------------------------------------
(* unidr_holdout.py: PhaseTelemetry.observe *)

StableFrame(t, o, frame, done, wrapped) ==
    /\ t.airborne \/ o.flying
    /\ t.inversion \/ ~o.upright
    /\ frame >= LandingFrom /\ o.upright /\ ~o.flying
    /\ ~done /\ ~wrapped

Observe(t, o, frame, done, wrapped) ==
    LET stable == IF StableFrame(t, o, frame, done, wrapped) THEN t.stable + 1 ELSE 0
        landing == stable >= LandingFrames /\ ~t.recorded
    IN [landing |-> landing,
        next |-> IF done \/ wrapped
                 THEN [NoTelemetry EXCEPT !.episode = t.episode + IF done THEN 1 ELSE 0, !.attempt = t.attempt + 1]
                 ELSE [t EXCEPT !.airborne = @ \/ o.flying, !.inversion = @ \/ ~o.upright, !.stable = stable,
                                !.recorded = @ \/ landing]]

------------------------------------------------------------------------------
(* The rollouts *)

\* What the same robot did before it does again.
Reproduces(o, seen) ==
    kind = "tail" =>
       LET n == Len(rows) + 1
       IN <<nativeRows[n].life, nativeRows[n].seen>> = <<life, seen>> => o = nativeRows[n].outcome

\* A trial does not end early, and its clip neither wraps nor moves on from its end.
TrialGoesOn(next, done) == ~done /\ next = Min({Len(rows) + 1, LastFrame})

\* One control step and what is recorded of it: terminations, then the reference (a
\* clip that wraps places the robot anew), the snapshot, the telemetry, and a manual
\* reset if the episode ended.
Step(o) ==
    /\ ruling = "running" /\ Len(rows) < Steps
    /\ LET seen == Append(shown, refFrame)
           e == Ending(o)
           done == e.terminated \/ e.truncated
           next == IF done \/ Holds(e.tail.firstDone) THEN refFrame
                   ELSE IF refFrame = LastFrame THEN 0 ELSE refFrame + 1
           wrapped == next < refFrame
           observed == Observe(telemetry, o, refFrame, done, wrapped)
           robot == IF wrapped THEN [life |-> life + 1, shown |-> <<>>] ELSE [life |-> life, shown |-> seen]
           row == [frame |-> refFrame, next |-> next, reset |-> done, wrap |-> wrapped,
                   terminated |-> e.terminated, truncated |-> e.truncated, after |-> e.after,
                   landing |-> observed.landing /\ e.tail.firstDone = Never,
                   attempt |-> telemetry.attempt, episode |-> telemetry.episode,
                   state |-> robot, life |-> life, seen |-> seen, outcome |-> o]
       IN /\ Reproduces(o, seen)
          /\ rows' = Append(rows, row)
          /\ telemetry' = observed.next
          /\ refFrame' = IF done THEN 0 ELSE next
          /\ life' = IF done THEN life + 1 ELSE robot.life
          /\ shown' = IF done THEN <<>> ELSE robot.shown
          /\ tail' = IF done THEN NoTail ELSE e.tail
          /\ ruling' = IF kind = "trial" /\ ~TrialGoesOn(next, done) THEN "refused" ELSE "running"
    /\ UNCHANGED <<kind, nativeRows>>

------------------------------------------------------------------------------
(* trajectory_metrics.py *)

Done(row) == row.terminated \/ row.truncated

\* _validate_rows
RowsValid(s) == \A i \in DOMAIN s :
    /\ s[i].frame = (IF i = 1 \/ s[i - 1].reset THEN 0 ELSE s[i - 1].next)
    /\ s[i].reset = Done(s[i])
    /\ s[i].wrap = (s[i].next < s[i].frame /\ ~Done(s[i]))

\* _fixed_horizon: the rows up to the first failure, that one included.
Scored(s) == SubSeq(s, 1, Min({HorizonSteps} \cup {i \in DOMAIN s : s[i].terminated}))

\* A timeout inside the horizon censors it, and the clip may not wrap in it.
Censored(s) == \E i \in DOMAIN Scored(s) : s[i].truncated /\ ~s[i].terminated
ScoreRefused(s) == Censored(s) \/ \E i \in DOMAIN Scored(s) : s[i].wrap

\* _attempts and _episodes: the rows up to each end and, of an attempt, those whose
\* snapshot was not taken after the clip had placed the robot again.
Spans(s, ends) == {p \in (DOMAIN s) \X (DOMAIN s) :
                      /\ p[1] <= p[2] /\ p[2] \in ends \cup {Len(s)} /\ (p[1] = 1 \/ p[1] - 1 \in ends)
                      /\ \A k \in p[1] .. p[2] - 1 : k \notin ends}
Attempts(s) == {[from |-> p[1], to |-> IF s[p[2]].wrap THEN p[2] - 1 ELSE p[2]] :
                   p \in Spans(s, {i \in DOMAIN s : s[i].reset \/ s[i].wrap})}
Episodes(s) == Spans(s, {i \in DOMAIN s : s[i].reset})

------------------------------------------------------------------------------
(* checkpoint_series.py and the verdict of flip_trials.py *)

\* The step that ends a native episode leaves its reference where it is, the replay
\* goes on: phases are compared before it only.
PhasesAgree(native, video, first) == \A i \in 1 .. first - 1 : native[i].next = video[i].next

\* validate_native_prefix
PrefixAgrees(native, video) ==
    LET first == Min({i \in DOMAIN native : Done(native[i])})
    IN /\ Len(native) = Len(video) /\ video[first].after = 0
       /\ \A i \in 1 .. first :
             /\ native[i].terminated = video[i].outcome.terminated
             /\ native[i].truncated = video[i].outcome.truncated
             /\ native[i].state = video[i].state
       /\ PhasesAgree(native, video, first)

\* classify; whether the robot turned once round is not modelled.
Succeeds(s, turned) ==
    LET flying(i) == s[i].outcome.flying
        upright(i) == s[i].outcome.upright
    IN /\ turned /\ Len(s) = TrialSteps
       /\ \A i \in DOMAIN s : s[i].next >= s[i].frame
       /\ \E i \in 1 .. LastFrame - AirborneSteps + 1 : \A j \in i .. i + AirborneSteps - 1 : flying(j)
       /\ \E i \in 1 .. LastFrame : flying(i) /\ ~upright(i)
       /\ \A i \in LastFrame - LandingFrames + 1 .. LastFrame : ~flying(i) /\ upright(i)
       /\ \A i \in 1 .. LastFrame : flying(i) \/ upright(i)
       /\ \A i \in LastFrame + 1 .. TrialSteps : upright(i)

\* The native rollout is scored; if anything failed in it, what followed is replayed
\* in an environment of its own.
EndNative ==
    /\ kind = "native" /\ ruling = "running" /\ Len(rows) = RolloutSteps
    /\ IF ScoreRefused(rows) \/ ~RowsValid(rows)
       THEN /\ ruling' = IF Censored(rows) /\ RowsValid(rows) THEN "censored" ELSE "refused"
            /\ UNCHANGED <<kind, refFrame, life, shown, tail, telemetry, rows, nativeRows>>
       ELSE IF \E i \in DOMAIN rows : rows[i].terminated
       THEN /\ kind' = "tail" /\ nativeRows' = rows /\ rows' = <<>>
            /\ refFrame' = 0 /\ life' = 0 /\ shown' = <<>>
            /\ tail' = NoTail /\ telemetry' = NoTelemetry /\ UNCHANGED ruling
       ELSE ruling' = "scored" /\ UNCHANGED <<kind, refFrame, life, shown, tail, telemetry, rows, nativeRows>>

EndTail ==
    /\ kind = "tail" /\ ruling = "running" /\ Len(rows) = RolloutSteps
    /\ ruling' = IF PrefixAgrees(nativeRows, rows) THEN "verified" ELSE "refused"
    /\ UNCHANGED <<kind, refFrame, life, shown, tail, telemetry, rows, nativeRows>>

EndTrial(turned) ==
    /\ kind = "trial" /\ ruling = "running" /\ Len(rows) = TrialSteps
    /\ ruling' = IF Succeeds(rows, turned) THEN "success" ELSE "failure"
    /\ UNCHANGED <<kind, refFrame, life, shown, tail, telemetry, rows, nativeRows>>

HoNext ==
    \/ \E o \in Outcomes : Step(o)
    \/ EndNative \/ EndTail
    \/ \E turned \in BOOLEAN : EndTrial(turned)

HoSpec == HoInit /\ [][HoNext]_hovars

------------------------------------------------------------------------------
(* Properties *)

\* What is scored is the first life of the robot, from its first frame to the first
\* failure or the end of the horizon, never a step of a later life.
ScoreOfFirstLife ==
    LET s == Scored(rows)
    IN kind = "native" /\ Len(rows) >= HorizonSteps /\ ~ScoreRefused(rows) =>
          /\ \A i \in DOMAIN s : s[i].life = 0 /\ s[i].seen = [j \in 1 .. i |-> j - 1]
          /\ Len(s) = HorizonSteps \/ Last(s).terminated

\* The states an attempt is measured over are those of one life of the robot.
AttemptsOfOneLife ==
    kind = "native" /\ rows # <<>> => \A a \in Attempts(rows) : \A i, j \in a.from .. a.to :
                                         rows[i].state.life = rows[j].state.life

\* A landing is preceded, in the same life, by a flight and an inversion and by enough
\* stable steps, and counted once; none follows the first failure of that life.
LandingsReal == \A i \in DOMAIN rows : rows[i].landing =>
    LET before == {j \in 1 .. i : rows[j].life = rows[i].life}
    IN /\ \E j \in before : rows[j].outcome.flying
       /\ \E j \in before : ~rows[j].outcome.upright
       /\ \A j \in i - LandingFrames + 1 .. i :
             j \in before /\ rows[j].frame >= LandingFrom /\ rows[j].outcome.upright /\ ~rows[j].outcome.flying
       /\ \A j \in before \ {i} : ~rows[j].landing
       /\ \A j \in before : rows[j].after = Never

\* The replay repeats the native rollout up to its first end, trials play the clip in
\* one life without a reset, and the records of a rollout pass the checks made of
\* them: what is refused is a timeout in the horizon only.
NothingRefusedInEvaluation ==
    /\ ruling # "refused"
    /\ kind = "trial" => \A i \in DOMAIN rows : rows[i].life = 0 /\ ~rows[i].reset

EvaluatedAsRun == ScoreOfFirstLife /\ AttemptsOfOneLife /\ LandingsReal /\ NothingRefusedInEvaluation
=============================================================================
