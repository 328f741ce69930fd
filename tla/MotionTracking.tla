---------------------------- MODULE MotionTracking ----------------------------
(***************************************************************************)
(* tasks/motion_tracking: the command that plays a reference motion beside *)
(* the robot.  MotionSampler moves a frame per environment, MotionCommand  *)
(* keeps the reference rows, a copy of the robot's bodies and what relates *)
(* the two, BoxMotionCommand the same for a carried box, and               *)
(* MotionJointPositionAction may delay the action by a control step.       *)
(*                                                                         *)
(* A reference row is its frame.  The state of a robot is where it was     *)
(* last placed and how many control steps it has moved since; its box was  *)
(* placed with it.  An action is the age of the episode it was chosen at.  *)
(***************************************************************************)
EXTENDS Integers, Sequences, FiniteSets, Functions

CONSTANTS
    MtEnv,
    ClipLengths,             \* frames of each clip
    Fps,
    MtModes,                 \* the sampling modes tried
    MaxMtSteps, MaxMtResets  \* bounds of the model

ASSUME MotionAssumption ==
    /\ ClipLengths \in Seq(Nat \ {0}) /\ ClipLengths # <<>> /\ Fps \in Nat \ {0}
    /\ MtModes \subseteq {"start", "clip_start", "uniform", "mixed", "adaptive"}

VARIABLES
    mode, truncate, latency, auto,  \* configuration
    mtPc, mtCounter,                \* common_step_counter
    frame, clipEnd,                 \* of the sampler
    failedBins,                     \* bins with a failure count
    motionFrame, boxFrame,          \* the rows of _motion_data and _object_pos_w
    body,                           \* the simulator
    robotCache, cacheStep,          \* _robot_body_*_w, _robot_cache_step
    relative, boxState,             \* body_*_relative_w and the like; _object_obs_b
    velocityFrom,                   \* _previous of joint_acc_l2
    judged,                         \* ghost: what the terms of the last step compared
    mixedErrors,                    \* ghost: rows whose reported errors mix two states of a robot
    ended,                          \* reset_buf, and what waits for a manual reset
    raw, previousRaw, applied,      \* of the action term
    bias, motionEpisode, mtAge,     \* joint_default_bias is the episode it was drawn in
    failedAt,                       \* ghost: where robots failed
    mtResets

motionvars == <<frame, clipEnd, failedBins, motionFrame, boxFrame>>
robotvars == <<body, robotCache, cacheStep, relative, boxState, velocityFrom, judged, mixedErrors>>
mtactionvars == <<raw, previousRaw, applied>>
mtconfig == <<mode, truncate, latency, auto>>
mtvars == <<mtconfig, mtPc, mtCounter, motionvars, robotvars, ended, mtactionvars, bias, motionEpisode,
            mtAge, failedAt, mtResets>>

------------------------------------------------------------------------------
(* MotionLoader and MotionSampler *)

Clips == DOMAIN ClipLengths
ClipOffset[c \in Clips] == IF c = 1 THEN 0 ELSE ClipOffset[c - 1] + ClipLengths[c - 1]
ClipEndFrame(c) == ClipOffset[c] + ClipLengths[c] - 1
NumFrames == ClipEndFrame(Len(ClipLengths)) + 1

\* searchsorted(offsets, frame, "right") - 1
ClipOf(f) == CHOOSE c \in Clips : ClipOffset[c] <= f /\ \A d \in Clips : ClipOffset[d] <= f => d <= c

BinCount == NumFrames \div Fps + 1
Bin(f) == IF (f * BinCount) \div NumFrames >= BinCount THEN BinCount - 1 ELSE (f * BinCount) \div NumFrames

\* A bin is drawn, then a place in it: never the last frame of all.  The uniform
\* part of the weights leaves no bin without a chance.
DrawnFrom(b) ==
    LET first == (b * (NumFrames - 1)) \div BinCount
        last == ((b + 1) * (NumFrames - 1) - 1) \div BinCount
    IN {first} \cup first .. last

SampleFrames == CASE mode = "start" -> {0}
                  [] mode = "clip_start" -> {ClipOffset[c] : c \in Clips}
                  [] mode \in {"uniform", "mixed"} -> 0 .. NumFrames - 1
                  [] mode = "adaptive" -> UNION {DrawnFrom(b) : b \in 0 .. BinCount - 1}

Over(f, rows, value) == [e \in MtEnv |-> IF e \in rows THEN value[e] ELSE f[e]]

\* Mutant: the end of the clip before is kept.
KeepClipEnd(rows, drawn) == frame' = Over(frame, rows, drawn) /\ UNCHANGED clipEnd

SetSampledFrames(rows, drawn) ==
    /\ frame' = Over(frame, rows, drawn)
    /\ clipEnd' = Over(clipEnd, rows, [e \in MtEnv |-> ClipEndFrame(ClipOf(drawn[e]))])

\* update_failure_stats: an average that forgets, but never quite.
UpdateFailureStats(terminated) ==
    failedBins' = IF mode = "adaptive" THEN failedBins \cup {Bin(frame[e]) : e \in terminated} ELSE failedBins

------------------------------------------------------------------------------
(* MotionCommand *)

\* The robot and its box as a sampled reference places them.
Placed(drawn) == [e \in MtEnv |-> [robot |-> drawn[e], box |-> drawn[e], moved |-> 0]]

\* _refresh_motion and _ingest_motion_rows, of the base class and for the box.
ShowMotion(rows, frames) ==
    /\ motionFrame' = Over(motionFrame, rows, frames)
    /\ boxFrame' = Over(boxFrame, rows, frames)

\* _refresh_robot_state: the copy of a control step is made once, unless forced.
RefreshedRobot(step) == IF cacheStep # step THEN body ELSE robotCache

\* _refresh_relative_state and _refresh_object_state: the reference turned to where the
\* robot's anchor is, and robot and box seen from there.
RelateRobot(rows) == relative' = Over(relative, rows, [e \in MtEnv |-> <<motionFrame'[e], robotCache'[e]>>])
RelateBox(rows, now) == boxState' = Over(boxState, rows, [e \in MtEnv |-> <<robotCache'[e], now[e]>>])

\* post_compute: a forced copy of the rows, then what relates them to the motion.
PostCompute(rows, now, step) ==
    /\ robotCache' = Over(robotCache, rows, now)
    /\ cacheStep' = step
    /\ RelateRobot(rows)
    /\ RelateBox(rows, now)

\* What the terminations and rewards of a step compare, with the robot as they see it:
\* reference rows with it, the reference turned to it, its box, and its joint
\* velocities with those of the step before.
JudgedBodies(seen) == [e \in MtEnv |-> [reference |-> motionFrame[e], anchored |-> relative[e], robot |-> seen[e]]]
JudgedBox == [e \in MtEnv |-> [reference |-> boxFrame[e], box |-> body[e]]]
JudgedVelocity == [e \in MtEnv |-> [from |-> velocityFrom[e], to |-> body[e]]]

MtInit ==
    /\ mode \in MtModes /\ truncate \in BOOLEAN /\ latency \in BOOLEAN /\ auto \in BOOLEAN
    /\ mtPc = "init" /\ mtCounter = 0 /\ mtResets = 0
    /\ frame = [e \in MtEnv |-> 0] /\ clipEnd = [e \in MtEnv |-> ClipEndFrame(1)]
    /\ failedBins = {} /\ failedAt = {}
    /\ motionFrame = frame /\ boxFrame = frame
    /\ body = Placed(frame) /\ robotCache = body /\ cacheStep = 0
    /\ relative = [e \in MtEnv |-> <<frame[e], body[e]>>]
    /\ boxState = [e \in MtEnv |-> <<body[e], body[e]>>]
    /\ velocityFrom = body /\ judged = <<>> /\ mixedErrors = {}
    /\ ended = {}
    /\ raw = [e \in MtEnv |-> 0] /\ previousRaw = raw /\ applied = raw
    /\ bias = [e \in MtEnv |-> 0] /\ motionEpisode = [e \in MtEnv |-> 0] /\ mtAge = [e \in MtEnv |-> 0]

\* An action is processed and a control step of physics follows.
ProcessActions ==
    /\ mtPc = "act" /\ mtCounter < MaxMtSteps
    /\ auto \/ ended = {}
    /\ mtAge' = [e \in MtEnv |-> mtAge[e] + 1]
    /\ previousRaw' = raw
    /\ raw' = mtAge'
    /\ applied' = IF latency THEN previousRaw' ELSE raw'
    /\ body' = [e \in MtEnv |-> [body[e] EXCEPT !.moved = @ + 1]]
    /\ mtPc' = "terms"
    /\ UNCHANGED <<mtconfig, mtCounter, motionvars, robotCache, cacheStep, relative, boxState, velocityFrom, judged,
                   mixedErrors, ended, bias, motionEpisode, failedAt, mtResets>>

\* motion_clip_end
ClipEndReached == {e \in MtEnv : frame[e] >= clipEnd[e]}

\* Terminations and rewards compare the frame the action was chosen for with the
\* robot as it is now, copied by the first term that asks for it.  The command
\* follows: failures are counted, rows that go on take the next frame and rows past
\* their clip are sampled anew -- unless the task ends episodes there.
Terms(terminated, timedOut, drawn) ==
    /\ mtPc = "terms"
    /\ mtCounter' = mtCounter + 1
    /\ LET done == terminated \cup timedOut \cup (IF truncate THEN ClipEndReached ELSE {})
           going == MtEnv \ done
           next == [e \in MtEnv |-> IF e \in going THEN frame[e] + 1 ELSE frame[e]]
           wrapped == IF truncate THEN {} ELSE {e \in going : next[e] > clipEnd[e]}
           frames == Over(next, wrapped, drawn)
       IN /\ judged' = [bodies |-> JudgedBodies(RefreshedRobot(mtCounter')), boxes |-> JudgedBox,
                        velocities |-> JudgedVelocity, now |-> body, age |-> mtAge]
          /\ velocityFrom' = body
          /\ UpdateFailureStats(terminated)
          /\ failedAt' = IF mode = "adaptive"
                         THEN failedAt \cup {body[e].robot + body[e].moved - 1 : e \in terminated} ELSE failedAt
          /\ frame' = frames
          /\ clipEnd' = Over(clipEnd, wrapped, [e \in MtEnv |-> ClipEndFrame(ClipOf(frames[e]))])
          /\ ShowMotion(MtEnv, frames)
          /\ body' = Over(body, wrapped, Placed(frames))
          /\ PostCompute(MtEnv, body', mtCounter')
          /\ ended' = done
          /\ mtPc' = IF auto /\ done # {} THEN "autoreset" ELSE "act"
    /\ UNCHANGED <<mtconfig, mixedErrors, mtactionvars, bias, motionEpisode, mtAge, mtResets>>

\* What reset reports and draws for rows, before it resamples them.
ReportErrors(rows) == mixedErrors' = {e \in rows : robotCache[e] # body[e]}

\* reset and the compute that follows it, for the rows under reset: what was
\* sampled is committed in between, and its reference rows are not gathered twice.
Reset(rows, drawn) ==
    /\ ReportErrors(rows)
    /\ SetSampledFrames(rows, drawn)
    /\ ShowMotion(rows, drawn)
    /\ body' = Over(body, rows, Placed(drawn))
    /\ PostCompute(rows, body', mtCounter)
    /\ motionEpisode' = [e \in MtEnv |-> motionEpisode[e] + IF e \in rows THEN 1 ELSE 0]
    /\ bias' = Over(bias, rows, motionEpisode')
    /\ raw' = Over(raw, rows, [e \in MtEnv |-> 0])
    /\ previousRaw' = Over(previousRaw, rows, [e \in MtEnv |-> 0])
    /\ mtAge' = Over(mtAge, rows, [e \in MtEnv |-> 0])
    /\ ended' = ended \ rows
    /\ mtPc' = "act"
    /\ velocityFrom' = Over(velocityFrom, rows, body')
    /\ UNCHANGED <<mtconfig, mtCounter, failedBins, judged, applied, failedAt>>

FirstReset(drawn) == mtPc = "init" /\ Reset(MtEnv, drawn) /\ UNCHANGED mtResets

Autoreset(drawn) == mtPc = "autoreset" /\ Reset(ended, drawn) /\ UNCHANGED mtResets

ManualReset(rows, drawn) ==
    /\ mtPc = "act" /\ mtResets < MaxMtResets
    /\ Reset(rows, drawn)
    /\ mtResets' = mtResets + 1

MtNext ==
    \/ ProcessActions
    \/ \E drawn \in [MtEnv -> SampleFrames] :
          \/ \E terminated, timedOut \in SUBSET MtEnv : Terms(terminated, timedOut, drawn)
          \/ FirstReset(drawn)
          \/ Autoreset(drawn)
          \/ \E rows \in SUBSET MtEnv \ {{}} : ManualReset(rows, drawn)

MtSpec == MtInit /\ [][MtNext]_mtvars
------------------------------------------------------------------------------
(* Properties *)

MtTypeOK ==
    /\ mtPc \in {"init", "act", "terms", "autoreset"} /\ mtCounter \in 0 .. MaxMtSteps
    /\ frame \in [MtEnv -> 0 .. NumFrames - 1] /\ clipEnd \in [MtEnv -> 0 .. NumFrames - 1]
    /\ failedBins \subseteq 0 .. BinCount - 1 /\ ended \subseteq MtEnv

\* The reference of e is one frame per control step ahead of where its robot was
\* placed, in the clip it was placed in; it stands still in the step that ended
\* the episode, whose terms compared the frame before.
FramesKeepPace(e) ==
    /\ frame[e] = body[e].robot + body[e].moved - (IF e \in ended THEN 1 ELSE 0)
    /\ clipEnd[e] = ClipEndFrame(ClipOf(body[e].robot)) /\ frame[e] <= clipEnd[e]

\* What the policy observes of e relates this frame to the robot and the box as
\* they are, also after a row of theirs was placed anew in the same step.
RowsAgree(e) ==
    /\ motionFrame[e] = frame[e] /\ boxFrame[e] = frame[e] /\ body[e].box = body[e].robot
    /\ relative[e] = <<frame[e], body[e]>> /\ boxState[e] = <<body[e], body[e]>>

\* The terms of a step compare the robot as it is with the frame its action was chosen
\* for, turned to where the robot was when it was chosen, and its box likewise.
JudgedAsChosen(e) ==
    LET now == judged.now[e]
        before == [now EXCEPT !.moved = @ - 1]
        then == now.robot + before.moved
    IN /\ judged.bodies[e] = [reference |-> then, anchored |-> <<then, before>>, robot |-> now]
       /\ judged.boxes[e] = [reference |-> then, box |-> now] /\ now.box = now.robot

\* An acceleration is between two successive states of one robot, also after a reset;
\* not in the first step after its clip wrapped, which is not a reset.
AccelerationOfOneRobot(e) ==
    LET v == judged.velocities[e]
    IN (v.to.moved = 1 /\ judged.age[e] > 1) \/ v.from = [v.to EXCEPT !.moved = @ - 1]

\* The action that moves the robot is the last one or, with latency, the one before
\* of the same episode; its bias is that episode's.
ActionOfThisEpisode(e) ==
    /\ mtPc = "terms" => applied[e] = mtAge[e] - (IF latency THEN 1 ELSE 0)
    /\ bias[e] = motionEpisode[e]

\* Motion, robot, box and actions of every environment are in step between two
\* control steps, and failures are counted where the robots failed.
MotionInStep ==
    /\ mtPc # "init" => \A e \in MtEnv : ActionOfThisEpisode(e)
    /\ mtPc \in {"act", "autoreset"} => \A e \in MtEnv : FramesKeepPace(e) /\ RowsAgree(e)
    /\ judged # <<>> => \A e \in MtEnv : JudgedAsChosen(e) /\ AccelerationOfOneRobot(e)
    /\ mixedErrors = {}
    /\ failedBins = {Bin(f) : f \in failedAt}
=============================================================================
