------------------------------- MODULE Allegro -------------------------------
(***************************************************************************)
(* tasks/manipulation/allegro_inhand: a hand that turns a ball, and the    *)
(* collection of grasps it may start from.                                 *)
(*                                                                         *)
(* One observation term owns the state of hand and ball that termination,  *)
(* rewards, metrics and the recorder share; it is taken once per control   *)
(* step and again for the rows of a reset.  A collecting run holds the     *)
(* hand still, ends an episode as soon as the grasp is no longer one, and  *)
(* records what is still held at the time-out; a later run draws its       *)
(* initial poses from the file.                                            *)
(*                                                                         *)
(* The hand is one joint.  A sample is what the simulator shows, with the  *)
(* life and the control step it belongs to; a rate is the pair of samples  *)
(* it is the difference of.                                                *)
(***************************************************************************)
EXTENDS Integers, Sequences, SequencesExt, FiniteSets

CONSTANTS
    AlEnv,
    AlConfigs,                      \* configurations tried, some of them refused
    AlPoseBatches,                  \* where a control step may leave hand and ball
    AlHome,                         \* default_joint_pos and default_root_state
    AlSensors,                      \* number of contact sensors
    MaxAlSteps, MaxAlResets, MaxAlRuns   \* bounds of the model

\* What a snapshot holds: the joint, the height and turn of the ball, the distance of the
\* fingertips and how many contacts.
AlPoses == [joint : Int, ball : Int, turn : Int, distance : Int, contacts : Int]

\* An episode lasts at least a step: a duration that is not positive is refused when the
\* environment is configured (envs/manager_based_rl_env.py:107), and a fraction of a step
\* is rounded up (:304).
AlConfigurations ==
    [scale : Int, rawClip : Int \X Int, range : Int \X Int, jointNoise : Int, kp : Int, kd : Int,
     collects : BOOLEAN, enabled : BOOLEAN, contactNames : Seq(STRING), maxDistance : Int, minContacts : Int,
     minimumHeight : Int, collectionTarget : Int, autoSave : BOOLEAN, cached : BOOLEAN, resetNoise : Int,
     ballNoise : Int, ballOffset : Int, rewardClip : Int \X Int, maxLength : Nat \ {0}, randomAge : BOOLEAN,
     autoreset : BOOLEAN, actions : SUBSET Int]

ASSUME AlAssumption ==
    /\ AlEnv # {} /\ IsFiniteSet(AlEnv) /\ AlSensors \in Nat \ {0}
    /\ AlConfigs \subseteq AlConfigurations
    /\ AlHome \in AlPoses /\ AlPoseBatches \subseteq [AlEnv -> AlPoses]

VARIABLES
    alConfig, alPc, alRuns, alResets,
    alCounter, alLast, dropLast, qualityLast,   \* common_step_counter and the three _last_counter
    alWorld,                                    \* the simulator
    alRaw, alTarget,                            \* AllegroIncrementalPositionAction
    alSeen, alPrevious, alRate, alTorque, initPose,              \* AllegroRotationObservation
    alDropped, quality,                         \* AllegroDropTermination, AllegroGraspQualityTermination
    alAge, resetTerminated, resetTimeOuts,                \* episode_length_buf, reset_terminated, reset_time_outs
    alFrame, alReward,
    savedStates, cacheSaved, targetNotified,    \* AllegroGraspRecorder
    graspFile, graspCache,                      \* the cache on disk, across runs; its rows, as a reset draws them
    acted, holding                              \* ghosts: joint at the reset and the actions since;
                                                \* whether every step of this life was a valid grasp

alsnapshotvars == <<alLast, alSeen, alPrevious, alRate, alTorque, initPose>>
altermvars == <<dropLast, alDropped, qualityLast, quality>>
alrecorder == <<savedStates, cacheSaved, targetNotified>>
alvars == <<alConfig, alPc, alRuns, alResets, alCounter, alWorld, alRaw, alTarget, alsnapshotvars, altermvars,
            alAge, resetTerminated, resetTimeOuts, alFrame, alReward, alrecorder, graspFile, graspCache,
            acted, holding>>

AlOver(f, rows, value) == [e \in AlEnv |-> IF e \in rows THEN value[e] ELSE f[e]]
AlAll(x) == [e \in AlEnv |-> x]
Clip(x, range) == IF x < range[1] THEN range[1] ELSE IF x > range[2] THEN range[2] ELSE x
AlSample(pose, life, step) == [pose |-> pose, life |-> life, step |-> step]

------------------------------------------------------------------------------
(* What the terms refuse when they are built *)

Disordered(range) == range[1] > range[2]
Duplicates(names) == ~IsInjective(names)

HandActionRefused(c) == c.range[1] >= c.range[2] \/ c.scale < 0 \/ Disordered(c.rawClip)

RotationRefused(c) == c.jointNoise < 0 \/ c.kp < 0 \/ c.kd < 0

QualityRefused(c) ==
    c.collects /\ \/ c.contactNames = <<>> \/ Duplicates(c.contactNames) \/ Len(c.contactNames) # AlSensors
                  \/ c.maxDistance =< 0 \/ c.minContacts =< 0 \/ c.minContacts > Len(c.contactNames)

RecorderRefused(c) == c.collects /\ c.collectionTarget =< 0

\* A configured cache is a whole file or the environment is not built.
HandResetRefused(c) == c.resetNoise < 0 \/ c.ballNoise < 0 \/ (c.cached /\ graspFile.kind # "whole")

------------------------------------------------------------------------------
(* AllegroIncrementalPositionAction *)

\* process_actions: clipped increments, integrated and held within the control range.
ProcessHand(a) ==
    /\ alRaw' = AlAll(a)
    /\ alTarget' = [e \in AlEnv |-> Clip(alTarget[e] + alConfig.scale * Clip(a, alConfig.rawClip), alConfig.range)]

ResetHand(rows) ==
    /\ alRaw' = AlOver(alRaw, rows, AlAll(0))
    /\ alTarget' = AlOver(alTarget, rows, [e \in AlEnv |-> alWorld'[e].pose.joint])

------------------------------------------------------------------------------
(* AllegroRotationObservation *)

\* Mutant: velocities are taken against the last sample of the life before.
PreviousKept(rows) == alPrevious

PreviousOfReset(rows) == AlOver(alPrevious, rows, alWorld')

\* reset: the rows take the sample after the reset and move nowhere yet.
ResetRotation(rows) ==
    /\ alSeen' = AlOver(alSeen, rows, alWorld')
    /\ alPrevious' = PreviousOfReset(rows)
    /\ initPose' = AlOver(initPose, rows, [e \in AlEnv |-> alWorld'[e].pose.joint])
    /\ alRate' = AlOver(alRate, rows, AlAll(<<>>))
    /\ alTorque' = AlOver(alTorque, rows, AlAll(0))
    /\ alLast' = alCounter'

JointVelocity(pair) == IF pair = <<>> THEN 0 ELSE pair[2].pose.joint - pair[1].pose.joint

\* The torques are an estimate, held within its limits.
EstimatedTorque(goal, pair) ==
    Clip(alConfig.kp * (goal - pair[2].pose.joint) - alConfig.kd * JointVelocity(pair), <<-2, 2>>)

\* A snapshot is due once per control step; a counter that jumps is an error.
StepMissed(counter) == counter # alLast /\ counter # alLast + 1

\* snapshot, by the first who asks in a control step; the others find it taken.
TakeRotation ==
    IF alCounter' = alLast THEN UNCHANGED <<alLast, alSeen, alPrevious, alRate, alTorque>>
    ELSE /\ alRate' = [e \in AlEnv |-> <<alPrevious[e], alWorld'[e]>>]
         /\ alSeen' = alWorld'
         /\ alTorque' = [e \in AlEnv |-> EstimatedTorque(alTarget'[e], alRate'[e])]
         /\ alPrevious' = alWorld'
         /\ alLast' = alCounter'

\* __call__: noise on the joints, but not in the first frame of a life.  _just_reset is up
\* from a reset to the frame that the same reset takes, for its rows only.
RotationFrame(rows, fresh) ==
    alFrame' = AlOver(alFrame, rows, [e \in AlEnv |->
        [of |-> alSeen'[e], noisy |-> alConfig.jointNoise > 0 /\ e \notin fresh, target |-> alTarget'[e]]])

------------------------------------------------------------------------------
(* AllegroDropTermination, AllegroGraspQualityTermination and its metrics *)

BallDropped == [e \in AlEnv |-> alSeen'[e].pose.ball < alConfig.minimumHeight]

\* The three conditions of a grasp and their conjunction.
GraspQuality(e) ==
    LET p == alSeen'[e].pose
        close == p.distance < alConfig.maxDistance
        enough == p.contacts >= alConfig.minContacts
        held == p.ball > alConfig.minimumHeight
    IN [fingertips_close |-> close, enough_contacts |-> enough, ball_held |-> held,
        valid |-> close /\ enough /\ held]

NoQuality == [fingertips_close |-> FALSE, enough_contacts |-> FALSE, ball_held |-> FALSE, valid |-> FALSE]

ComputeTerminations ==
    /\ alDropped' = BallDropped /\ dropLast' = alCounter'
    /\ IF alConfig.collects
       THEN quality' = [e \in AlEnv |-> GraspQuality(e)] /\ qualityLast' = alCounter'
       ELSE UNCHANGED <<quality, qualityLast>>
    /\ resetTerminated' = [e \in AlEnv |->
          alDropped'[e] \/ (alConfig.collects /\ alConfig.enabled /\ ~quality'[e].valid)]
    /\ resetTimeOuts' = [e \in AlEnv |-> alAge'[e] >= alConfig.maxLength]

ResetTerminations(rows) ==
    /\ alDropped' = AlOver(alDropped, rows, AlAll(FALSE)) /\ dropLast' = alCounter'
    /\ quality' = AlOver(quality, rows, AlAll(NoQuality)) /\ qualityLast' = alCounter'

\* _rotation_state: a reward, and a metric of the quality, take the state of this control
\* step or none.
StateIsStale == dropLast' # alCounter' \/ (alConfig.collects /\ qualityLast' # alCounter')

\* The rewards by name, unscaled.
AlSquare(x) == x * x
RotateReward(e) == Clip(alRate'[e][2].pose.turn - alRate'[e][1].pose.turn, alConfig.rewardClip)
LinearReward(e) == alRate'[e][2].pose.ball - alRate'[e][1].pose.ball
PoseDeviation(e) == AlSquare(alSeen'[e].pose.joint - initPose[e])
TorqueReward(e) == AlSquare(alTorque'[e])
WorkReward(e) == AlSquare(alTorque'[e] * JointVelocity(alRate'[e]))
DropReward(e) == IF alDropped'[e] THEN 1 ELSE 0

\* Every reward, and what it was computed from.
RewardOf(e) ==
    [rotate |-> RotateReward(e), linear |-> LinearReward(e), pose |-> PoseDeviation(e),
     torque |-> TorqueReward(e), work |-> WorkReward(e), drop |-> DropReward(e), of |-> alRate'[e]]

------------------------------------------------------------------------------
(* AllegroHandBallReset *)

\* The pose of a row after the reset: one row of the cache, or home with noise and an offset.
PlacedPoses ==
    IF alConfig.cached
    THEN {[AlHome EXCEPT !.joint = Clip(row.pose.joint, alConfig.range),
                         !.ball = row.pose.ball, !.turn = row.pose.turn] :
             row \in ToSet(graspCache)}
    ELSE {[AlHome EXCEPT !.joint = Clip(@ + n, alConfig.range), !.ball = @ + alConfig.ballOffset] :
             n \in -alConfig.resetNoise .. alConfig.resetNoise}

------------------------------------------------------------------------------
(* AllegroGraspRecorder *)

CacheDue(rows, force) == ~cacheSaved /\ rows # <<>> /\ (force \/ Len(rows) >= alConfig.collectionTarget)

\* What the file holds of the first rows; the run that wrote it is a ghost.
FirstRows(rows, n) ==
    [i \in 1 .. (IF Len(rows) < n THEN Len(rows) ELSE n) |-> [pose |-> rows[i].of.pose, run |-> alRuns]]

\* _save_cache: the first rows, up to the target, in one file.  The write may fail before
\* the file is opened or after, and a process killed in it leaves part of a file.
SaveCache(rows, force, outcome) ==
    IF ~CacheDue(rows, force)
    THEN outcome = "done" /\ UNCHANGED <<cacheSaved, graspFile>>
    ELSE \/ /\ outcome = "done" /\ cacheSaved' = TRUE
            /\ graspFile' = [kind |-> "whole", rows |-> FirstRows(rows, alConfig.collectionTarget)]
         \/ /\ outcome = "failed" /\ UNCHANGED <<cacheSaved, graspFile>>
         \/ /\ outcome \in {"failed", "killed"} /\ UNCHANGED cacheSaved
            /\ graspFile' = [kind |-> "partial", rows |-> <<>>]

\* _stop_collection raises RunComplete, once.
StopDue(rows) == ~targetNotified /\ Len(rows) >= alConfig.collectionTarget

\* A success timed out and did nothing else.
Successes(rows) == {e \in rows : resetTimeOuts[e] /\ ~resetTerminated[e]}

\* The recorded rows: the snapshot, and as ghosts the steps of the life it belongs to and
\* whether they all were a valid grasp.
Grasps(rows) ==
    LET order == SetToSeq(Successes(rows))
    IN [i \in DOMAIN order |->
          LET e == order[i]
          IN [of |-> alSeen[e], row |-> e, lasted |-> Len(acted[e]) - 1, valid |-> holding[e]]]

\* record_pre_reset: the step goes on ("done"), fails, or ends the collection.
RecordPreReset(rows, outcome) ==
    IF ~alConfig.collects \/ Successes(rows) = {}
    THEN outcome = "done" /\ UNCHANGED <<alrecorder, graspFile>>
    ELSE LET all == savedStates \o Grasps(rows)
         IN /\ savedStates' = all
            /\ \E save \in {"done", "failed", "killed"} :
                  /\ SaveCache(all, FALSE, save)
                  /\ outcome = IF save = "done" /\ StopDue(all) THEN "complete" ELSE save
            /\ targetNotified' = (targetNotified \/ outcome = "complete")

------------------------------------------------------------------------------
(* The life of an environment, and one run after another *)

AbsentFile == [kind |-> "absent", rows |-> <<>>]
NoReward == [of |-> <<>>]

AlInit ==
    /\ alPc = "idle" /\ alConfig \in AlConfigs /\ alRuns = 0 /\ alResets = 0
    /\ graspFile = AbsentFile /\ graspCache = <<>>
    /\ alCounter = 0 /\ alLast = 0 /\ dropLast = 0 /\ qualityLast = 0
    /\ alWorld = AlAll(AlSample(AlHome, 0, 0))
    /\ alRaw = AlAll(0) /\ alTarget = AlAll(AlHome.joint)
    /\ alSeen = alWorld /\ alPrevious = alWorld /\ alRate = AlAll(<<>>) /\ alTorque = AlAll(0)
    /\ initPose = alTarget
    /\ alDropped = AlAll(FALSE) /\ quality = AlAll(NoQuality)
    /\ alAge = AlAll(0) /\ resetTerminated = AlAll(FALSE) /\ resetTimeOuts = AlAll(FALSE)
    /\ alFrame = AlAll([of |-> AlSample(AlHome, 0, 0), noisy |-> FALSE, target |-> 0])
    /\ alReward = AlAll(NoReward)
    /\ savedStates = <<>> /\ cacheSaved = FALSE /\ targetNotified = FALSE
    /\ acted = AlAll(<<0>>) /\ holding = AlAll(TRUE)

AlRefused(c) ==
    \/ HandActionRefused(c) \/ RotationRefused(c) \/ QualityRefused(c) \/ RecorderRefused(c) \/ HandResetRefused(c)

\* A run is configured and its environment built, or refused.
AlBuild(c) ==
    /\ alPc = "idle" /\ alRuns < MaxAlRuns
    /\ alRuns' = alRuns + 1 /\ alConfig' = c
    /\ alPc' = IF AlRefused(c) THEN "idle" ELSE "built"
    /\ graspCache' = IF ~AlRefused(c) /\ c.cached THEN graspFile.rows ELSE <<>>
    /\ UNCHANGED <<alResets, alCounter, alWorld, alRaw, alTarget, alsnapshotvars, altermvars, alAge, resetTerminated,
                   resetTimeOuts, alFrame, alReward, alrecorder, graspFile, acted, holding>>

\* The reset of some rows: the event places hand and ball, then the managers start the rows
\* anew in their order, and the frames are taken.
RebuildRows(rows) ==
    \E pose \in PlacedPoses :
      /\ alWorld' = AlOver(alWorld, rows, [e \in AlEnv |-> AlSample(pose, alWorld[e].life + 1, alCounter')])
      /\ ResetRotation(rows)
      /\ ResetHand(rows)
      /\ ResetTerminations(rows)
      /\ RotationFrame(rows, rows)
      /\ acted' = AlOver(acted, rows, AlAll(<<pose.joint>>))
      /\ holding' = AlOver(holding, rows, AlAll(TRUE))

\* init_state; a training starts the episodes at ages of its own.
AlStart ==
    /\ alPc = "built" /\ alPc' = "run"
    /\ UNCHANGED <<alConfig, alRuns, alResets, alCounter, resetTerminated, resetTimeOuts, alReward, alrecorder,
                   graspFile, graspCache>>
    /\ RebuildRows(AlEnv)
    /\ alAge' \in [AlEnv -> IF alConfig.randomAge THEN 0 .. alConfig.maxLength - 1 ELSE {0}]

AlDone == {e \in AlEnv : resetTerminated[e] \/ resetTimeOuts[e]}

\* A control step up to the resets at its end.
AlStep(a, poses) ==
    /\ alPc = "run" /\ alCounter < MaxAlSteps
    /\ ~alConfig.autoreset => AlDone = {}
    /\ alCounter' = alCounter + 1
    /\ ProcessHand(a)
    /\ alWorld' = [e \in AlEnv |->
          AlSample([poses[e] EXCEPT !.joint = @ + alTarget'[e]], alWorld[e].life, alCounter + 1)]
    /\ alAge' = [e \in AlEnv |-> alAge[e] + 1]
    /\ acted' = [e \in AlEnv |-> Append(acted[e], a)]
    /\ IF StepMissed(alCounter')
       THEN /\ alPc' = "missed"
            /\ UNCHANGED <<alsnapshotvars, altermvars, resetTerminated, resetTimeOuts, alReward, alFrame, holding>>
       ELSE /\ TakeRotation /\ UNCHANGED initPose
            /\ ComputeTerminations
            /\ ~StateIsStale
            /\ alReward' = [e \in AlEnv |-> RewardOf(e)]
            /\ RotationFrame(AlEnv, {})
            /\ holding' = [e \in AlEnv |-> holding[e] /\ (alConfig.collects => quality'[e].valid)]
            /\ alPc' = IF alConfig.autoreset /\ \E e \in AlEnv : resetTerminated'[e] \/ resetTimeOuts'[e]
                       THEN "ending" ELSE "run"
    /\ UNCHANGED <<alConfig, alRuns, alResets, alrecorder, graspFile, graspCache>>

\* reset of the environment: the recorder sees what ended, then the rows start anew.
AlResetRows(rows) ==
    \E outcome \in {"done", "failed", "killed", "complete"} :
      /\ UNCHANGED <<alConfig, alRuns, alCounter, alReward, graspCache>>
      /\ RecordPreReset(rows \cap AlDone, outcome)
      /\ IF outcome = "done"
         THEN /\ alPc' = "run" /\ RebuildRows(rows)
              /\ alAge' = AlOver(alAge, rows, AlAll(0))
         ELSE /\ alPc' = outcome
              /\ UNCHANGED <<alWorld, alRaw, alTarget, alsnapshotvars, altermvars, alAge, alFrame, acted, holding>>

\* The end of the step that ended some rows; their flags stay as the step's result.
AlAutoreset ==
    /\ alPc = "ending" /\ AlResetRows(AlDone)
    /\ UNCHANGED <<resetTerminated, resetTimeOuts, alResets>>

\* A reset from outside, of any rows; it takes the flags back.
AlManualReset(rows) ==
    /\ alPc = "run" /\ alResets < MaxAlResets /\ alResets' = alResets + 1
    /\ AlResetRows(rows)
    /\ resetTerminated' = AlOver(resetTerminated, rows, AlAll(FALSE))
    /\ resetTimeOuts' = AlOver(resetTimeOuts, rows, AlAll(FALSE))

\* A trainer that probes takes the counter back and resets all rows.
AlRestore(counter) ==
    /\ alPc = "run" /\ ~alConfig.collects /\ alResets < MaxAlResets /\ counter < alCounter
    /\ alResets' = alResets + 1
    /\ alCounter' = counter /\ alPc' = "run"
    /\ RebuildRows(AlEnv)
    /\ alAge' = AlAll(0) /\ resetTerminated' = AlAll(FALSE) /\ resetTimeOuts' = AlAll(FALSE)
    /\ UNCHANGED <<alConfig, alRuns, alReward, alrecorder, graspFile, graspCache>>

\* close, after a run or what ended it: the recorder may save what there is.
AlClose ==
    /\ alPc \in {"built", "run", "complete", "failed", "missed"}
    /\ IF alConfig.collects
       THEN \E save \in {"done", "failed", "killed"} :
              SaveCache(savedStates, alConfig.autoSave, save) /\ UNCHANGED <<savedStates, targetNotified>>
       ELSE UNCHANGED <<alrecorder, graspFile>>
    /\ alPc' = "closed"
    /\ UNCHANGED <<alConfig, alRuns, alResets, alCounter, alWorld, alRaw, alTarget, alsnapshotvars, altermvars, alAge,
                   resetTerminated, resetTimeOuts, alFrame, alReward, graspCache, acted, holding>>

\* The process is gone, closed or killed; the next run finds the file.
AlGone ==
    /\ alPc \in {"closed", "killed", "run", "ending"} /\ alPc' = "idle"
    /\ alResets' = 0 /\ graspCache' = <<>>
    /\ alCounter' = 0 /\ alLast' = 0 /\ dropLast' = 0 /\ qualityLast' = 0
    /\ alWorld' = AlAll(AlSample(AlHome, 0, 0))
    /\ alRaw' = AlAll(0) /\ alTarget' = AlAll(AlHome.joint)
    /\ alSeen' = alWorld' /\ alPrevious' = alWorld' /\ alRate' = AlAll(<<>>) /\ alTorque' = AlAll(0)
    /\ initPose' = alTarget'
    /\ alDropped' = AlAll(FALSE) /\ quality' = AlAll(NoQuality)
    /\ alAge' = AlAll(0) /\ resetTerminated' = AlAll(FALSE) /\ resetTimeOuts' = AlAll(FALSE)
    /\ alFrame' = AlAll([of |-> AlSample(AlHome, 0, 0), noisy |-> FALSE, target |-> 0])
    /\ alReward' = AlAll(NoReward)
    /\ savedStates' = <<>> /\ cacheSaved' = FALSE /\ targetNotified' = FALSE
    /\ acted' = AlAll(<<0>>) /\ holding' = AlAll(TRUE)
    /\ UNCHANGED <<alConfig, alRuns, graspFile>>

AlNext ==
    \/ \E c \in AlConfigs : AlBuild(c)
    \/ AlStart
    \/ \E a \in alConfig.actions, poses \in AlPoseBatches : AlStep(a, poses)
    \/ AlAutoreset
    \/ \E rows \in SUBSET AlEnv \ {{}} : AlManualReset(rows)
    \/ \E counter \in 0 .. MaxAlSteps : AlRestore(counter)
    \/ AlClose \/ AlGone

AlSpec == AlInit /\ [][AlNext]_alvars

------------------------------------------------------------------------------
(* Properties *)

\* The shared state shows the simulator to termination, rewards, metrics and recorder, in
\* the rows of a reset too, and no control step is ever missed.
RotationIsCurrent ==
    /\ alPc # "missed"
    /\ alPc \in {"run", "ending"} => alSeen = alWorld /\ alPrevious = alWorld /\ alLast = alCounter

\* Velocities, and the rewards taken from them, are differences over one control step of
\* one life, whoever asked first.
RotationOfOneLife ==
    alPc \in {"run", "ending"} => \A e \in AlEnv :
        /\ alRate[e] # <<>> => alRate[e][2] = alWorld[e]
        /\ \A pair \in {alRate[e], alReward[e].of} \ {<<>>} :
              pair[1].life = pair[2].life /\ pair[1].step = pair[2].step - 1

\* The target is where the actions of this life lead from the joint at its reset, always
\* within the control range, and the frame shows it beside the joint of the same step; a
\* first frame is without noise, every other has it.
TargetOfThisLife ==
    alPc \in {"run", "ending"} => \A e \in AlEnv :
        LET reached[n \in 0 .. Len(acted[e]) - 1] ==
                IF n = 0 THEN acted[e][1]
                ELSE Clip(reached[n - 1] + alConfig.scale * Clip(acted[e][n + 1], alConfig.rawClip), alConfig.range)
        IN /\ alTarget[e] = reached[Len(acted[e]) - 1]
           /\ alFrame[e].target = alTarget[e] /\ alFrame[e].of = alWorld[e]
           /\ alFrame[e].noisy = (alConfig.jointNoise > 0 /\ Len(acted[e]) > 1)

\* A recorded grasp was one in every step of an episode that ran its whole time; a shorter
\* one is the first of its environment, whose age was drawn.  A row that lasted no step at
\* all is the pose of a reset, recorded when rows that a step had just reset are reset
\* again from outside, for the flags of the step are still up.
GraspsWereHeld ==
    \A i \in DOMAIN savedStates :
        LET g == savedStates[i] IN
        alConfig.enabled =>
            /\ g.valid
            /\ \/ g.lasted \in {0, alConfig.maxLength}
               \/ alConfig.randomAge /\ g.of.life = 1 /\ g.lasted < alConfig.maxLength

\* Each episode is in the collection once, and a collection that ends complete has left a
\* whole file of just as many rows as it was asked for, all its own, though the process
\* closed afterwards.
CollectionIsWhole ==
    /\ \A i, k \in DOMAIN savedStates :
          i # k /\ savedStates[i].lasted > 0 /\ savedStates[k].lasted > 0
              => <<savedStates[i].row, savedStates[i].of.life>> # <<savedStates[k].row, savedStates[k].of.life>>
    /\ (alPc \in {"complete", "closed"} /\ cacheSaved) =>
          /\ graspFile.kind = "whole"
          /\ \A i \in DOMAIN graspFile.rows :
                graspFile.rows[i] = [pose |-> savedStates[i].of.pose, run |-> alRuns]
          /\ targetNotified => Len(graspFile.rows) = alConfig.collectionTarget
    /\ alPc = "complete" => cacheSaved /\ targetNotified

\* A hand that starts from a cache starts from a joint some earlier run recorded, held
\* within the control range.
StartsFromGrasp ==
    alPc \in {"run", "ending"} /\ alConfig.cached => \A e \in AlEnv :
        \E i \in DOMAIN graspCache :
            /\ graspCache[i].run < alRuns
            /\ acted[e][1] = Clip(graspCache[i].pose.joint, alConfig.range)

AllegroSound ==
    /\ RotationIsCurrent /\ RotationOfOneLife /\ TargetOfThisLife
    /\ GraspsWereHeld /\ CollectionIsWhole /\ StartsFromGrasp
=============================================================================
