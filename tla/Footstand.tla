------------------------------ MODULE Footstand ------------------------------
(***************************************************************************)
(* tasks/locomotion/go2/footstand.py: a quadruped that rises on its rear   *)
(* feet.  One action term moves joint targets by increments and owns a     *)
(* snapshot of the robot that observations, termination and reward share:  *)
(* it is taken once per control step, by whoever asks first, and again for *)
(* the rows of a reset.  The grace a robot has to rise is counted on the   *)
(* episode counter, which PPO sets at random before it learns.             *)
(*                                                                         *)
(* A leg has one joint and the robot one front and one rear leg.  A sample *)
(* of the robot is what the simulator shows (a "pose", small numbers) with *)
(* the life and the control step it belongs to; a rate is the pair of      *)
(* samples it is the difference of.                                        *)
(***************************************************************************)
EXTENDS Integers, Sequences, FiniteSets, FiniteSetsExt, Functions

CONSTANTS
    FsEnv,
    FsConfigs,                \* configurations tried, some of them refused
    PoseBatches,              \* where a control step may leave the robots
    FsActions,                \* actions tried, indexed like the actuators
    DefaultMass,              \* of each body
    MaxFsSteps, MaxFsResets   \* bounds of the model

Joints == {1, 2}
FrontLeg == 1
RearLeg == 2

\* Patterns find joints by number, an offset is a pair (_pair), and an action has a number
\* for each actuator.
ASSUME FootstandAssumption ==
    /\ \A c \in FsConfigs : c.joints \in Seq(SUBSET Nat) /\ c.offset \in Int \X Int
                           /\ c.grace \in Int /\ c.maxLength \in Nat
    /\ FsActions \subseteq [Joints -> Int]

VARIABLES
    fsConfig, fsPc,
    fsCounter, fsCounterLast, termCounter,  \* common_step_counter, the two _last_counter
    world,                                  \* the simulator
    fsRaw, fsPrevious, target,              \* of the action term
    seen, lastFoot,                         \* the snapshot; _last_foot_pos
    qacc, rearSpeed, torques,
    anchor, anchorContact, anchorDrift,     \* _rear_anchor_pos and the two beside it
    fsTerminated, fsReward, shownRaw,       \* the buffer of the term, rewards, the actions in the frame
    fsAge, mass,                            \* episode_length_buf, the bodies
    stance, commanded, rewarded,            \* ghosts: first sample of the stance; the joints at the reset
                                            \* and the actions since; what the reward was computed from
    staggered,                              \* ghost: the life that was given an age, and which
    fsResets

snapshotvars == <<fsCounterLast, seen, lastFoot, qacc, rearSpeed, torques, anchor, anchorContact, anchorDrift>>
fsactionvars == <<fsRaw, fsPrevious, target>>
fsvars == <<fsConfig, fsPc, fsCounter, termCounter, world, fsactionvars, snapshotvars, fsTerminated, fsReward,
            shownRaw, fsAge, mass, stance, commanded, rewarded, staggered, fsResets>>

FsOver(f, rows, value) == [e \in FsEnv |-> IF e \in rows THEN value[e] ELSE f[e]]
Clamp(x, lower, upper) == IF x < lower THEN lower ELSE IF x > upper THEN upper ELSE x
Square(x) == x * x
Positive(x) == IF x > 0 THEN x ELSE 0
Abs(x) == IF x < 0 THEN -x ELSE x

------------------------------------------------------------------------------
(* What the terms refuse when they are built *)

Ordered(range) == range[1] =< range[2]

\* Each pattern names one actuator and one joint; together the joints, each once.
ActionRefused(c) ==
    \/ c.scale < 0 \/ c.clip =< 0 \/ c.kp < 0 \/ c.kd < 0
    \/ \E found \in {c.actuators, c.joints} :
          \/ Len(found) # Cardinality(Joints)
          \/ \E i \in DOMAIN found : Cardinality(found[i]) # 1
          \/ \E i, k \in DOMAIN found : i # k /\ found[i] = found[k]
    \/ UNION Range(c.joints) # Joints
    \/ DOMAIN c.limits # Joints \/ \E i \in DOMAIN c.limits : c.limits[i][1] >= c.limits[i][2]

\* _joint_ids: the joint of each action.
JointIds == [i \in Joints |-> CHOOSE j \in Joints : fsConfig.joints[i] = {j}]

TargetLimits(i) == fsConfig.limits[i]

\* _joint_lower and _joint_upper: in the order of the joints.
JointLimits == [j \in Joints |-> fsConfig.limits[CHOOSE i \in Joints : JointIds[i] = j]]

TerminationRefused(c) == \E x \in {c.grace, c.heightFraction, c.orientationThreshold, c.energyThreshold} : x < 0

RewardNames ==
    {"height", "contact", "orientation", "action_rate", "termination", "dof_pos_limits", "torques", "pose",
     "penalty_contact", "tar", "rear_feet_contact", "both_rear_feet_contact", "rear_foot_slip",
     "rear_foot_anchor", "front_feet_air", "balanced_footstand", "rear_leg_symmetry", "rear_leg_splay",
     "front_leg_motion", "front_feet_crossing", "upright_stability", "knee_clearance", "stay_still",
     "energy", "dof_acc"}

RewardRefused(c) ==
    \/ DOMAIN c.scales = {} \/ ~(DOMAIN c.scales \subseteq RewardNames)
    \/ c.softFactor < 0 \/ c.deadband < 0 \/ c.radius =< 0

JointResetRefused(c) == ~Ordered(c.offset) \/ c.resetJoints # Joints
MassRefused(c) ==
    \/ ~Ordered(c.massScale) \/ c.massScale[1] < 0 \/ ~Ordered(c.added)
    \/ Cardinality(c.torso) # 1 \/ ~(c.torso \subseteq DOMAIN DefaultMass)

------------------------------------------------------------------------------
(* FootstandIncrementalAction *)

\* process_actions of the term; with latency the action of the step before is carried out.
ProcessIncrements(actions) ==
    LET raw == [e \in FsEnv |-> [i \in Joints |-> Clamp(actions[e][i], -fsConfig.clip, fsConfig.clip)]]
        executed == IF fsConfig.latency THEN fsRaw ELSE raw
    IN /\ fsPrevious' = fsRaw
       /\ fsRaw' = raw
       /\ target' = [e \in FsEnv |-> [i \in Joints |->
              Clamp(target[e][i] + fsConfig.scale * executed[e][i], TargetLimits(i)[1], TargetLimits(i)[2])]]

\* estimate_torque: from the targets now and a sample of the robot.
Torque(targets, s) ==
    [j \in Joints |-> LET i == CHOOSE k \in Joints : JointIds[k] = j
                      IN fsConfig.kp * (targets[i] - s.pose.joint[j]) - fsConfig.kd * s.pose.velocity[j]]

JointsAsTargets(s) == [i \in Joints |-> s.pose.joint[JointIds[i]]]

------------------------------------------------------------------------------
(* FootstandState *)

Sample(pose, life, step) == [pose |-> pose, life |-> life, step |-> step]
Rest == [joint |-> [j \in Joints |-> 0], velocity |-> [j \in Joints |-> 0], foot |-> 0, rear |-> FALSE,
         front |-> FALSE, height |-> 0, orientation |-> 0, flipped |-> FALSE, hit |-> FALSE, grazes |-> FALSE,
         moves |-> FALSE, crossed |-> FALSE, knee |-> 0]

TargetHeight == 5
StandHeight == 4
Standing(s) == s.pose.height >= StandHeight /\ s.pose.orientation >= 1

\* Mutant: the feet of the last life stay anchored.
FeetStayDown(rows) == anchorContact

ReleasedFeet(rows) == FsOver(anchorContact, rows, [e \in FsEnv |-> FALSE])

\* reset: the rows take the sample after the reset; nothing is carried over from before.
ResetSnapshot(rows, targets) ==
    /\ seen' = FsOver(seen, rows, world')
    /\ qacc' = FsOver(qacc, rows, [e \in FsEnv |-> <<>>])
    /\ torques' = FsOver(torques, rows, [e \in FsEnv |-> Torque(targets[e], seen'[e])])
    /\ lastFoot' = FsOver(lastFoot, rows, world')
    /\ rearSpeed' = FsOver(rearSpeed, rows, [e \in FsEnv |-> <<>>])
    /\ anchor' = FsOver(anchor, rows, world')
    /\ anchorContact' = ReleasedFeet(rows)
    /\ anchorDrift' = FsOver(anchorDrift, rows, [e \in FsEnv |-> <<>>])
    /\ fsCounterLast' = fsCounter'

\* A snapshot is due once per control step; a counter that jumps is an error.
SnapshotRefused(counter) == counter # fsCounterLast /\ counter # fsCounterLast + 1

\* snapshot: rates against the sample before, an anchor where a standing foot touches down.
TakeSnapshot(targets) ==
    LET holds == [e \in FsEnv |-> world'[e].pose.rear /\ Standing(world'[e])]
        down == {e \in FsEnv : holds[e] /\ ~anchorContact[e]}
    IN IF fsCounter' = fsCounterLast THEN UNCHANGED snapshotvars
       ELSE /\ qacc' = [e \in FsEnv |-> <<seen[e], world'[e]>>]
            /\ rearSpeed' = [e \in FsEnv |-> <<lastFoot[e], world'[e]>>]
            /\ anchor' = FsOver(anchor, down, world')
            /\ anchorContact' = holds
            /\ anchorDrift' = [e \in FsEnv |-> <<anchor'[e], world'[e]>>]
            /\ seen' = world'
            /\ torques' = [e \in FsEnv |-> Torque(targets[e], world'[e])]
            /\ lastFoot' = world'
            /\ fsCounterLast' = fsCounter'

------------------------------------------------------------------------------
(* FootstandTermination and FootstandReward *)

OverJoints(f(_)) == f(FrontLeg) + f(RearLeg)
Energy(torque, s) == OverJoints(LAMBDA j : Abs(torque[j]) * Abs(s.pose.velocity[j]))
PoseFailure(e) ==
    /\ fsAge'[e] - 1 >= fsConfig.grace
    /\ \/ seen'[e].pose.height < fsConfig.heightFraction * TargetHeight
       \/ seen'[e].pose.orientation < fsConfig.orientationThreshold

Ends(e) == \/ seen'[e].pose.hit \/ seen'[e].pose.flipped
           \/ Energy(torques'[e], seen'[e]) > fsConfig.energyThreshold
           \/ PoseFailure(e)

\* _termination: the reward takes the flags of this control step or none.
FlagsAreStale == termCounter' # fsCounter'

Bool(b) == IF b THEN 1 ELSE 0
Moved(pair) == IF pair = <<>> THEN 0 ELSE Abs(pair[2].pose.foot - pair[1].pose.foot)
Acceleration(pair) == IF pair = <<>> THEN [j \in Joints |-> 0]
                      ELSE [j \in Joints |-> pair[2].pose.velocity[j] - pair[1].pose.velocity[j]]

SoftLimit(j) == LET w == ((JointLimits[j][2] - JointLimits[j][1]) * fsConfig.softFactor) \div 2
                    m == (JointLimits[j][1] + JointLimits[j][2]) \div 2
                IN <<m - w, m + w>>

\* What a reward is computed from, and the targets it came with.
Evidence(e) == [now |-> seen[e], acceleration |-> qacc[e], slip |-> rearSpeed[e], anchored |-> anchorContact[e],
                drift |-> anchorDrift[e], torque |-> torques[e], target |-> target[e], raw |-> fsRaw[e],
                previous |-> fsPrevious[e], ended |-> fsTerminated[e]]

\* _value: the rewards of one environment by their names.  Exponentials keep their order only.
Values(w) ==
    LET p == w.now.pose  up == Bool(Standing(w.now))
    IN [height |-> Positive(TargetHeight - Abs(TargetHeight - p.height)),
        contact |-> Bool(p.front),
        orientation |-> p.orientation,
        action_rate |-> OverJoints(LAMBDA i : Square(w.raw[i] - w.previous[i])),
        termination |-> Bool(w.ended),
        dof_pos_limits |->
           OverJoints(LAMBDA j : Positive(SoftLimit(j)[1] - p.joint[j]) + Positive(p.joint[j] - SoftLimit(j)[2])),
        torques |-> OverJoints(LAMBDA j : Square(w.torque[j])),
        pose |-> Square(p.joint[RearLeg]),
        penalty_contact |-> Bool(p.grazes),
        tar |-> Bool(p.height >= StandHeight) * Positive(1 - Square(p.joint[FrontLeg] - 1)),
        rear_feet_contact |-> Bool(p.rear),
        both_rear_feet_contact |-> Bool(p.rear),
        rear_foot_slip |-> Bool(p.rear) * Square(Positive(Moved(w.slip) - fsConfig.deadband)),
        rear_foot_anchor |-> Bool(w.anchored) * Square(Positive(Moved(w.drift) - fsConfig.radius)),
        front_feet_air |-> Bool(~p.front),
        balanced_footstand |-> up * Bool(p.rear /\ ~p.front),
        rear_leg_symmetry |-> (1 - up) * Square(p.joint[RearLeg]),
        rear_leg_splay |-> up * Square(Abs(p.joint[RearLeg])),
        front_leg_motion |-> up * Square(p.velocity[FrontLeg]),
        front_feet_crossing |-> Bool(p.crossed),
        upright_stability |-> up * Bool(p.moves),
        knee_clearance |-> Square(Positive(1 - p.knee)),
        stay_still |-> Bool(p.moves),
        energy |-> Energy(w.torque, w.now),
        dof_acc |-> OverJoints(LAMBDA j : Square(Acceleration(w.acceleration)[j]))]

\* The scaled sum, never below zero.
Total(w) ==
    LET values == Values(w)
    IN Positive(SumFunction([name \in DOMAIN fsConfig.scales |-> fsConfig.scales[name] * values[name]]))

------------------------------------------------------------------------------
(* Reset events *)

JointOffsets == fsConfig.offset[1] .. fsConfig.offset[2]
\* FootstandJointReset: the default joints, shifted.
PlacedJoints(shift) == [Rest EXCEPT !.joint = [j \in Joints |-> shift]]

\* FootstandMassRandomization: scaled defaults, and something added to the torso.
DrawnMass(scale, added) ==
    [b \in DOMAIN DefaultMass |-> DefaultMass[b] * scale + IF b \in fsConfig.torso THEN added ELSE 0]
MassScales == fsConfig.massScale[1] .. fsConfig.massScale[2]
AddedMasses == fsConfig.added[1] .. fsConfig.added[2]
NonPositive(m) == \E b \in DOMAIN m : m[b] =< 0

------------------------------------------------------------------------------
FsInit ==
    /\ fsConfig \in FsConfigs /\ fsPc = "init"
    /\ fsCounter = 0 /\ fsCounterLast = 0 /\ termCounter = 0 /\ fsResets = 0
    /\ world = [e \in FsEnv |-> Sample(Rest, 0, 0)]
    /\ fsRaw = [e \in FsEnv |-> [i \in Joints |-> 0]] /\ fsPrevious = fsRaw /\ target = fsRaw /\ shownRaw = fsRaw
    /\ seen = world /\ lastFoot = world /\ anchor = world
    /\ qacc = [e \in FsEnv |-> <<>>] /\ rearSpeed = qacc /\ anchorDrift = qacc
    /\ torques = [e \in FsEnv |-> [j \in Joints |-> 0]]
    /\ anchorContact = [e \in FsEnv |-> FALSE] /\ fsTerminated = anchorContact
    /\ fsReward = [e \in FsEnv |-> 0] /\ fsAge = fsReward
    /\ mass = [e \in FsEnv |-> DefaultMass]
    /\ stance = qacc /\ commanded = qacc /\ rewarded = <<>>
    /\ staggered = [e \in FsEnv |-> [life |-> 0, age |-> 0]]

ConfigRefused ==
    \/ ActionRefused(fsConfig) \/ TerminationRefused(fsConfig) \/ RewardRefused(fsConfig)
    \/ JointResetRefused(fsConfig) \/ MassRefused(fsConfig)

Refuse ==
    /\ fsPc = "init" /\ ConfigRefused
    /\ fsPc' = "refused"
    /\ UNCHANGED <<fsConfig, fsCounter, termCounter, world, fsactionvars, snapshotvars, fsTerminated, fsReward,
                   shownRaw, fsAge, mass, stance, commanded, rewarded, staggered, fsResets>>

\* A reset of some rows: the events place and weigh the robots, then the action term, its
\* snapshot and the termination term start the rows anew, and the frames are taken.
ResetRows(rows) ==
    \E shift \in JointOffsets, scale \in MassScales, added \in AddedMasses :
      LET drawn == DrawnMass(scale, added) IN
      IF NonPositive(drawn)
      THEN /\ fsPc' = "badMass"
           /\ UNCHANGED <<world, fsactionvars, snapshotvars, termCounter, shownRaw, fsAge, mass, stance, commanded>>
      ELSE /\ fsPc' = "run"
           /\ mass' = FsOver(mass, rows, [e \in FsEnv |-> drawn])
           /\ world' = FsOver(world, rows,
                  [e \in FsEnv |-> Sample(PlacedJoints(shift), world[e].life + 1, fsCounter')])
           /\ fsRaw' = FsOver(fsRaw, rows, [e \in FsEnv |-> [i \in Joints |-> 0]])
           /\ fsPrevious' = FsOver(fsPrevious, rows, [e \in FsEnv |-> [i \in Joints |-> 0]])
           /\ target' = FsOver(target, rows, [e \in FsEnv |-> JointsAsTargets(world'[e])])
           /\ ResetSnapshot(rows, target')
           /\ termCounter' = fsCounter'
           /\ shownRaw' = FsOver(shownRaw, rows, fsPrevious')
           /\ fsAge' = FsOver(fsAge, rows, [e \in FsEnv |-> 0])
           /\ stance' = FsOver(stance, rows, [e \in FsEnv |-> <<>>])
           /\ commanded' = FsOver(commanded, rows, [e \in FsEnv |-> <<world'[e].pose.joint>>])

\* init_state.
Start ==
    /\ fsPc = "init" /\ ~ConfigRefused
    /\ UNCHANGED <<fsConfig, fsCounter, fsReward, fsTerminated, rewarded, staggered, fsResets>>
    /\ ResetRows(FsEnv)

\* init_at_random_ep_len: before its first control step PPO spreads the ages of the lives
\* that have just begun, so that they do not all time out together (a time-out is one of
\* the rows FsReset may choose).
StaggerAges ==
    /\ fsPc = "run" /\ fsConfig.randomAge /\ fsCounter = 0
    /\ fsAge' \in [FsEnv -> 0 .. fsConfig.maxLength - 1]
    /\ staggered' = [e \in FsEnv |-> [life |-> world[e].life, age |-> fsAge'[e]]]
    /\ UNCHANGED <<fsConfig, fsPc, fsCounter, termCounter, world, fsactionvars, snapshotvars, fsTerminated, fsReward,
                   shownRaw, mass, stance, commanded, rewarded, fsResets>>

\* A control step: the actions, the physics, the termination term (which takes the
\* snapshot), the reward and the frame.
FsStep ==
    /\ fsPc = "run" /\ fsCounter < MaxFsSteps /\ ~\E e \in FsEnv : fsTerminated[e]
    /\ \E a \in FsActions, poses \in PoseBatches :
         LET actions == [e \in FsEnv |-> a] IN
         /\ fsCounter' = fsCounter + 1
         /\ ProcessIncrements(actions)
         /\ world' = [e \in FsEnv |-> Sample(poses[e], world[e].life, fsCounter + 1)]
         /\ fsAge' = [e \in FsEnv |-> fsAge[e] + 1]
         /\ IF SnapshotRefused(fsCounter')
            THEN /\ fsPc' = "jumped"
                 /\ UNCHANGED <<snapshotvars, termCounter, fsTerminated, fsReward, shownRaw, rewarded>>
            ELSE /\ fsPc' = "run"
                 /\ TakeSnapshot(target')
                 /\ fsTerminated' = [e \in FsEnv |-> Ends(e)]
                 /\ termCounter' = fsCounter'
                 /\ ~FlagsAreStale
                 /\ rewarded' = [e \in FsEnv |-> Evidence(e)']
                 /\ fsReward' = [e \in FsEnv |-> Total(rewarded'[e])]
                 /\ shownRaw' = fsPrevious'
         /\ commanded' = [e \in FsEnv |-> Append(commanded[e], a)]
         /\ stance' = [e \in FsEnv |->
               IF ~(poses[e].rear /\ Standing(world'[e])) THEN <<>>
               ELSE IF stance[e] = <<>> THEN <<world'[e]>> ELSE stance[e]]
    /\ UNCHANGED <<fsConfig, mass, staggered, fsResets>>

\* Ended rows are reset, with others or alone.
FsReset ==
    /\ fsPc = "run" /\ fsResets < MaxFsResets
    /\ fsResets' = fsResets + 1
    /\ UNCHANGED <<fsConfig, fsCounter, fsReward, rewarded, staggered>>
    /\ \E rows \in SUBSET FsEnv \ {{}} :
         /\ {e \in FsEnv : fsTerminated[e]} \subseteq rows
         /\ fsTerminated' = FsOver(fsTerminated, rows, [e \in FsEnv |-> FALSE])
         /\ ResetRows(rows)

\* After a probe the step counter goes back to what it was, and all rows are reset.
FsRestore ==
    /\ fsPc = "run" /\ fsResets < MaxFsResets /\ fsCounter > 0
    /\ fsCounter' \in 0 .. fsCounter - 1
    /\ fsTerminated' = [e \in FsEnv |-> FALSE]
    /\ ResetRows(FsEnv)
    /\ fsResets' = fsResets + 1
    /\ UNCHANGED <<fsConfig, fsReward, rewarded, staggered>>

FsNext == Refuse \/ Start \/ StaggerAges \/ FsStep \/ FsReset \/ FsRestore
FsSpec == FsInit /\ [][FsNext]_fsvars

------------------------------------------------------------------------------
(* Properties *)

\* A second of asking is never refused: whatever order of steps, resets of some rows and
\* restores of the counter, the snapshot's own counter (one for all rows) keeps up.
SnapshotNeverRefused == fsPc # "jumped"

\* The shared snapshot shows the simulator to every reader, also in rows that a reset of
\* other rows left alone, and the torques are those of this sample and these targets.
SnapshotIsCurrent ==
    fsPc = "run" =>
        /\ seen = world /\ lastFoot = world
        /\ \A e \in FsEnv, i \in Joints :
              LET j == JointIds[i] IN
              torques[e][j] = fsConfig.kp * (target[e][i] - world[e].pose.joint[j])
                              - fsConfig.kd * world[e].pose.velocity[j]

\* Accelerations and foot speeds are differences over one control step of one life: a
\* reset between the two samples never shows up as motion.
RatesOfOneLife ==
    \A e \in FsEnv : \A pair \in {qacc[e], rearSpeed[e]} \ {<<>>} :
        fsPc = "run" => pair[2] = world[e] /\ pair[1].life = pair[2].life /\ pair[1].step = pair[2].step - 1

\* A rear foot is anchored while it stands, to where this stance of this life began.
AnchorIsTouchdown ==
    \A e \in FsEnv :
        /\ anchorContact[e] <=> stance[e] # <<>>
        /\ anchorContact[e] => anchor[e] = stance[e][1] /\ anchorDrift[e] = <<stance[e][1], world[e]>>

\* Action n of this life, as the term clips it; none yet is zero.
Acted(e, n) == [i \in Joints |-> IF n < 1 THEN 0 ELSE Clamp(commanded[e][n + 1][i], -fsConfig.clip, fsConfig.clip)]
Acts(e) == Len(commanded[e]) - 1

\* The targets are those the actions of this life lead to from the joints of its reset,
\* one step late with latency, each within the limits of its own joint; the frame shows
\* the action before the last, of this life or none.
TargetFollowsActions ==
    fsPc = "run" => \A e \in FsEnv :
        LET late == IF fsConfig.latency THEN 1 ELSE 0
            reached[n \in 0 .. Acts(e)] ==
                [i \in Joints |-> IF n = 0 THEN commanded[e][1][JointIds[i]]
                                  ELSE Clamp(reached[n - 1][i] + fsConfig.scale * Acted(e, n - late)[i],
                                             JointLimits[JointIds[i]][1], JointLimits[JointIds[i]][2])]
        IN target[e] = reached[Acts(e)] /\ shownRaw[e] = Acted(e, Acts(e) - 1)

\* The age a life was given before learning began; every later life begins at none.
HeadStart(e) == IF staggered[e].life = world[e].life THEN staggered[e].age ELSE 0

\* A reward is computed from the sample, the rates and the flags of its own control step,
\* which a reset of other rows leaves as they were, and an end for the posture alone comes
\* only after the grace steps of this life, less the age it was given: a life that a reset
\* began has them all, the first one under PPO may have none.
RewardOfThisStep ==
    fsPc = "run" => \A e \in FsEnv : Acts(e) > 0 =>
        /\ rewarded[e] = Evidence(e) /\ fsReward[e] = Total(Evidence(e))
        /\ fsTerminated[e] =>
              \/ seen[e].pose.hit \/ seen[e].pose.flipped
              \/ Energy(torques[e], seen[e]) > fsConfig.energyThreshold
              \/ Acts(e) + HeadStart(e) > fsConfig.grace

\* However many resets came before, a robot weighs its defaults scaled once, and something.
MassFromDefaults ==
    fsPc = "run" => \A e \in FsEnv :
        \E scale \in MassScales, added \in AddedMasses : mass[e] = DrawnMass(scale, added) /\ ~NonPositive(mass[e])

FootstandSound ==
    /\ SnapshotNeverRefused /\ SnapshotIsCurrent /\ RatesOfOneLife /\ AnchorIsTouchdown
    /\ TargetFollowsActions /\ RewardOfThisStep /\ MassFromDefaults
=============================================================================
