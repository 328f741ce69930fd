-------------------------------- MODULE Gait --------------------------------
(***************************************************************************)
(* Walking: tasks/locomotion/common/{manager_terms,gait_terms}.py and      *)
(* tasks/locomotion/g1/manager_terms.py.  A biped's gait phase is one      *)
(* clock per environment that all its terms share and a reset draws anew;  *)
(* a quadruped's terms each keep a clock of their own that no reset        *)
(* touches.  Contact terms time the flight of each foot, and a curriculum  *)
(* scales the penalties with the length of the episodes.                   *)
(*                                                                         *)
(* A cycle has Cycle ticks and a control step is one of them.  A foot has  *)
(* a contact, a height and a speed; a velocity command is its planar and   *)
(* its turning part.                                                       *)
(***************************************************************************)
EXTENDS Integers, Sequences, FiniteSets, FiniteSetsExt, Functions

CONSTANTS
    GtEnv, Feet,
    GtConfigs,
    FootBatches,             \* what the feet may do in a control step
    Velocities,              \* commands drawn: records [planar, turn]
    Cycle,
    LeftPhases, RowSets,     \* phases and sets of rows tried
    OriginalWeights,         \* of the reward terms
    MaxGtSteps, MaxGtResets  \* bounds of the model

\* The sums of the first elements, as numpy's cumsum.
Sums(s) == LET sum[k \in 0 .. Len(s)] == IF k = 0 THEN 0 ELSE sum[k - 1] + s[k] IN sum

\* A configured term: a sensor belongs to one foot, and each has its width.
GaitConfig(c) ==
    /\ c.gated \in BOOLEAN /\ {c.threshold, c.deadZone, c.minScale, c.maxScale, c.initialScale, c.degree} \subseteq Int
    /\ c.groups \in Seq(Nat) /\ c.widths \in Seq(Nat) /\ Len(c.widths) = Sums(c.groups)[Len(c.groups)]

ASSUME GaitAssumption ==
    /\ Cycle \in Nat /\ Cycle % 4 = 0 /\ Cycle > 0 /\ LeftPhases \subseteq 0 .. Cycle - 1
    /\ \E n \in Feet : n \in Nat /\ Feet = 1 .. n
    /\ FootBatches \subseteq [GtEnv -> [Feet -> [contact : BOOLEAN, height : Int, speed : Int]]]
    /\ Velocities \subseteq [planar : Int, turn : Int] /\ RowSets \subseteq SUBSET GtEnv
    /\ \A name \in DOMAIN OriginalWeights : OriginalWeights[name] \in Int
    /\ \A c \in GtConfigs : GaitConfig(c)

VARIABLES
    gtConfig, gtPc, gtCounter,        \* common_step_counter
    g1Phase, g1Last,                  \* _G1GaitContext
    rewardPhase, rewardLast,          \* _phase_value, _last_counter of a quadruped's reward term
    frameAngle, frameLast,            \* and of its observation term
    feet, velocity,                   \* the simulator, the command
    airTime, frameAir,                \* _air_time of feet_air_time and of foot_air_time
    peak, wasInAir, charged,          \* of feet_swing_height, and the peaks it charged in the last step
    earned,                           \* the other rewards of the last step
    penaltyScale, averageLength, weights,
    gtLength,                         \* episode_length_buf
    drawnPhase, aged, flight,         \* ghosts: the phase drawn, steps since, steps and top of a flight
    landed,                           \* ghost: what feet that touched down in the last step had reached
    strides, turns,                   \* ghosts: steps the commands were moving, and how often they changed
    gtResets

gtclocks == <<g1Phase, g1Last, rewardPhase, rewardLast, frameAngle, frameLast>>
gtfeet == <<airTime, frameAir, peak, wasInAir, charged, earned>>
gtcurriculum == <<penaltyScale, averageLength, weights>>
gtghosts == <<drawnPhase, aged, flight, landed, strides, turns>>
gtvars == <<gtConfig, gtPc, gtCounter, gtclocks, feet, velocity, gtfeet, gtcurriculum, gtLength, gtghosts, gtResets>>

GtOver(f, rows, value) == [e \in GtEnv |-> IF e \in rows THEN value[e] ELSE f[e]]
Greater(a, b) == IF a > b THEN a ELSE b
Lesser(a, b) == IF a < b THEN a ELSE b
Magnitude(x) == IF x < 0 THEN -x ELSE x

------------------------------------------------------------------------------
(* The clocks *)

\* _advance_gait: one tick for each control step since the last call, and what a tick
\* leaves is within the cycle; where there is none the phase stays as it was drawn.
Ticked(phase, ticks) ==
    IF ticks = 0 THEN phase
    ELSE [e \in GtEnv |-> [f \in {1, 2} |-> (phase[e][f] + ticks) % Cycle]]

\* Mutant: every term that asks turns the shared clock.
AdvanceGaitEachTerm(counter) ==
    /\ g1Phase' = Ticked(g1Phase, 2 * (counter - g1Last))
    /\ g1Last' = counter

AdvanceGait(counter) ==
    /\ g1Phase' = Ticked(g1Phase, counter - g1Last)
    /\ g1Last' = counter

\* _resample_gait: the right foot half a cycle on, which may be past the end of the cycle.
DrawnPhases ==
    IF gtConfig.initMode = "independent" THEN LeftPhases \X LeftPhases
    ELSE {<<left, left + Cycle \div 2>> : left \in LeftPhases}

\* compute_feet_phase_height_targets: highest at phase zero, lowest half a cycle away.
\* The cubic between them keeps its order and its symmetry; any phase is taken modulo the
\* cycle.
HeightTarget(phase) == Magnitude((phase % Cycle) - Cycle \div 2)
\* compute_feet_phase_contact_targets
ContactTarget(phase) == 2 * HeightTarget(phase) =< Cycle \div 2

\* _moving of a quadruped's term.
Moving(v) == \/ ~gtConfig.gated
             \/ Magnitude(v.planar) + Magnitude(v.turn) > gtConfig.threshold

\* _advance_to: environments that stand keep their phase.
Advanced(phase, ticks, commands) ==
    [e \in GtEnv |-> IF Moving(commands[e]) THEN (phase[e] + ticks) % Cycle ELSE phase[e]]

\* _phase: the feet of one diagonal half a cycle behind those of the other.
FootPhase(phase, offset) == (phase + offset) % Cycle
\* feet_phase_contact: standing robots are to keep their feet down.
Expected(e, offset) == FootPhase(rewardPhase'[e], offset) < gtConfig.stance \/ ~Moving(velocity[e])

------------------------------------------------------------------------------
(* The feet *)

\* _sensor_groups and the columns of _FootContactTerm: the first component of each of a
\* foot's sensors in the flat reading.
Starts(widths) == [k \in 1 .. Len(widths) |-> Sums(widths)[k - 1] + 1]
SensorOffset(groups, g) == Sums(groups)[g - 1]
ContactColumns(groups, widths, g) ==
    {Starts(widths)[SensorOffset(groups, g) + k] : k \in 1 .. groups[g]}
GroupsRefused(c) == c.groups = <<>> \/ 0 \in Range(c.groups) \/ ~(Range(c.widths) \subseteq {1, 3})

\* The flat reading: only the first sensor of a foot reports, a wide one with other
\* components beside the normal force.
Reading(contact) ==
    LET widths == gtConfig.widths
        owner(k) == CHOOSE g \in DOMAIN gtConfig.groups :
                        k \in SensorOffset(gtConfig.groups, g) + 1 .. SensorOffset(gtConfig.groups, g) + gtConfig.groups[g]
        column(c) == CHOOSE k \in DOMAIN widths : c \in Starts(widths)[k] .. Starts(widths)[k] + widths[k] - 1
    IN [c \in 1 .. Sums(widths)[Len(widths)] |->
          LET k == column(c) IN
          IF c = Starts(widths)[k]
          THEN contact[owner(k)] /\ k = SensorOffset(gtConfig.groups, owner(k)) + 1
          ELSE TRUE]
InContact(batch, e) ==
    LET flat == Reading([g \in Feet |-> batch[e][g].contact])
    IN [g \in Feet |-> \E c \in ContactColumns(gtConfig.groups, gtConfig.widths, g) : flat[c]]

\* Air time of each foot after one more call of its term.
Flown(time, contact) == [e \in GtEnv |-> [g \in Feet |-> IF contact[e][g] THEN 0 ELSE time[e][g] + 1]]

\* _command_gate
Gate(v) == gtConfig.gated => Magnitude(v.planar) + Magnitude(v.turn) > gtConfig.threshold
Gated(e, x) == IF Gate(velocity[e]) THEN x ELSE 0
OverFeet(f(_)) == SumFunction([g \in Feet |-> f(g)])
OneIf(b) == IF b THEN 1 ELSE 0

\* feet_swing_height: the peak grows in the air and is charged and dropped at the landing.
SwingHeight(contact) ==
    LET grown == [e \in GtEnv |-> [g \in Feet |->
                     IF contact[e][g] THEN peak[e][g] ELSE Greater(peak[e][g], feet'[e][g].height)]]
        first(e, g) == contact[e][g] /\ wasInAir[e][g]
    IN /\ charged' = [e \in GtEnv |-> [g \in Feet |-> IF first(e, g) THEN grown[e][g] ELSE -1]]
       /\ peak' = [e \in GtEnv |-> [g \in Feet |-> IF first(e, g) THEN 0 ELSE grown[e][g]]]
       /\ wasInAir' = [e \in GtEnv |-> [g \in Feet |-> ~contact[e][g]]]

AirTimeReward(e) ==
    Gated(e, OverFeet(LAMBDA g : OneIf(airTime'[e][g] > gtConfig.window[1] /\ airTime'[e][g] < gtConfig.window[2])))
FeetSlip(contact, e) == Gated(e, OverFeet(LAMBDA g : OneIf(contact[e][g]) * feet'[e][g].speed * feet'[e][g].speed))
FeetClearance(e) ==
    Gated(e, OverFeet(LAMBDA g : Magnitude(feet'[e][g].height - gtConfig.clearance) * feet'[e][g].speed))
DoubleStance(contact, e) == OneIf((\A g \in Feet : contact[e][g]) /\ velocity[e].planar > 0)
\* feet_air_while_standing
AirWhileStanding(contact, e) ==
    IF Magnitude(velocity[e].planar) + Magnitude(velocity[e].turn) =< gtConfig.threshold
    THEN OverFeet(LAMBDA g : OneIf(~contact[e][g])) ELSE 0
\* feet_phase_contact of the quadruped and of the biped.
PhaseContact(contact, e) == OverFeet(LAMBDA g : OneIf(contact[e][g] = Expected(e, (g - 1) * (Cycle \div 2))))
PhaseMatch(contact, e) == OverFeet(LAMBDA g : OneIf(contact[e][g] = ContactTarget(g1Phase'[e][g])))
\* feet_phase_swing_height: a foot in its swing is to be high, unless the robot stands.
PhaseSwing(e) ==
    OverFeet(LAMBDA g : OneIf(/\ FootPhase(rewardPhase'[e], (g - 1) * (Cycle \div 2)) >= gtConfig.stance
                              /\ gtConfig.gated => Moving(velocity[e])
                              /\ feet'[e][g].height = gtConfig.clearance))

\* forward_progress and under_speed, over the commanded speed; the robot's is that of its first foot.
Speed(e) == Greater(feet'[e][1].speed, 0)
ForwardProgress(e) == IF velocity[e].planar > 0 THEN Lesser(Speed(e), velocity[e].planar) ELSE OneIf(Speed(e) > 0)
UnderSpeed(e) == Greater(velocity[e].planar - Speed(e), 0)

Earned(contact, e) ==
    [air |-> AirTimeReward(e), slip |-> FeetSlip(contact, e), clearance |-> FeetClearance(e),
     stance |-> DoubleStance(contact, e), lifted |-> AirWhileStanding(contact, e),
     expected |-> PhaseContact(contact, e), matched |-> PhaseMatch(contact, e), swing |-> PhaseSwing(e),
     progress |-> ForwardProgress(e), shortfall |-> UnderSpeed(e)]

------------------------------------------------------------------------------
(* Commands and the penalty curriculum *)

\* G1VelocityCommand._resample_command: what is too slow to walk is no planar command.
Resampled(v) == [v EXCEPT !.planar = IF Magnitude(v.planar) > gtConfig.deadZone THEN v.planar ELSE 0]

\* EpisodeLengthTracker.update
TrackedAverage(lengths, n) ==
    IF n >= gtConfig.trackerWindow THEN lengths \div n
    ELSE (averageLength * (gtConfig.trackerWindow - n) + lengths) \div gtConfig.trackerWindow

\* _apply_scale: to the weights the terms were built with.
ScaledWeights(scale) ==
    [name \in DOMAIN OriginalWeights |->
        IF OriginalWeights[name] < 0 THEN (OriginalWeights[name] * scale) \div 100 ELSE OriginalWeights[name]]

PenaltyCurriculum(done) ==
    IF done = {} THEN UNCHANGED gtcurriculum
    ELSE LET average == TrackedAverage(SumFunction([e \in done |-> gtLength[e]]), Cardinality(done))
             moved == CASE average < gtConfig.down -> (penaltyScale * (100 - gtConfig.degree)) \div 100
                        [] average > gtConfig.up -> (penaltyScale * (100 + gtConfig.degree)) \div 100
                        [] OTHER -> penaltyScale
         IN /\ averageLength' = average
            /\ penaltyScale' = Greater(gtConfig.minScale, Lesser(gtConfig.maxScale, moved))
            /\ weights' = ScaledWeights(penaltyScale')

CurriculumRefused(c) ==
    \/ c.minScale < 0 \/ c.maxScale < c.minScale \/ c.initialScale < c.minScale \/ c.initialScale > c.maxScale
    \/ c.degree < 0 \/ c.down < 0 \/ c.up < 0
\* G1GaitPhase, _GaitTerm, feet_air_time, feet_swing_height, feet_phase_contact.
PhaseRefused(c) == c.initMode \notin {"offset_phase", "independent"}
GaitTermRefused(c) == c.threshold < 0 \/ c.deadZone < 0
AirTimeRefused(c) == c.window[1] < 0 \/ c.window[1] >= c.window[2]
SwingHeightRefused(c) == c.clearance =< 0 \/ Len(c.groups) # Cardinality(Feet)
PhaseContactRefused(c) == c.stance < 0 \/ c.stance > Cycle
GaitRefused(c) ==
    \/ PhaseRefused(c) \/ GaitTermRefused(c) \/ AirTimeRefused(c) \/ PhaseContactRefused(c)
    \/ GroupsRefused(c) \/ SwingHeightRefused(c) \/ CurriculumRefused(c)

------------------------------------------------------------------------------
Grounded == [g \in Feet |-> [contact |-> TRUE, height |-> 0, speed |-> 0]]
NoFeet(x) == [e \in GtEnv |-> [g \in Feet |-> x]]

\* A configuration that is refused builds no term.
GtInit ==
    /\ gtConfig \in {c \in GtConfigs : ~GaitRefused(c)}
    /\ gtPc = "control" /\ gtCounter = 0 /\ g1Last = 0 /\ rewardLast = 0 /\ frameLast = 0 /\ gtResets = 0
    /\ \E p \in DrawnPhases : g1Phase = [e \in GtEnv |-> p]
    /\ rewardPhase = [e \in GtEnv |-> 0] /\ frameAngle = rewardPhase
    /\ feet = [e \in GtEnv |-> Grounded]
    /\ \E v \in Velocities : velocity = [e \in GtEnv |-> Resampled(v)]
    /\ airTime = NoFeet(0) /\ frameAir = airTime /\ peak = airTime
    /\ wasInAir = NoFeet(FALSE) /\ charged = NoFeet(-1) /\ earned = <<>>
    /\ penaltyScale = gtConfig.initialScale /\ averageLength = 0 /\ weights = ScaledWeights(penaltyScale)
    /\ gtLength = [e \in GtEnv |-> 0]
    /\ drawnPhase = g1Phase /\ aged = gtLength /\ flight = NoFeet([steps |-> 0, top |-> 0])
    /\ landed = NoFeet(-1)
    /\ strides = [e \in GtEnv |-> [rewards |-> 0, frames |-> 0]] /\ turns = gtLength

\* The physics of a control step and its rewards, with the command as it was.
GtRewards ==
    /\ gtPc = "control" /\ gtCounter < MaxGtSteps
    /\ gtPc' = "commands"
    /\ gtCounter' = gtCounter + 1
    /\ gtLength' = [e \in GtEnv |-> gtLength[e] + 1]
    /\ feet' \in FootBatches
    /\ AdvanceGait(gtCounter')
    /\ rewardPhase' = Advanced(rewardPhase, gtCounter' - rewardLast, velocity)
    /\ rewardLast' = gtCounter'
    /\ LET contact == [e \in GtEnv |-> InContact(feet', e)]
       IN /\ airTime' = Flown(airTime, contact)
          /\ SwingHeight(contact)
          /\ earned' = [e \in GtEnv |-> Earned(contact, e)]
    /\ aged' = [e \in GtEnv |-> aged[e] + 1]
    /\ landed' = [e \in GtEnv |-> [g \in Feet |->
           IF feet'[e][g].contact /\ flight[e][g].steps > 0 THEN flight[e][g].top ELSE -1]]
    /\ flight' = [e \in GtEnv |-> [g \in Feet |->
           IF feet'[e][g].contact THEN [steps |-> 0, top |-> 0]
           ELSE [steps |-> flight[e][g].steps + 1, top |-> Greater(flight[e][g].top, feet'[e][g].height)]]]
    /\ strides' = [e \in GtEnv |-> [strides[e] EXCEPT !.rewards = @ + OneIf(Moving(velocity[e]))]]
    /\ UNCHANGED <<gtConfig, frameAngle, frameLast, velocity, frameAir, gtcurriculum, drawnPhase, turns, gtResets>>

\* Then some commands are drawn anew.
GtCommands ==
    /\ gtPc = "commands"
    /\ gtPc' = "frames"
    /\ \E rows \in RowSets, v \in Velocities :
          /\ velocity' = GtOver(velocity, rows, [e \in GtEnv |-> Resampled(v)])
          /\ turns' = GtOver(turns, rows, [e \in GtEnv |-> turns[e] + 1])
    /\ UNCHANGED <<gtConfig, gtCounter, gtclocks, feet, gtfeet, gtcurriculum, gtLength, drawnPhase, aged, flight,
                   landed, strides, gtResets>>

\* The frames of all environments, with the commands as they are now.
GtFrames ==
    /\ gtPc = "frames"
    /\ gtPc' = "reset"
    /\ AdvanceGait(gtCounter)
    /\ frameAngle' = Advanced(frameAngle, gtCounter - frameLast, velocity)
    /\ frameLast' = gtCounter
    /\ frameAir' = Flown(frameAir, [e \in GtEnv |-> InContact(feet, e)])
    /\ strides' = [e \in GtEnv |-> [strides[e] EXCEPT !.frames = @ + OneIf(Moving(velocity[e]))]]
    /\ UNCHANGED <<gtConfig, gtCounter, rewardPhase, rewardLast, feet, velocity, airTime, peak, wasInAir, charged,
                   earned, gtcurriculum, gtLength, drawnPhase, aged, flight, landed, turns, gtResets>>

\* The reset of the rows that ended, if any: the curriculum, the command, the terms, and
\* the frames of these rows, for which every term is called with the whole batch.
GtReset ==
    /\ gtPc = "reset"
    /\ gtPc' = "control"
    /\ \E rows \in RowSets :
       IF rows = {}
       THEN UNCHANGED <<gtclocks, feet, velocity, gtfeet, gtcurriculum, gtLength, gtghosts, gtResets>>
       ELSE /\ gtResets < MaxGtResets
            /\ gtResets' = gtResets + 1
            /\ PenaltyCurriculum(rows)
            /\ feet' = GtOver(feet, rows, [e \in GtEnv |-> Grounded])
            /\ \E v \in Velocities : velocity' = GtOver(velocity, rows, [e \in GtEnv |-> Resampled(v)])
            /\ \E p \in DrawnPhases :
                  /\ g1Phase' = GtOver(g1Phase, rows, [e \in GtEnv |-> p])
                  /\ drawnPhase' = GtOver(drawnPhase, rows, [e \in GtEnv |-> p])
            /\ airTime' = GtOver(airTime, rows, NoFeet(0))
            /\ peak' = GtOver(peak, rows, NoFeet(0))
            /\ wasInAir' = GtOver(wasInAir, rows, NoFeet(FALSE))
            /\ frameAir' = Flown(GtOver(frameAir, rows, NoFeet(0)), [e \in GtEnv |-> InContact(feet', e)])
            /\ gtLength' = GtOver(gtLength, rows, [e \in GtEnv |-> 0])
            /\ aged' = GtOver(aged, rows, [e \in GtEnv |-> 0])
            /\ flight' = GtOver(flight, rows, NoFeet([steps |-> 0, top |-> 0]))
            /\ turns' = GtOver(turns, rows, [e \in GtEnv |-> turns[e] + 1])
            /\ UNCHANGED <<g1Last, rewardPhase, rewardLast, frameAngle, frameLast, charged, earned, landed, strides>>
    /\ UNCHANGED <<gtConfig, gtCounter>>

GtNext == GtRewards \/ GtCommands \/ GtFrames \/ GtReset
GtSpec == GtInit /\ [][GtNext]_gtvars

------------------------------------------------------------------------------
(* Properties *)

\* However many terms ask, and whatever rows were reset in between, a biped's clock shows
\* one tick per control step of this life beyond the phase drawn for it, and that phase as
\* it was drawn until the first of them; with the feet drawn half a cycle apart one is to
\* rise as much as the other is to fall, in the first frame too.
OneClockPerLife ==
    \A e \in GtEnv :
        /\ \A f \in {1, 2} :
              g1Phase[e][f] = IF aged[e] = 0 THEN drawnPhase[e][f] ELSE (drawnPhase[e][f] + aged[e]) % Cycle
        /\ gtConfig.initMode = "offset_phase" =>
              HeightTarget(g1Phase[e][1]) + HeightTarget(g1Phase[e][2]) = Cycle \div 2

\* A quadruped's clocks count the control steps in which its command moved it, in all
\* lives; what the reward and the frame take for the phase drifts apart by no more than
\* one tick for each change of the command.
ClocksOfQuadruped ==
    gtPc = "control" => \A e \in GtEnv :
        /\ rewardPhase[e] = strides[e].rewards % Cycle /\ frameAngle[e] = strides[e].frames % Cycle
        /\ ~gtConfig.gated => rewardPhase[e] = gtCounter % Cycle /\ frameAngle[e] = rewardPhase[e]
        /\ Magnitude(strides[e].rewards - strides[e].frames) =< turns[e]

\* Air times and peaks are those of the flight a foot is in, in this aged, whichever of
\* the foot's sensors reports the ground and wherever it is in the flat reading; what is
\* charged at a landing is the peak of the flight that ended there.  The time in the
\* frame is at least that.
FlightsOfThisLife ==
    gtPc = "control" => \A e \in GtEnv, g \in Feet :
        /\ airTime[e][g] = flight[e][g].steps
        /\ (gtCounter > 0 => charged[e][g] = landed[e][g])
        /\ frameAir[e][g] >= flight[e][g].steps
        /\ feet[e][g].contact => frameAir[e][g] = 0

\* The penalties are the configured ones times one scale within its limits, after any
\* number of episodes, and nothing else is scaled; progress and what is missing from it
\* make up a forward command.
PenaltiesScaledOnce ==
    /\ penaltyScale \in gtConfig.minScale .. gtConfig.maxScale
    /\ \A name \in DOMAIN OriginalWeights :
          weights[name] = IF OriginalWeights[name] >= 0 THEN OriginalWeights[name]
                          ELSE (OriginalWeights[name] * penaltyScale) \div 100
    /\ gtPc = "commands" => \A e \in GtEnv :
          velocity[e].planar > 0 => earned[e].progress + earned[e].shortfall = velocity[e].planar

\* The comment beside _G1GaitContext.phase: "radians in [0, 2*pi)".  The first frame of a
\* life shows the right foot as it was drawn, up to one and a half cycles.
PhasesInCycle == \A e \in GtEnv, f \in {1, 2} : g1Phase[e][f] \in 0 .. Cycle - 1

GaitInStep == OneClockPerLife /\ ClocksOfQuadruped /\ FlightsOfThisLife /\ PenaltiesScaledOnce
=============================================================================
