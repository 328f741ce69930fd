----------------------------- MODULE CommandTerms -----------------------------
(***************************************************************************)
(* envs/mdp/commands/, managers/command_manager.py and                     *)
(* envs/mdp/actions/actions.py: the velocity command of each environment,  *)
(* its resampling and its dependence on where the robot faces, the pose    *)
(* command, and the joint action term with its affine map, clip and        *)
(* encoder bias.                                                           *)
(*                                                                         *)
(* Velocities are small integers and headings quarter turns, so that a     *)
(* rotation is exact; a Bernoulli draw is a choice.                        *)
(***************************************************************************)
EXTENDS EntityScene

CONSTANTS
    CmEnv,
    Setups,           \* configurations of a command and an action, invalid ones among them;
                      \* with an action, the encoder biases an event may give its joints
    JointDefault, RawActions,
    MaxComputes       \* bound of the model

VARIABLES
    cmPc,             \* build, run or refused
    command,          \* the configuration
    actionCfg,
    heading,          \* of the robot, in quarter turns
    vel, velW,        \* vel_command_b and vel_command_w: [x, y, yaw]
    target,           \* heading_target
    kindOf,           \* is_heading, is_standing, is_world, is_forward
    timeLeft, commandCounter,
    pose,             \* the pose command
    drawnVel,         \* ghost: the world velocity of the last resampling
    raw, processed, encoderBias, ctrl,
    computes

commandvars == <<vel, velW, target, kindOf, timeLeft, commandCounter, pose, drawnVel>>
jointvars == <<raw, processed, encoderBias, ctrl>>
cmvars == <<cmPc, command, actionCfg, heading, commandvars, jointvars, computes>>

RangeValid(range) == range[1] <= range[2]
InRange(range) == range[1] .. range[2]
Zero3 == [x |-> 0, y |-> 0, yaw |-> 0]
Magnitude(v) == IF v < 0 THEN -v ELSE v
Larger(a, b) == IF a > b THEN a ELSE b
Clip(v, range) == IF v < range[1] THEN range[1] ELSE IF v > range[2] THEN range[2] ELSE v

------------------------------------------------------------------------------
(* Construction *)

\* Ranges in order; headings are commanded exactly when they have a range; a
\* command must expire some time; probabilities are percentages.
ValidateCfg(c) ==
    /\ RangeValid(c.x) /\ RangeValid(c.y) /\ RangeValid(c.yaw)
    /\ c.stiffness >= 0
    /\ \A p \in {c.standing, c.heading, c.world, c.forward} : p \in 0 .. 100
    /\ c.headingRange # <<>> => RangeValid(c.headingRange)
    /\ c.headingCommand <=> c.headingRange # <<>>
    /\ RangeValid(c.resampling) /\ c.resampling[2] > 0

PoseAccepted(c) ==
    /\ c.poseRanges # <<>>
    /\ \A i \in DOMAIN c.poseRanges : RangeValid(c.poseRanges[i])
    /\ c.zeroPose <= 100

\* Patterns of names against the joints: no joint twice, no pattern in vain.
ResolveNamedValues(values, joints) ==
    /\ \A j \in joints : Cardinality({x \in values : j \in x.names}) <= 1
    /\ \A x \in values : x.names \cap joints # {}

\* The value of each joint a pattern names, the default for the others.
ResolveAffine(values, joint, default) ==
    IF \E x \in values : joint \in x.names THEN (CHOOSE x \in values : joint \in x.names).value ELSE default

Unbounded == <<-99, 99>>
ResolveClip(values, joint) == ResolveAffine(values, joint, Unbounded)

ActionAccepted(c) ==
    /\ ResolveNamedValues(c.scale, c.joints) /\ ResolveNamedValues(c.offset, c.joints)
    /\ ResolveNamedValues(c.clip, c.joints)
    /\ \A x \in c.clip : RangeValid(x.value)
    /\ c.kind = "relative" => \A x \in c.offset : x.value = 0

\* The default position, or velocity, of the joint is the offset where the
\* configuration says so; otherwise the offset as given.
OffsetOf(c, joint) ==
    IF c.useDefault /\ c.kind \in {"position", "velocity"}
    THEN IF c.kind = "position" THEN JointDefault[joint] ELSE 0
    ELSE ResolveAffine(c.offset, joint, 0)

AllJoints == DOMAIN JointDefault

CmInit ==
    /\ cmPc = "build"
    /\ \E s \in Setups : command = s.command /\ actionCfg = s.action
    /\ heading \in [CmEnv -> {0}]
    /\ vel = [e \in CmEnv |-> Zero3] /\ velW = vel
    /\ target = [e \in CmEnv |-> 0]
    /\ kindOf = [e \in CmEnv |-> {}]
    /\ timeLeft = [e \in CmEnv |-> 0] /\ commandCounter = [e \in CmEnv |-> 0]
    /\ pose = [e \in CmEnv |-> 0]
    /\ drawnVel = [e \in CmEnv |-> Zero3]
    /\ raw = [e \in CmEnv |-> [j \in AllJoints |-> 0]] /\ processed = raw
    /\ encoderBias = [e \in CmEnv |-> 0]
    /\ ctrl = raw
    /\ computes = 0

Build ==
    /\ cmPc = "build"
    /\ cmPc' = IF ValidateCfg(command) /\ PoseAccepted(command) /\ ActionAccepted(actionCfg) THEN "run" ELSE "refused"
    /\ UNCHANGED <<command, actionCfg, heading, commandvars, jointvars, computes>>

------------------------------------------------------------------------------
(* The velocity command *)

\* A draw that cannot happen is not offered: a probability of 0 or 100 decides.
Bernoulli(p) == IF p = 0 THEN {FALSE} ELSE IF p = 100 THEN {TRUE} ELSE BOOLEAN

Draw == [v : [x : InRange(command.x), y : InRange(command.y), yaw : InRange(command.yaw)],
         heading : IF command.headingCommand THEN InRange(command.headingRange) ELSE {0},
         isHeading : IF command.headingCommand THEN Bernoulli(command.heading) ELSE {FALSE},
         standing : Bernoulli(command.standing), world : Bernoulli(command.world),
         forward : Bernoulli(command.forward),
         pose : InRange(command.poseRanges[1]) \cup (IF command.zeroPose > 0 THEN {0} ELSE {}),
         left : InRange(command.resampling)]

Kinds(d) == {k \in {"heading", "standing", "world", "forward"} :
                \/ (k = "heading" /\ d.isHeading) \/ (k = "standing" /\ d.standing)
                \/ (k = "world" /\ d.world) \/ (k = "forward" /\ d.forward)}

\* A forward environment goes straight ahead, at a minimum speed of one.
ForwardOnly(v) == [x |-> Larger(Magnitude(v.x), 1), y |-> 0, yaw |-> 0]

\* The command of a row as drawn: what is kept for the world frame is the draw
\* before it is overridden.
Resampled(d) == IF d.forward THEN ForwardOnly(d.v) ELSE d.v

\* A vector of the world as a robot that faces h sees it.
IntoBody(v, h) ==
    CASE h % 4 = 0 -> [v EXCEPT !.x = v.x, !.y = v.y]
      [] h % 4 = 1 -> [v EXCEPT !.x = v.y, !.y = -v.x]
      [] h % 4 = 2 -> [v EXCEPT !.x = -v.x, !.y = -v.y]
      [] h % 4 = 3 -> [v EXCEPT !.x = -v.y, !.y = v.x]

WrapToPi(q) == ((q + 1) % 4) - 1

\* Headings are steered to, within the yaw range.
SteerHeading(v, e, k, t) ==
    IF command.headingCommand /\ "heading" \in k
    THEN [v EXCEPT !.yaw = Clip(command.stiffness * WrapToPi(t - heading[e]), command.yaw)] ELSE v

\* Mutant: the velocity of the body is turned again.
HoldWorldTwice(v, w, e, k) == IF "world" \in k THEN [v EXCEPT !.x = IntoBody(v, heading[e]).x, !.y = IntoBody(v, heading[e]).y] ELSE v

\* A velocity of the world is turned into the frame of the body.
HoldWorld(v, w, e, k) ==
    IF "world" \in k THEN LET seen == IntoBody(w, heading[e]) IN [x |-> seen.x, y |-> seen.y, yaw |-> v.yaw] ELSE v

Stand(v, k) == IF "standing" \in k THEN Zero3 ELSE v

\* _update_command: the same for every row, whichever rows were resampled.
UpdateCommand(v, w, k, t) ==
    /\ vel' = [e \in CmEnv |-> Stand(HoldWorld(SteerHeading(v[e], e, k[e], t[e]), w[e], e, k[e]), k[e])]
    /\ velW' = [e \in CmEnv |-> IF "standing" \in k[e] THEN Zero3 ELSE w[e]]

Merge(rows, new, old) == [e \in CmEnv |-> IF e \in rows THEN new[e] ELSE old[e]]

\* _resample_command of the rows.
ResampleCommand(rows, d) ==
    /\ target' = Merge(rows, [e \in rows |-> d[e].heading], target)
    /\ kindOf' = Merge(rows, [e \in rows |-> Kinds(d[e])], kindOf)
    /\ drawnVel' = Merge(rows, [e \in rows |-> d[e].v], drawnVel)
    /\ pose' = Merge(rows, [e \in rows |-> d[e].pose], pose)
    /\ vel' = Merge(rows, [e \in rows |-> Resampled(d[e])], vel)
    /\ velW' = Merge(rows, [e \in rows |-> d[e].v], velW)

ElapsedRows == {e \in CmEnv : timeLeft[e] <= 1}

\* compute(dt) in a control step: the robots have turned; rows whose time is up
\* are resampled; then every row's command is brought up to date.
Compute(turned) ==
    /\ cmPc = "run" /\ computes < MaxComputes
    /\ heading' = turned
    /\ computes' = computes + 1
    /\ cmPc' = "update"
    /\ \E d \in [ElapsedRows -> Draw] :
          /\ ResampleCommand(ElapsedRows, d)
          /\ timeLeft' = [e \in CmEnv |-> IF e \in ElapsedRows THEN d[e].left ELSE timeLeft[e] - 1]
    /\ commandCounter' = [e \in CmEnv |-> IF e \in ElapsedRows THEN commandCounter[e] + 1 ELSE commandCounter[e]]
    /\ UNCHANGED <<command, actionCfg, jointvars>>

Update ==
    /\ cmPc = "update"
    /\ UpdateCommand(vel, velW, kindOf, target)
    /\ cmPc' = "run"
    /\ UNCHANGED <<command, actionCfg, heading, target, kindOf, timeLeft, commandCounter, pose, drawnVel, jointvars, computes>>

\* reset: the rows' commands are resampled at once, and a compute with no time
\* passing follows, after the reset has placed the robots.
ResetCommands(rows, turned) ==
    /\ cmPc = "run" /\ computes < MaxComputes
    /\ computes' = computes + 1
    /\ heading' = Merge(rows, turned, heading)
    /\ \E d \in [rows -> Draw] :
          /\ ResampleCommand(rows, d)
          /\ timeLeft' = Merge(rows, [e \in rows |-> d[e].left], timeLeft)
    /\ commandCounter' = [e \in CmEnv |-> IF e \in rows THEN 1 ELSE commandCounter[e]]
    /\ cmPc' = "update"
    /\ raw' = [e \in CmEnv |-> IF e \in rows THEN [j \in AllJoints |-> 0] ELSE raw[e]]
    /\ \E b \in [rows -> actionCfg.biases] : encoderBias' = Merge(rows, b, encoderBias)
    /\ UNCHANGED <<command, actionCfg, processed, ctrl>>

------------------------------------------------------------------------------
(* The joint action *)

\* process_actions: every row of the batch is kept raw, mapped and clipped.
ProcessActions(a) ==
    /\ cmPc = "run"
    /\ raw' = a
    /\ processed' = [e \in CmEnv |-> [j \in AllJoints |->
          Clip(a[e][j] * ResolveAffine(actionCfg.scale, j, 1) + OffsetOf(actionCfg, j), ResolveClip(actionCfg.clip, j))]]
    /\ cmPc' = "apply"
    /\ UNCHANGED <<command, actionCfg, heading, commandvars, encoderBias, ctrl, computes>>

\* A position target is corrected by the encoder bias of the row's episode; a
\* relative one starts at the joint's present position (its default here).
TargetOf(e, j) ==
    CASE actionCfg.kind = "position" -> processed[e][j] - encoderBias[e]
      [] actionCfg.kind = "relative" -> JointDefault[j] + processed[e][j]
      [] OTHER -> processed[e][j]

ApplyActions ==
    /\ cmPc = "apply"
    /\ ctrl' = [e \in CmEnv |-> [j \in AllJoints |-> IF j \in actionCfg.joints THEN TargetOf(e, j) ELSE ctrl[e][j]]]
    /\ cmPc' = "run"
    /\ UNCHANGED <<command, actionCfg, heading, commandvars, raw, processed, encoderBias, computes>>

CmNext ==
    \/ Build \/ Update \/ ApplyActions
    \/ \E turned \in [CmEnv -> 0 .. 1] : Compute(turned)
    \/ \E rows \in SUBSET CmEnv \ {{}}, turned \in [CmEnv -> 0 .. 1] : ResetCommands(rows, turned)
    \/ \E a \in RawActions : ProcessActions(a)

CmSpec == CmInit /\ [][CmNext]_cmvars

------------------------------------------------------------------------------
(* Properties *)

CmTypeOK ==
    /\ cmPc \in {"build", "run", "update", "apply", "refused"}
    /\ heading \in [CmEnv -> 0 .. 3]
    /\ \A e \in CmEnv : kindOf[e] \subseteq {"heading", "standing", "world", "forward"}
    /\ timeLeft \in [CmEnv -> Int] /\ commandCounter \in [CmEnv -> Nat]
    /\ computes \in 0 .. MaxComputes

\* Between computes a row's command is a function of what was drawn for it last
\* and of where the robot faces now, however often the command was brought up to
\* date since and whichever other rows were reset: a standing row gets no
\* command, a world row the velocity drawn, seen from the body.
CommandOfLastDraw ==
    cmPc = "run" => \A e \in CmEnv : commandCounter[e] > 0 =>
        IF "standing" \in kindOf[e] THEN vel[e] = Zero3
        ELSE /\ "world" \in kindOf[e] =>
                   LET seen == IntoBody(drawnVel[e], heading[e]) IN vel[e].x = seen.x /\ vel[e].y = seen.y
             /\ "heading" \in kindOf[e] =>
                   vel[e].yaw = Clip(command.stiffness * WrapToPi(target[e] - heading[e]), command.yaw)

\* What is asked of the robot is what was drawn or chosen: a command is the last
\* draw turned into the robot's frame once, and an action reaches its own joint.
OrdersSound == CommandOfLastDraw /\ ControlReachesItsJoint
=============================================================================
