------------------------------- MODULE MCTerms -------------------------------
(* The terms and the entities they act on.  `part` picks the module a          *)
(* behaviour runs; the variables of the others keep one initial value.         *)
EXTENDS EventTerms, CommandTerms, TLC

CONSTANTS e1, e2, arm, leg, robot, box
VARIABLE part

MCEvDefault == [e \in EvEnv |-> [el \in Element |-> [ax \in Axis |-> IF e = e1 THEN 1 ELSE 2]]]
All(lo, hi) == {[names |-> {}, axis |-> 0, pair |-> <<lo, hi>>]}
At(ax, lo, hi) == {[names |-> {}, axis |-> ax, pair |-> <<lo, hi>>]}
Named(names, lo, hi) == {[names |-> names, axis |-> 0, pair |-> <<lo, hi>>]}
Plain == [kind |-> "gains", mode |-> "reset", given |-> {"ranges"}, ranges |-> All(1, 2),
          distribution |-> "uniform", operation |-> "scale", by |-> "all", axes |-> <<>>, shared |-> FALSE]
Field(given, ranges, by, axes, dist, op, shared) ==
    [Plain EXCEPT !.kind = "field", !.given = {"ranges"} \cup given, !.ranges = ranges, !.by = by, !.axes = axes,
                  !.distribution = dist, !.operation = op, !.shared = shared]
MCTermConfigs == {
    Plain, [Plain EXCEPT !.operation = "add"], [Plain EXCEPT !.mode = "step"], [Plain EXCEPT !.ranges = All(2, 1)],
    Field({}, All(1, 2), "all", <<>>, "uniform", "abs", FALSE),
    Field({"distribution"}, All(0, 1), "all", <<>>, "log_uniform", "abs", FALSE),
    Field({"axes"}, All(-2, 0), "all", <<{0, 1}>>, "uniform", "add", TRUE),
    Field({"axes", "distribution"}, All(0, 1), "all", <<{}>>, "gaussian", "scale", FALSE),
    Field({}, At(0, 0, 1), "axis", <<>>, "uniform", "add", FALSE),
    Field({}, At(0, 0, 1) \cup At(1, 1, 1), "axis", <<>>, "uniform", "add", FALSE),
    Field({"axes"}, At(1, 0, 1), "axis", <<{0}>>, "uniform", "add", FALSE),
    Field({}, Named({arm}, 1, 2), "pattern", <<>>, "uniform", "scale", FALSE),
    Field({}, Named({arm}, 1, 2) \cup Named({arm, leg}, 0, 1), "pattern", <<>>, "uniform", "scale", FALSE),
    Field({"volume"}, All(1, 2), "all", <<>>, "uniform", "abs", FALSE),
    [Plain EXCEPT !.kind = "mass", !.given = {"ranges", "asset_cfg", "operation", "recompute_inertia"},
                  !.ranges = All(-1, 0), !.operation = "add"],
    [Plain EXCEPT !.kind = "mass", !.given = {"ranges", "asset_cfg", "operation"}],
    [Plain EXCEPT !.kind = "massInertia", !.given = {"ranges", "asset_cfg"}],
    [Plain EXCEPT !.kind = "massInertia", !.given = {"ranges", "asset_cfg"}, !.ranges = All(0, 1)],
    [Plain EXCEPT !.kind = "com", !.given = {"ranges", "asset_cfg"}, !.ranges = At(0, 0, 1)],
    [Plain EXCEPT !.kind = "com", !.given = {"ranges"}, !.ranges = At(0, 0, 1)],
    [Plain EXCEPT !.kind = "gravity", !.given = {"ranges", "operation"}, !.operation = "add", !.ranges = All(0, 1)],
    [Plain EXCEPT !.kind = "bias", !.given = {"ranges", "asset_cfg"}, !.ranges = All(0, 1)],
    [Plain EXCEPT !.kind = "push", !.mode = "interval", !.ranges = At(0, 0, 1)],
    [Plain EXCEPT !.kind = "push", !.mode = "interval", !.ranges = At(2, 0, 1)]}
MCStageLists == {<<>>,
    <<[step |-> 1, key |-> "ranges", ranges |-> All(3, 3)], [step |-> 2, key |-> "ranges", ranges |-> All(2, 3)]>>,
    <<[step |-> 1, key |-> "ranges", ranges |-> At(1, 1, 1)]>>,
    <<[step |-> 2, key |-> "ranges", ranges |-> All(3, 3)], [step |-> 1, key |-> "ranges", ranges |-> All(2, 3)]>>,
    <<[step |-> 1, key |-> "weight", ranges |-> All(3, 3)]>>}

MCCommand == [x |-> <<0, 1>>, y |-> <<0, 0>>, yaw |-> <<1, 1>>, stiffness |-> 1, standing |-> 0, heading |-> 100,
  world |-> 50, forward |-> 0, headingRange |-> <<>>, headingCommand |-> FALSE, resampling |-> <<1, 1>>,
  poseRanges |-> <<<<0, 0>>>>, zeroPose |-> 0]
MCCommandConfigs == {
   [MCCommand EXCEPT !.headingCommand = TRUE, !.headingRange = <<0, 1>>, !.yaw = <<0, 0>>],
   [MCCommand EXCEPT !.headingCommand = TRUE],
   [MCCommand EXCEPT !.standing = 50, !.x = <<1, 1>>, !.poseRanges = <<<<1, 1>>>>, !.zeroPose = 50],
   [MCCommand EXCEPT !.standing = 200],
   [MCCommand EXCEPT !.world = 0, !.forward = 50, !.x = <<-2, -1>>, !.yaw = <<1, 1>>],
   [MCCommand EXCEPT !.resampling = <<0, 0>>],
   [MCCommand EXCEPT !.poseRanges = <<>>]}
MCAction == [kind |-> "position", joints |-> {1}, scale |-> {}, offset |-> {}, clip |-> {}, useDefault |-> TRUE,
  biases |-> {0}]
MCActionConfigs == {
   [MCAction EXCEPT !.biases = {0, 1}],
   [MCAction EXCEPT !.kind = "relative", !.clip = {[names |-> {1}, value |-> <<0, 1>>]}],
   [MCAction EXCEPT !.kind = "relative", !.offset = {[names |-> {1}, value |-> 1]}],
   [MCAction EXCEPT !.kind = "velocity", !.scale = {[names |-> {2}, value |-> 2]}],
   [MCAction EXCEPT !.kind = "effort", !.joints = {1, 2}, !.scale = {[names |-> {1, 2}, value |-> 2]}]}
MCSetups == {[command |-> c, action |-> MCAction] : c \in MCCommandConfigs}
            \cup {[command |-> [MCCommand EXCEPT !.x = <<1, 1>>, !.world = 0], action |-> c] : c \in MCActionConfigs}
MCJointDefault == <<1, 0>>
MCRawActions == {[e \in CmEnv |-> <<1, 1>>]}

MCConfig == [joints |-> <<"hip", "knee", "wheel">>, bodies |-> <<"base">>, actuators |-> <<"m_knee", "m_hip">>]
Passive == [joints |-> Undeclared, bodies |-> <<"box">>, actuators |-> Undeclared]
Lid == [joints |-> <<"lid">>, bodies |-> Undeclared, actuators |-> <<"m_lid">>]
Scene(r, b) == (robot :> r) @@ (box :> b)
MCSceneConfigs == {
  Scene(MCConfig, Lid), Scene(Passive, MCConfig),
  Scene([MCConfig EXCEPT !.joints = <<"knee", "hip">>], Lid),
  Scene([MCConfig EXCEPT !.joints = <<"hip", "hip">>], Lid),
  Scene([MCConfig EXCEPT !.joints = <<"knee">>], Passive),
  Scene(MCConfig, [Passive EXCEPT !.bodies = <<"tail">>])}
MCBackendJoints == <<"lid", "hip", "wheel", "knee">>
MCBackendActuators == <<"m_hip", "m_lid", "m_knee">>
MCBackendBodies == <<"base", "box", "foot">>
MCActuatorJoint == <<"hip", "lid", "knee">>
MCPatterns == {{"knee"}, {"hip", "knee"}, {"hip"}}
MCIdLists == {<<2, 1>>, <<1, 1>>}

Parts == {"events", "impulse", "commands", "entities"}

AnyOf(S) == CHOOSE x \in S : TRUE

Init ==
    /\ part \in Parts
    /\ EvInit /\ (part # "events" => term = AnyOf(TermConfigs) /\ stages = <<>>)
    /\ ImInit /\ (part # "impulse" => cooldown = AnyOf([ImEnv -> Cooldowns]))
    /\ CmInit /\ (part # "commands" => [command |-> command, action |-> actionCfg] = AnyOf(Setups))
    /\ ScInit /\ (part # "entities" =>
                     /\ cfgs = AnyOf(SceneConfigs)
                     /\ selector = [entity |-> robot, names |-> NotGiven, ids |-> AllIds, keep |-> FALSE])

Events == part = "events" /\ EvNext /\ UNCHANGED <<part, imvars, cmvars, scvars>>
Impulse == part = "impulse" /\ ImNext /\ UNCHANGED <<part, evvars, cmvars, scvars>>
Commands == part = "commands" /\ CmNext /\ UNCHANGED <<part, evvars, imvars, scvars>>
EntityTargets == part = "entities" /\ ScNext /\ UNCHANGED <<part, evvars, imvars, cmvars>>

Next == Events \/ Impulse \/ Commands \/ EntityTargets

Spec == Init /\ [][Next]_<<part, evvars, imvars, cmvars, scvars>>

TypeOK == EvTypeOK /\ ImTypeOK /\ CmTypeOK /\ ScTypeOK
=============================================================================
