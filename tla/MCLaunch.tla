------------------------------- MODULE MCLaunch -------------------------------
(* Around a training: the environments its processes build from configuration  *)
(* and registry, the assets several processes resolve at once, the GPUs its    *)
(* processes end up on, watching or filming what came of it, and the grasps a  *)
(* collecting run leaves to the runs after it.  `part` picks the one a         *)
(* behaviour runs.                                                             *)
EXTENDS DevicePlacement, InteractivePlayback, EnvRegistry, Allegro, TLC

CONSTANTS e1, e2
VARIABLE part

------------------------------------------------------------------------------
(* Assets: one robot with two directories, one native bot, one motion.         *)
MCFilesOf == ("meshes" :> {"base", "leg"}) @@ ("textures" :> {"floor"}) @@ ("bot" :> {"fr3", "licence"})
MCMarkerOf == ("meshes" :> "base") @@ ("textures" :> "floor") @@ ("bot" :> "fr3")
MCRobotSpecs == ("g1" :> <<"meshes", "textures">>) @@ ("go2w" :> <<"meshes">>)
FilePath(base, f) == [base |-> base, file |-> f]
MCAhRequests ==
    {[kind |-> "robots", first |-> <<"x", "robots", "go2w", "a.xml">>, second |-> <<"a.xml">>],
     [kind |-> "robots", first |-> <<"robots", "none", "robots", "g1", "s.xml">>,
      second |-> <<"robots", "go2w", "s.xml">>],
     [kind |-> "files", paths |-> <<FilePath("relative", "walk"), FilePath("root", "walk")>>],
     [kind |-> "files", paths |-> <<FilePath("elsewhere", "walk")>>],
     [kind |-> "scene", dir |-> "textures"],
     [kind |-> "bot", bot |-> "bot", root |-> "unset", inside |-> TRUE],
     [kind |-> "bot", bot |-> "bot", root |-> "named", inside |-> TRUE],
     [kind |-> "bot", bot |-> "meshes", root |-> "unset", inside |-> TRUE]}

------------------------------------------------------------------------------
(* Launches: every script with lists in and out of order, too long or with a   *)
(* GPU twice, under no mask, a mask that permutes, and none visible.           *)
Launch(script, backend, devices, device, collector, mask, playOnly, failing) ==
    [script |-> script, backend |-> backend, devices |-> devices, device |-> device,
     collector |-> collector, mask |-> mask, playOnly |-> playOnly, failing |-> failing]
MCBackends == {"mujoco", "isaacgym", "newton", "mjwarp", "genesis"}
MCDpLaunches ==
    {Launch("offpolicy", b, d, NoDevice, NoDevice, m, FALSE, f) :
        b \in MCBackends, d \in {<<>>, <<1>>, <<0, 1>>, <<0, 2, 1>>, <<1, 0>>, <<1, 1>>, <<0, 3>>},
        m \in {<<0, 1, 2>>, <<2, 0>>, <<>>}, f \in {{}, {1}, {0}}}
    \cup
    {Launch("ppo", b, d, v, NoDevice, m, pl, f) :
        b \in MCBackends, d \in {<<>>, <<1>>, <<1, 0>>, <<2, 0, 1>>}, v \in {NoDevice, Cuda(1), Cpu},
        m \in {<<0, 1, 2>>, <<2, 0>>}, pl \in BOOLEAN, f \in {{}, {2}}}
    \cup
    {Launch("appo", b, <<>>, v, c, m, FALSE, {}) :
        b \in MCBackends \ {"newton", "mjwarp"}, v \in {NoDevice, Cuda(1), AnyCuda},
        c \in {NoDevice, Cpu, AnyCuda, Cuda(1), Cuda(0)}, m \in {<<0, 1, 2>>, <<2, 0>>, <<>>}}

------------------------------------------------------------------------------
(* Environments: a manager-based and an older configuration, one with two reward *)
(* fields, and the classes of their terms; overrides that refine, disable, add *)
(* and replace terms.                                                          *)
MCDict(pairs) ==
    LET keys == [i \in DOMAIN pairs |-> pairs[i][1]]
    IN Dict(keys, [key \in {keys[i] : i \in DOMAIN keys} |-> pairs[CHOOSE i \in DOMAIN keys : keys[i] = key][2]])
Plain(default) == [types |-> {}, dict |-> FALSE, entry |-> {}, policy |-> "none", default |-> default]
Nested(cls, default) == [Plain(default) EXCEPT !.types = {cls}]
TermsOf(cls, default) == [Plain(default) EXCEPT !.dict = TRUE, !.entry = {cls}, !.policy = "terms"]
Params(default) == [Plain(default) EXCEPT !.dict = TRUE, !.policy = "params"]
Concrete(cls, above, fields) == cls :> [fields |-> fields, abstract |-> FALSE, above |-> {cls} \cup above]

Scene(file) == Object("SceneCfg", ("model_file" :> Str(file)) @@ ("entities" :> EmptyDict))
NoiseOf(n) == Object("Noise", "std" :> Num(n))
RewardTerm(f, w, p) == Object("RewardTerm", ("func" :> Str(f)) @@ ("weight" :> Num(w)) @@ ("params" :> p))
ObsTerm(f, noise, p) == Object("ObsTerm", ("func" :> Str(f)) @@ ("noise" :> noise) @@ ("params" :> p))
Ranges == MCDict(<<<<"x", Num(1)>>, <<"y", Num(1)>>>>)
CommonFields ==
    ("sim_dt" :> Plain(Num(1))) @@ ("ctrl_dt" :> Plain(Num(2))) @@
    ("superdex_execution_mode" :> Plain(Str("batch"))) @@ ("isaacsim_render_mode" :> Plain(Null)) @@
    ("isaacgym_device_id" :> Plain(Null)) @@ ("scene" :> Nested("SceneCfg", Scene("flat")))
WalkRewards ==
    MCDict(<<<<"alive", RewardTerm("f1", 1, EmptyDict)>>,
             <<"track", RewardTerm("f2", 2, MCDict(<<<<"std", Num(3)>>, <<"sensor", NoiseOf(4)>>>>))>>>>)
WalkObservations ==
    MCDict(<<<<"policy", Object("Group", ("corrupt" :> Num(1)) @@
        ("terms" :> MCDict(<<<<"gyro", ObsTerm("f1", NoiseOf(2), EmptyDict)>>,
                             <<"joint", ObsTerm("f2", Null, MCDict(<<<<"scale", Num(1)>>>>))>>>>)))>>>>)
WalkCommands == MCDict(<<<<"twist", Object("VelCmd", ("ranges" :> Ranges) @@ ("period" :> Num(5)))>>>>)
MCClasses ==
    Concrete("RewardTerm", {}, ("func" :> Plain(Missing)) @@ ("weight" :> Plain(Num(0))) @@ ("params" :> Params(EmptyDict))) @@
    Concrete("ObsTerm", {}, ("func" :> Plain(Missing)) @@ ("noise" :> Nested("Noise", Null)) @@ ("params" :> Params(EmptyDict))) @@
    Concrete("Noise", {}, "std" :> Plain(Num(1))) @@
    Concrete("Group", {}, ("corrupt" :> Plain(Num(1))) @@ ("terms" :> TermsOf("ObsTerm", EmptyDict))) @@
    ("CommandTerm" :> [fields |-> [f \in {} |-> Plain(Null)], abstract |-> TRUE, above |-> {"CommandTerm"}]) @@
    Concrete("VelCmd", {"CommandTerm"}, ("ranges" :> Plain(Ranges)) @@ ("period" :> Plain(Num(5)))) @@
    Concrete("PoseCmd", {"CommandTerm"}, "period" :> Plain(Num(7))) @@
    Concrete("SceneCfg", {}, ("model_file" :> Plain(Missing)) @@ ("entities" :> Plain(EmptyDict))) @@
    Concrete("OldReward", {}, ("scale" :> Plain(Num(1))) @@ ("bonus" :> Plain(Num(0)))) @@
    Concrete("Walk", {}, CommonFields @@ ("rewards" :> TermsOf("RewardTerm", WalkRewards)) @@
        ("observations" :> TermsOf("Group", WalkObservations)) @@ ("commands" :> TermsOf("CommandTerm", WalkCommands))) @@
    Concrete("Old", {}, CommonFields @@
        ("reward_config" :> Nested("OldReward", Object("OldReward", ("scale" :> Num(1)) @@ ("bonus" :> Num(0)))))) @@
    Concrete("Torn", {}, CommonFields @@ ("reward_config" :> Plain(Null)) @@ ("rewards" :> TermsOf("RewardTerm", EmptyDict)))

\* Installations: test packages from the environment variable, third-party ones from
\* entry points, absent ones, modules that raise, collide or build on later ones.
ConfigOf(name, cls) == [kind |-> "config", name |-> name, cls |-> cls]
EnvOf(name, backend) == [kind |-> "env", name |-> name, backend |-> backend]
Install(extra, entries, registrations) ==
    [defaults |-> <<"loco">>, extra |-> extra, entries |-> entries,
     modules |-> ("loco" :> <<"walk", "old">>) @@ ("test" :> <<"dummy", "more">>) @@ ("third" :> <<"duck">>),
     registrations |-> registrations @@
         ("walk" :> <<ConfigOf("walk", "Walk"), EnvOf("walk", "isaacsim"), EnvOf("walk", "mujoco")>>) @@
         ("old" :> <<ConfigOf("old", "Old"), EnvOf("old", "superdex"), EnvOf("walk", "superdex"),
                     ConfigOf("torn", "Torn"), EnvOf("torn", "mujoco")>>) @@
         ("dummy" :> <<ConfigOf("dummy", "Walk"), EnvOf("dummy", "mujoco"), [kind |-> "raise"]>>) @@
         ("more" :> <<EnvOf("dummy", "isaacsim")>>) @@
         ("duck" :> <<ConfigOf("duck", "Walk"), EnvOf("duck", "mujoco")>>)]
MCInstalls ==
    <<Install(<<>>, <<>>, <<>>),
      Install(<<"test">>, <<"third">>, <<>>),
      Install(<<"test", "loco">>, <<"test">>, <<>>),
      Install(<<"gone">>, <<>>, <<>>),
      Install(<<>>, <<"gone">>, <<>>),
      Install(<<>>, <<"test">>, <<>>),
      Install(<<"test">>, <<"third">>, "dummy" :> <<EnvOf("duck", "isaacsim"), ConfigOf("dummy", "Walk")>>),
      Install(<<"test">>, <<>>, "dummy" :> <<ConfigOf("walk", "Walk"), EnvOf("walk", "motrix")>>),
      Install(<<"test">>, <<>>, ("dummy" :> <<EnvOf("dummy", "mujoco")>>) @@
                                ("more" :> <<ConfigOf("dummy", "Walk"), EnvOf("dummy", "isaacsim")>>))>>

Rewards ==
    MCDict(<<<<"track", MCDict(<<<<"weight", Num(5)>>,
                 <<"params", MCDict(<<<<"sensor", MCDict(<<<<"std", Num(9)>>>>)>>, <<"std", Num(6)>>>>)>>>>)>>,
             <<"alive", Null>>,
             <<"new", MCDict(<<<<"func", Str("f3")>>, <<"weight", Num(2)>>>>)>>>>)
PolicyTerms(terms) == <<"observations", MCDict(<<<<"policy", MCDict(<<<<"terms", MCDict(terms)>>>>)>>>>)>>
Twist(fields) == <<"commands", MCDict(<<<<"twist", MCDict(fields)>>>>)>>
Refining ==
    MCDict(<<PolicyTerms(<<<<"joint", MCDict(<<<<"noise", MCDict(<<<<"std", Num(8)>>>>)>>,
                                               <<"params", MCDict(<<<<"bias", Num(2)>>>>)>>>>)>>,
                           <<"gyro", Null>>>>),
             Twist(<<<<"ranges", MCDict(<<<<"x", Num(3)>>>>)>>>>), <<"sim_dt", Num(2)>>>>)
Replacing ==
    MCDict(<<Twist(<<<<"_target_", Str("PoseCmd")>>, <<"period", Num(1)>>>>),
             <<"scene", MCDict(<<<<"model_file", Str("rough")>>, <<"entities", MCDict(<<<<"robot", Num(1)>>>>)>>>>)>>>>)
PlayTerms ==
    MCDict(<<<<"observations", MCDict(<<<<"policy", MCDict(<<<<"corrupt", Num(0)>>,
                 <<"terms", MCDict(<<<<"joint", MCDict(<<<<"params", MCDict(<<<<"bias", Num(0)>>>>)>>>>)>>>>)>>>>)>>>>)>>,
             Twist(<<<<"period", Num(4)>>>>)>>)
PlayRewards ==
    MCDict(<<<<"rewards", MCDict(<<<<"alive", MCDict(<<<<"weight", Num(3)>>>>)>>, <<"track", Null>>>>)>>>>)

NoPlay == [enabled |-> FALSE, env |-> EmptyDict, scene |-> "none"]
Profile(env, scene) == [enabled |-> TRUE, env |-> env, scene |-> scene]
Job(task, reward, env, play, backend, playOnly, collects) ==
    [task |-> task, collects |-> collects,
     sections |-> [reward |-> reward, env |-> env, play |-> play, backend |-> backend,
                   renderMode |-> "interactive", playOnly |-> playOnly]]
MCRgLaunches ==
    {Job("walk", Rewards, env, play, backend, TRUE, FALSE) :
        env \in {EmptyDict, Refining, Replacing}, backend \in {"mujoco", "isaacsim", "superdex"},
        play \in {NoPlay, Profile(PlayTerms, "none"), Profile(PlayTerms, "visual"), Profile(PlayRewards, "visual")}}
    \cup {Job("walk", MCDict(<<<<"reward", Rewards>>>>), env, Profile(PlayTerms, "visual"), backend, FALSE, collects) :
        env \in {Refining, Replacing}, backend \in {"mujoco", "none"}, collects \in BOOLEAN}
    \cup {Job("dummy", Rewards, Refining, NoPlay, backend, FALSE, TRUE) : backend \in {"isaacsim", "none"}}
    \cup {Job("duck", Rewards, EmptyDict, NoPlay, "mujoco", FALSE, TRUE)}
    \cup {Job("old", MCDict(<<<<"scale", Num(4)>>>>), MCDict(<<pair>>), NoPlay, "none", FALSE, FALSE) :
        pair \in {<<"sim_dt", Num(3)>>, <<"isaacgym_device_id", Num(1)>>, <<"reward_config", EmptyDict>>, <<"nothing", Null>>}}
    \cup {Job(task, EmptyDict, EmptyDict, NoPlay, "mujoco", FALSE, FALSE) : task \in {"walk", "torn", "absent"}}

------------------------------------------------------------------------------
(* Windows: every algorithm with checkpoints that fit or not, on a task with   *)
(* velocity commands its policy sees or not, and on one without.               *)
MCIpLimit == ("vx" :> {0, 1}) @@ ("vyaw" :> {0})
Ckpt(there, legible, width, contract) == [there |-> there, legible |-> legible, width |-> width, contract |-> contract]
TaskOf(commands, sees, walks, oneGroup) == [commands |-> commands, sees |-> sees, walks |-> walks, oneGroup |-> oneGroup]
Window(algo, mode, obsMode, ckpt, task, keyboard) ==
    [algo |-> algo, backend |-> TRUE, mode |-> mode, obsMode |-> obsMode, ckpt |-> ckpt, display |-> TRUE,
     keyboard |-> keyboard, check |-> TRUE, paused |-> FALSE, task |-> task]
MCIpLaunches ==
    {Window(a, "policy", o, Ckpt(t, l, w, c), TaskOf(FALSE, FALSE, FALSE, FALSE), FALSE) :
        a \in {"ppo", "appo", "sac"}, o \in {"auto", "flat", "actor"}, t, l, c \in BOOLEAN,
        w \in {"actor", "flat", "other"}}
    \cup {Window("ppo", "policy", "auto", Ckpt(TRUE, TRUE, "actor", TRUE), TaskOf(c, s, w, TRUE), TRUE) :
        c, s, w \in BOOLEAN}
    \cup {Window("ppo", "zero", "auto", Ckpt(TRUE, TRUE, "actor", TRUE), TaskOf(c, s, FALSE, TRUE), TRUE) :
        c, s \in BOOLEAN}
    \cup {[Window("ppo", "policy", "auto", Ckpt(TRUE, TRUE, "actor", TRUE), TaskOf(c, FALSE, TRUE, TRUE), k)
            EXCEPT !.check = FALSE, !.paused = TRUE, !.backend = b, !.display = d] :
        c, b, d, k \in BOOLEAN}
MCSnCapabilities == {[physics |-> p, overlay |-> o] : p, o \in BOOLEAN}

------------------------------------------------------------------------------
\* Collecting with resets at the end of a step, from ages of their own or with resets from
\* outside, and turning the ball from home or from the cache; some are refused.
MCCollecting ==
    [scale |-> 0, rawClip |-> <<-1, 1>>, range |-> <<-2, 2>>, jointNoise |-> 1, kp |-> 1, kd |-> 1,
     collects |-> TRUE, enabled |-> TRUE, contactNames |-> <<"index", "thumb">>, maxDistance |-> 1, minContacts |-> 1,
     minimumHeight |-> 1, collectionTarget |-> 2, autoSave |-> TRUE, cached |-> FALSE, resetNoise |-> 0,
     ballNoise |-> 0, ballOffset |-> 0, rewardClip |-> <<-1, 1>>, maxLength |-> 2, randomAge |-> FALSE,
     autoreset |-> TRUE, actions |-> {1}]
MCTurning ==
    [MCCollecting EXCEPT !.scale = 2, !.collects = FALSE, !.cached = TRUE, !.actions = {2}]
MCAlConfigs ==
    {MCCollecting, [MCCollecting EXCEPT !.autoreset = FALSE, !.collectionTarget = 3],
     [MCCollecting EXCEPT !.randomAge = TRUE, !.autoSave = FALSE], MCTurning,
     [MCTurning EXCEPT !.cached = FALSE, !.ballOffset = 1, !.resetNoise = 2, !.range = <<-1, 1>>, !.actions = {-1, 2}],
     [MCCollecting EXCEPT !.minContacts = 3]}
MCAlHome == [joint |-> 0, ball |-> 3, turn |-> 0, distance |-> 0, contacts |-> 0]
InHand(turn) == [joint |-> turn, ball |-> 3, turn |-> turn, distance |-> 0, contacts |-> 2]
MCAlPoseBatches ==
    {[e \in {e1, e2} |-> InHand(1)],
     [e \in {e1, e2} |-> IF e = e1 THEN [InHand(2) EXCEPT !.contacts = 1] ELSE [InHand(1) EXCEPT !.ball = 0]]}

------------------------------------------------------------------------------
MCInit ==
    /\ part \in {"assets", "placement", "registry", "window", "film", "grasps"}
    /\ AhInit
    /\ part # "assets" => assets = {} /\ here = {} /\ checkout = {} /\ hubInstalled /\ mirror
    /\ DpInit
    /\ part # "placement" => dpLaunch = Launch("ppo", "mujoco", <<>>, Cpu, NoDevice, <<0, 1, 2>>, FALSE, {})
    /\ RgInit
    /\ part # "registry" => rgInstall = 1 /\ rgLaunch.task = "absent"
    /\ IpInit
    /\ part # "window" => ipLaunch = Window("sac", "policy", "auto", Ckpt(FALSE, FALSE, "other", FALSE),
                                            TaskOf(FALSE, FALSE, FALSE, FALSE), FALSE)
    /\ SnInit
    /\ part # "film" => ~snCan.physics /\ ~snCan.overlay
    /\ AlInit /\ alConfig = MCCollecting

Assets == part = "assets" /\ AhNext /\ UNCHANGED <<part, dpvars, rgvars, ipvars, snvars, alvars>>
Placement == part = "placement" /\ DpNext /\ UNCHANGED <<part, ahvars, rgvars, ipvars, snvars, alvars>>
Registry == part = "registry" /\ RgNext /\ UNCHANGED <<part, ahvars, dpvars, ipvars, snvars, alvars>>
Watched == part = "window" /\ IpNext /\ UNCHANGED <<part, ahvars, dpvars, rgvars, snvars, alvars>>
Film == part = "film" /\ SnNext /\ UNCHANGED <<part, ahvars, dpvars, rgvars, ipvars, alvars>>
Grasp == part = "grasps" /\ AlNext /\ UNCHANGED <<part, ahvars, dpvars, rgvars, ipvars, snvars>>

MCNext == Assets \/ Placement \/ Registry \/ Watched \/ Film \/ Grasp

MCSpec == MCInit /\ [][MCNext]_<<part, ahvars, dpvars, rgvars, ipvars, snvars, alvars>>
=============================================================================
