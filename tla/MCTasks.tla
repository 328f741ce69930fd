------------------------------ MODULE MCTasks ------------------------------
(* A reference motion of two clips with two environments, the evaluation of a  *)
(* flip whose clip has four frames, a robot that stands up, the gait terms, and a *)
(* robot on a grid of three levels by two types of terrain.  `part` picks the  *)
(* module a behaviour runs; the variables of the others keep one initial value. *)
EXTENDS MotionTracking, Holdout, Footstand, Gait, Terrain, TLC

CONSTANTS e1, e2
VARIABLE part

------------------------------------------------------------------------------
MCClipLengths == <<2, 1>>

Looks(flying, upright, terminated, truncated) ==
    [flying |-> flying, upright |-> upright, terminated |-> terminated, truncated |-> truncated]
MCOutcomes == {Looks(TRUE, FALSE, FALSE, FALSE), Looks(FALSE, TRUE, FALSE, FALSE),
               Looks(FALSE, FALSE, TRUE, FALSE), Looks(FALSE, TRUE, FALSE, TRUE)}

------------------------------------------------------------------------------
MCFsConfig ==
    [actuators |-> <<{1}, {2}>>, joints |-> <<{2}, {1}>>, limits |-> <<<<-2, 3>>, <<-1, 2>>>>,
     scale |-> 2, clip |-> 1, kp |-> 3, kd |-> 1, latency |-> FALSE, grace |-> 1, heightFraction |-> 1,
     randomAge |-> FALSE, maxLength |-> 3, orientationThreshold |-> 1, energyThreshold |-> 99,
     scales |-> [name \in {"dof_acc", "rear_foot_anchor", "termination"} |-> IF name = "dof_acc" THEN -1 ELSE 3],
     softFactor |-> 1, deadband |-> 0, radius |-> 1, offset |-> <<1, 1>>, resetJoints |-> {1, 2},
     massScale |-> <<1, 1>>, added |-> <<0, 0>>, torso |-> {"base"}]
MCFsConfigs ==
    {MCFsConfig,
     [MCFsConfig EXCEPT !.latency = TRUE, !.randomAge = TRUE, !.energyThreshold = 100, !.offset = <<0, 1>>,
                        !.scales = [name \in RewardNames |-> 1]],
     [MCFsConfig EXCEPT !.joints = <<{1}, {1}>>], [MCFsConfig EXCEPT !.grace = -1],
     [MCFsConfig EXCEPT !.radius = 0], [MCFsConfig EXCEPT !.offset = <<1, 0>>],
     [MCFsConfig EXCEPT !.torso = {}], [MCFsConfig EXCEPT !.added = <<-2, -1>>]}

Stands(foot, hit) ==
    [Rest EXCEPT !.foot = foot, !.rear = TRUE, !.height = 5, !.orientation = 2, !.hit = hit]
Lies == [Rest EXCEPT !.joint = [j \in Joints |-> j], !.velocity = [j \in Joints |-> 3 - j]]
Both(a, b) == [e \in FsEnv |-> IF e = e1 THEN a ELSE b]
MCPoseBatches == {Both(Stands(1, FALSE), Stands(2, FALSE)), Both(Stands(2, FALSE), Lies), Both(Lies, Lies),
                  Both(Stands(3, TRUE), Stands(3, FALSE))}
MCFsActions == {<<1, -3>>, <<0, 1>>}
MCDefaultMass == [b \in {"base", "leg"} |-> IF b = "base" THEN 2 ELSE 1]

------------------------------------------------------------------------------
MCGtConfig ==
    [initMode |-> "offset_phase", gated |-> TRUE, threshold |-> 0, deadZone |-> 1, stance |-> 2,
     groups |-> <<2, 1>>, widths |-> <<1, 3, 1>>, window |-> <<0, 2>>, clearance |-> 1, trackerWindow |-> 2,
     minScale |-> 50, maxScale |-> 100, initialScale |-> 50, degree |-> 50, down |-> 1, up |-> 1]
MCGtConfigs ==
    {MCGtConfig, [MCGtConfig EXCEPT !.initMode = "independent", !.gated = FALSE, !.groups = <<1, 2>>],
     [MCGtConfig EXCEPT !.widths = <<2, 3, 1>>], [MCGtConfig EXCEPT !.initialScale = 0]}
Foot(contact, height, speed) == [contact |-> contact, height |-> height, speed |-> speed]
MCFootBatches ==
    {[e \in {e1, e2} |-> <<Foot(FALSE, 1, 1), Foot(TRUE, 0, 0)>>],
     [e \in {e1, e2} |-> IF e = e1 THEN <<Foot(TRUE, 0, 1), Foot(FALSE, 2, 1)>> ELSE <<Foot(FALSE, 2, 2), Foot(TRUE, 0, 0)>>]}
MCVelocities == {[planar |-> 2, turn |-> 0], [planar |-> 1, turn |-> 0]}
MCOriginalWeights == [name \in {"bonus", "penalty"} |-> IF name = "bonus" THEN 2 ELSE -4]

------------------------------------------------------------------------------
At(x, y) == [x |-> x, y |-> y]
Robots(a, b) == (e1 :> a @@ e2 :> b)
MCTrPoses == {Robots(At(0, 0), At(1, 0))}
MCTrMoves == {Robots(At(0, 0), At(0, 0)), Robots(At(2, 0), At(0, 2)), Robots(At(2, 0), At(2, 0)),
              Robots(At(-2, 0), At(0, 0))}
MCTrReach == {At(0, 0), At(1, 0)}
MCTrDraws == {[velocity |-> Robots(At(1, 0), At(2, 0)), world |-> w] : w \in {{}, {e1}}}

------------------------------------------------------------------------------
Parts == {"motion", "holdout", "footstand", "gait", "terrain"}

Init ==
    /\ part \in Parts
    /\ MtInit /\ (part # "motion" => mode = "clip_start" /\ ~truncate /\ ~latency /\ ~auto)
    /\ HoInit /\ (part # "holdout" => kind = "native")
    /\ FsInit /\ (part # "footstand" => fsConfig = MCFsConfig)
    /\ GtInit /\ (part # "gait" => gtConfig = MCGtConfig /\ g1Phase[e1] = <<0, Cycle \div 2>> /\ velocity[e1].planar = 2)
    /\ TrInit /\ (part # "terrain" => trCurriculum)

Motion == part = "motion" /\ MtNext /\ UNCHANGED <<part, hovars, fsvars, gtvars, trvars>>
Evaluation == part = "holdout" /\ HoNext /\ UNCHANGED <<part, mtvars, fsvars, gtvars, trvars>>
Standup == part = "footstand" /\ FsNext /\ UNCHANGED <<part, mtvars, hovars, gtvars, trvars>>
Walk == part = "gait" /\ GtNext /\ UNCHANGED <<part, mtvars, hovars, fsvars, trvars>>
Rough == part = "terrain" /\ TrNext /\ UNCHANGED <<part, mtvars, hovars, fsvars, gtvars>>

Next == Motion \/ Evaluation \/ Standup \/ Walk \/ Rough

Spec == Init /\ [][Next]_<<part, mtvars, hovars, fsvars, gtvars, trvars>>
=============================================================================
