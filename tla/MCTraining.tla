------------------------------ MODULE MCTraining ------------------------------
(* Training on disk: one synchronous training that crashes and resumes from its *)
(* own checkpoints, and two jobs of the training scripts that share their log  *)
(* root.  `part` picks the one a behaviour runs.                               *)
EXTENDS SyncTraining, RunStore, TLC

CONSTANTS s1, s2, j1, j2
VARIABLE part

MCSources == {s1, s2}
MCSymmetry == Permutations(MCSources)

(* A contract: what its observation groups, observations and action scale are. *)
Contract(groups, observations, scale) ==
    [obs_groups |-> groups, observations |-> observations, action_scale |-> scale, reward |-> groups + scale]
Setting(algo, root, contract, strict, checkpoint, playOnly, noPlay) ==
    [algo |-> algo, root |-> root, contract |-> contract, strict |-> strict,
     checkpoint |-> checkpoint, playOnly |-> playOnly, noPlay |-> noPlay]
MCSettings ==
    {Setting("ppo", "logs", Contract(1, 1, 1), TRUE, Unset, FALSE, FALSE),
     Setting("ppo", "logs", Contract(1, 2, 2), TRUE, Unset, FALSE, TRUE),
     Setting("ppo", "logs", Contract(1, 2, 0), TRUE, Unset, TRUE, TRUE),
     Setting("ppo", "logs", Contract(2, 1, 1), TRUE, Unset, TRUE, TRUE),
     Setting("ppo", "logs", Contract(0, 2, 2), TRUE, 1, TRUE, TRUE),
     Setting("ppo", "configured", Contract(2, 1, 1), FALSE, 1, FALSE, FALSE),
     Setting("appo", "logs", Contract(1, 1, 2), TRUE, 1, FALSE, FALSE),
     Setting("sac", "logs", Contract(1, 1, 1), TRUE, Unset, FALSE, FALSE),
     Setting("sac", "configured", Contract(1, 2, 1), FALSE, Unset, FALSE, FALSE)}

MCInit ==
    /\ part \in {"synchronous", "scripts"}
    /\ Init /\ (part = "scripts" => mode = "central")
    /\ RsInit

Synchronous == part = "synchronous" /\ Next /\ UNCHANGED <<part, rsvars>>
Scripts == part = "scripts" /\ RsNext /\ UNCHANGED <<part, vars>>

MCSpec == MCInit /\ [][Synchronous \/ Scripts]_<<part, vars, rsvars>>
=============================================================================
