------------------------------ MODULE MCManagers ------------------------------
(* The environment with its managers: two rows, episodes of three steps and    *)
(* two resets a caller asks for; and the buffers of one observation term: a    *)
(* plain, a delayed, a delayed and stacked, a periodic, a finally checked and  *)
(* a biased one.  `part` picks the module a behaviour runs; the variables of   *)
(* the other keep one initial value.                                           *)
EXTENDS ManagerEnv, ObservationBuffers, TLC

VARIABLE part

Plain == [minLag |-> 0, maxLag |-> 0, history |-> 0, period |-> 0, perEnv |-> TRUE, holds |-> FALSE,
          phased |-> FALSE, siblings |-> FALSE, noise |-> "drawn", policy |-> "error", perTerm |-> TRUE]

MCConfigs == {
    Plain,
    [Plain EXCEPT !.maxLag = 2, !.holds = TRUE, !.policy = "disabled"],
    [Plain EXCEPT !.minLag = 1, !.maxLag = 1, !.history = 2, !.noise = "bias", !.policy = "sanitize"],
    [Plain EXCEPT !.minLag = 1, !.maxLag = 2, !.period = 2, !.phased = TRUE, !.perEnv = FALSE],
    [Plain EXCEPT !.history = 3, !.policy = "sanitize", !.perTerm = FALSE],
    [Plain EXCEPT !.siblings = TRUE, !.noise = "bias"]}

MCInit ==
    /\ part \in {"env", "observations"}
    /\ Init /\ (part # "env" => autoreset /\ finite)
    /\ ObInit /\ (part # "observations" => cfg = Plain)

Environment == part = "env" /\ Next /\ UNCHANGED <<part, obsbufvars>>
ObservationTerm == part = "observations" /\ ObNext /\ UNCHANGED <<part, vars>>

MCNext == Environment \/ ObservationTerm

MCSpec == MCInit /\ [][MCNext]_<<part, vars, obsbufvars>>

MCSymmetry == Permutations(Env)

=============================================================================
