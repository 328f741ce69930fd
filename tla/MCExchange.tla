------------------------------ MODULE MCExchange ------------------------------
(* The ways a collector and a learner exchange data through shared memory: the  *)
(* rollout ring that never blocks its writer, the APPO pair that uses it, and one *)
(* slot that is answered tick by tick.  `part` picks the one a behaviour runs;  *)
(* the variables of the others keep their initial values.                       *)
EXTENDS RolloutRing, InferenceExchange, AppoPipeline

VARIABLE part

MCInit ==
    /\ part \in {"ring", "slot", "appo"}
    /\ Init /\ ExInit /\ ApInit

InRing(A)   == part = "ring" /\ A /\ UNCHANGED <<part, exvars, apVars>>
InSlot(A)   == part = "slot" /\ A /\ UNCHANGED <<part, vars, apVars>>
InAppo(A)   == part = "appo" /\ A /\ UNCHANGED <<part, vars, exvars>>

(* The fairness of each part's own specification.                              *)
MCSpec ==
    /\ MCInit
    /\ [][InRing(Next) \/ InSlot(ExNext) \/ InAppo(ApNext)]_<<part, vars, exvars, apVars>>
    /\ WF_vars(InRing(Reader))
    /\ WF_exvars(InSlot(LearnerThread)) /\ WF_exvars(InSlot(Daemon))
    /\ WF_apVars(InAppo(ApLearner)) /\ SF_apVars(InAppo(Timeout))

(* In a behaviour that runs the slot, learn() returns or raises whatever the   *)
(* collector does, and does not outlive a dead collector (TrainingEnds).       *)
SlotTrainingEnds == part = "slot" => TrainingEnds

(* In a behaviour that runs APPO, learn() ends although its collector may die  *)
(* or be killed, and the death is reported (ApTrainingEnds).                   *)
AppoTrainingEnds == part = "appo" => ApTrainingEnds
=============================================================================
