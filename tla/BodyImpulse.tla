----------------------------- MODULE BodyImpulse -----------------------------
(***************************************************************************)
(* ApplyBodyImpulse and PushBySettingVelocity of envs/mdp/events.py over   *)
(* the plans of base/entity.py: the life of an impulse (cooldown, force,   *)
(* expiry, reset) and the wrench the backend holds for its next step.      *)
(* Times are whole control steps; a force is on or off.                    *)
(***************************************************************************)
EXTENDS Integers, FiniteSets

CONSTANTS
    ImEnv,
    Durations, Cooldowns,    \* what a duration and a cooldown may be drawn as
    MaxImSteps               \* bound of the model

ASSUME ImpulseAssumption == Durations \subseteq Nat /\ Cooldowns \subseteq Nat

VARIABLES
    imPc,                    \* step, stepEvents, intervalEvents, resets
    active, remaining, cooldown,  \* of the term, per environment
    forced,                  \* the environments whose _active_forces are not zero
    staged,                  \* the backend's pending wrench: where it is not zero
    felt,                    \* ghost: control steps of force since the impulse began
    length,                  \* ghost: the duration drawn for the impulse
    lifted,                  \* ghost: another plan took back what the last step events staged
    imSteps

imvars == <<imPc, active, remaining, cooldown, forced, staged, felt, length, lifted, imSteps>>

ImInit ==
    /\ imPc = "step"
    /\ active = {} /\ forced = {} /\ staged = {}
    /\ remaining = [e \in ImEnv |-> 0]
    /\ cooldown \in [ImEnv -> Cooldowns]
    /\ felt = [e \in ImEnv |-> 0] /\ length = [e \in ImEnv |-> 0]
    /\ lifted = FALSE /\ imSteps = 0

------------------------------------------------------------------------------
(* External: what the backend does with a plan *)

\* A plan replaces the pending wrench of every environment; rows it does not
\* name are zero in it.
StagePlan(rows) == staged' = rows

\* A step consumes what is pending.
PhysicsStep ==
    /\ imPc = "step" /\ imSteps < MaxImSteps
    /\ imSteps' = imSteps + 1
    /\ felt' = [e \in ImEnv |-> IF e \in staged THEN felt[e] + 1 ELSE felt[e]]
    /\ staged' = {}
    /\ imPc' = "stepEvents"
    /\ UNCHANGED <<active, remaining, cooldown, forced, length, lifted>>

------------------------------------------------------------------------------
(* ApplyBodyImpulse.__call__ *)

Expired == {e \in active : remaining[e] - 1 <= 0}

\* The cooldown runs on while an impulse is active; at expiry it is drawn anew.
CooldownAfter(drawn) == [e \in ImEnv |-> (IF e \in Expired THEN drawn[e] ELSE cooldown[e]) - 1]

Eligible(left) == {e \in ImEnv : e \notin active \ Expired /\ left[e] <= 0}

ApplyBodyImpulse(drawn, again, duration) ==
    /\ imPc = "stepEvents"
    /\ LET left == CooldownAfter(drawn)
           struck == Eligible(left)
           running == (active \ Expired) \cup struck
       IN /\ active' = running
          /\ forced' = (forced \ Expired) \cup struck
          /\ remaining' = [e \in ImEnv |-> IF e \in struck THEN duration[e]
                                           ELSE IF e \in Expired THEN 0
                                           ELSE IF e \in active THEN remaining[e] - 1 ELSE remaining[e]]
          /\ cooldown' = [e \in ImEnv |-> IF e \in struck THEN again[e] ELSE left[e]]
          /\ IF running # {} \/ Expired # {} THEN StagePlan(forced') ELSE UNCHANGED staged
          /\ felt' = [e \in ImEnv |-> IF e \in struck THEN 0 ELSE felt[e]]
          /\ length' = [e \in ImEnv |-> IF e \in struck THEN duration[e] ELSE length[e]]
    /\ lifted' = FALSE /\ imPc' = "intervalEvents"
    /\ UNCHANGED imSteps

\* Interval events follow: a push of any rows is a plan as well, without forces.
IntervalEvents(pushed) ==
    /\ imPc = "intervalEvents"
    /\ IF pushed THEN StagePlan({}) ELSE UNCHANGED staged
    /\ lifted' = pushed
    /\ imPc' = "resets"
    /\ UNCHANGED <<active, remaining, cooldown, forced, felt, length, imSteps>>

\* Mutant: the force already staged for the next step is left to act.
LeaveStaged(rows) == UNCHANGED staged

\* An impulse that was running is taken back from the coming step.
Withdraw(rows) == IF rows \cap active # {} THEN StagePlan({}) ELSE UNCHANGED staged

\* ApplyBodyImpulse.reset, for the rows that end their episode.
ResetImpulse(rows, drawn) ==
    /\ imPc = "resets"
    /\ Withdraw(rows)
    /\ lifted' = (lifted \/ rows \cap active # {})
    /\ active' = active \ rows
    /\ forced' = forced \ rows
    /\ remaining' = [e \in ImEnv |-> IF e \in rows THEN 0 ELSE remaining[e]]
    /\ cooldown' = [e \in ImEnv |-> IF e \in rows THEN drawn[e] ELSE cooldown[e]]
    /\ imPc' = "step"
    /\ UNCHANGED <<felt, length, imSteps>>

ImNext ==
    \/ PhysicsStep
    \/ \E drawn, again \in [ImEnv -> Cooldowns], duration \in [ImEnv -> Durations] :
          ApplyBodyImpulse(drawn, again, duration)
    \/ \E pushed \in BOOLEAN : IntervalEvents(pushed)
    \/ \E rows \in SUBSET ImEnv, drawn \in [ImEnv -> Cooldowns] : ResetImpulse(rows, drawn)

ImSpec == ImInit /\ [][ImNext]_imvars

------------------------------------------------------------------------------
(* Properties *)

ImTypeOK ==
    /\ imPc \in {"step", "stepEvents", "intervalEvents", "resets"}
    /\ active \subseteq ImEnv /\ forced \subseteq ImEnv /\ staged \subseteq ImEnv
    /\ remaining \in [ImEnv -> Int] /\ cooldown \in [ImEnv -> Int]
    /\ lifted \in BOOLEAN /\ imSteps \in 0 .. MaxImSteps

Longer(a, b) == IF a > b THEN a ELSE b

\* A force acts in a step only where an impulse is running when the step begins -- not
\* on a row that was reset after the force was staged -- and for no longer than the
\* duration drawn, a control step at least.
ForceOnlyWhileActive ==
    imPc = "step" => \A e \in staged : e \in active /\ felt[e] < Longer(1, length[e])

\* A running impulse acts in the coming step, but for the two ways the code takes its
\* wrench back: a push of any rows, and the reset of a row whose impulse was running.
ForceUnlessLifted == imPc = "step" => staged = IF lifted THEN {} ELSE active

\* What the docstring of ApplyBodyImpulse says (events.py:1209): once triggered, the wrench
\* is staged again every step for the duration.  A push or the reset of another row takes
\* it back for the coming step.
SustainedForDuration == imPc = "step" => active \subseteq staged
=============================================================================
