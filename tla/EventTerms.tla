------------------------------ MODULE EventTerms ------------------------------
(***************************************************************************)
(* envs/mdp/events.py and curriculums.py: one randomisation term, from its *)
(* construction, where its parameters are validated, bound and copied, to  *)
(* the resets that apply it and the curriculum that changes its live       *)
(* parameters.  Values are small integers, a distribution is the set of    *)
(* values it may return, a name pattern is the set of names it matches.    *)
(***************************************************************************)
EXTENDS BodyImpulse, Sequences

CONSTANTS
    EvEnv, Element,       \* environments; the geoms, joints, bodies of the selection
    Axis,                 \* the columns of a field, 0 .. width - 1
    EvDefault,            \* [EvEnv -> [Element -> [Axis -> Int]]]
    TermConfigs,          \* the term configurations a user may write
    StageLists,           \* the curricula a user may write
    MinMass,
    MaxCounter            \* bound of the model

\* What a term may be written as.  A pattern is the set of elements it matches; axes are not
\* given, or a list; a parameter that is not given has its default, and only a dictionary of
\* ranges, by axis or by pattern, may be empty.
EventKinds == {"field", "gains", "mass", "massInertia", "com", "gravity", "bias", "push"}
EvRanges == SUBSET [names : SUBSET Element, axis : Int, pair : Int \X Int]
EvTerms == [kind : EventKinds, mode : STRING, given : SUBSET STRING, ranges : EvRanges,
            distribution : STRING, operation : STRING, by : {"all", "axis", "pattern"},
            axes : Seq(SUBSET Int), shared : BOOLEAN]
EvStages == Seq([step : Nat, key : STRING, ranges : EvRanges])

ASSUME EventAssumption ==
    /\ EvDefault \in [EvEnv -> [Element -> [Axis -> Int]]] /\ MinMass \in Int
    /\ TermConfigs \subseteq EvTerms /\ StageLists \subseteq EvStages
    /\ \A t \in TermConfigs :
        /\ t.kind \in {"gains", "mass", "massInertia", "gravity", "bias"} => t.by = "all"
        /\ t.by = "all" /\ t.kind \notin {"com", "push"} => t.ranges # {}
        /\ "distribution" \notin t.given => t.distribution = "uniform"

VARIABLES
    evPc,                 \* construct, ready, refused or raised
    term,                 \* the configuration as written, its params the live ones
    bound,                \* what the constructed term keeps: ranges, axes, elements
    stages,               \* of the curriculum over this term, << >> without one
    stepCounter, stagedAt,\* common_step_counter, and its value at the last curriculum pass (-1: none)
    value, inertia,       \* the fields of the model as last written
    scales,               \* the mass scales drawn once, << >> before
    drawn                 \* the rows written at least once

evvars == <<evPc, term, bound, stages, stepCounter, stagedAt, value, inertia, scales, drawn>>

Operations == {"add", "scale", "abs"}
Distributions == {"uniform", "log_uniform", "gaussian"}
None == <<>>

------------------------------------------------------------------------------
(* Validation of parameters *)

\* A (min, max) pair, or (mean, deviation) of a gaussian, that can be sampled.
DistributionParameters(r, distribution) ==
    IF distribution = "gaussian" THEN r[2] >= 0
    ELSE r[1] <= r[2] /\ (distribution = "log_uniform" => r[1] > 0)

\* Of gains: uniform or log-uniform.
GainRange(r, distribution) == r[1] <= r[2] /\ (distribution = "log_uniform" => r[1] > 0)

\* Ranges are a set of entries: one that holds for all, or one per axis, or one
\* per pattern of element names.
The(ranges) == CHOOSE x \in ranges : TRUE
Keys(ranges) == {x.axis : x \in ranges}
AtAxis(ranges, ax) == (CHOOSE x \in ranges : x.axis = ax).pair

\* A dictionary by axis; an unknown axis is refused.
AxisRanges(ranges, keys) ==
    /\ Keys(ranges) \subseteq keys
    /\ \A x \in ranges : DistributionParameters(x.pair, "uniform")

\* Axes not named are left at (0, 0).
AxisRange(ranges, ax) == IF ax \in Keys(ranges) THEN AtAxis(ranges, ax) ELSE <<0, 0>>

EventChoice(choice, choices) == choice \in choices

ModeOf(kind) == IF kind = "push" THEN "interval" ELSE "reset"

\* The mode the term is written for, no unknown and no missing parameter.
ValidateEventTerm(t, required, allowed) ==
    /\ t.mode = ModeOf(t.kind)
    /\ t.given \subseteq allowed
    /\ required \subseteq t.given

\* Of a model field whose ranges name elements by patterns: each pattern must
\* match, no element twice; the elements no pattern names are not selected.
SelectStringRanges(t) ==
    /\ \A x \in t.ranges : x.names \cap Element # {}
    /\ \A x, y \in t.ranges : x # y => x.names \cap y.names = {}

NamesElements(t) == t.by = "pattern"

SelectedElements(t) ==
    IF NamesElements(t) THEN (UNION {x.names : x \in t.ranges}) \cap Element ELSE Element

DefaultAxes == {0}

\* Axes as given, or those the ranges are keyed by, or the class's default.
ResolveAxes(t) ==
    IF t.axes # None THEN t.axes[1] ELSE IF t.by = "axis" THEN Keys(t.ranges) ELSE DefaultAxes

AxesAccepted(t) == ResolveAxes(t) # {} /\ ResolveAxes(t) \subseteq Axis

\* One range per element and axis.
ResolveRanges(t) ==
    [el \in SelectedElements(t) |-> [ax \in ResolveAxes(t) |->
        CASE t.by = "pattern" -> (CHOOSE x \in t.ranges : el \in x.names).pair
          [] t.by = "axis"    -> AtAxis(t.ranges, ax)
          [] t.by = "all"     -> The(t.ranges).pair]]

RangesAccepted(t) ==
    /\ t.by = "pattern" => Cardinality(ResolveAxes(t)) = 1
    /\ t.by = "axis" => Keys(t.ranges) = ResolveAxes(t)
    /\ \A el \in SelectedElements(t), ax \in ResolveAxes(t) :
           DistributionParameters(ResolveRanges(t)[el][ax], t.distribution)

ModelFieldAccepted(t) ==
    /\ ValidateEventTerm(t, {"ranges"}, {"ranges", "asset_cfg", "distribution", "operation", "axes", "shared_random"})
    /\ EventChoice(t.distribution, Distributions) /\ EventChoice(t.operation, Operations)
    /\ NamesElements(t) => SelectStringRanges(t)
    /\ AxesAccepted(t) /\ RangesAccepted(t)

PdGainsAccepted(t) ==
    /\ ValidateEventTerm(t, {"ranges"}, {"ranges", "asset_cfg", "distribution", "operation"})
    /\ t.distribution \in {"uniform", "log_uniform"} /\ t.operation \in {"scale", "abs"}
    /\ GainRange(The(t.ranges).pair, t.distribution)

\* Inertia cannot be recomputed by the program: recompute_inertia, true by default,
\* must be given as false.
BodyMassAccepted(t) ==
    /\ ValidateEventTerm(t, {"ranges", "asset_cfg", "operation"},
                         {"ranges", "asset_cfg", "operation", "distribution", "recompute_inertia", "min_mass"})
    /\ "recompute_inertia" \in t.given
    /\ EventChoice(t.operation, Operations) /\ EventChoice(t.distribution, Distributions)
    /\ DistributionParameters(The(t.ranges).pair, t.distribution)

MassInertiaAccepted(t) ==
    /\ ValidateEventTerm(t, {"ranges", "asset_cfg"}, {"ranges", "asset_cfg"})
    /\ DistributionParameters(The(t.ranges).pair, "log_uniform")

BodyComAccepted(t) ==
    /\ ValidateEventTerm(t, {"ranges", "asset_cfg"}, {"ranges", "asset_cfg"})
    /\ AxisRanges(t.ranges, Axis)

GravityAccepted(t) ==
    /\ ValidateEventTerm(t, {"ranges", "operation"}, {"ranges", "operation", "distribution"})
    /\ EventChoice(t.operation, Operations) /\ EventChoice(t.distribution, Distributions)
    /\ DistributionParameters(The(t.ranges).pair, t.distribution)

EncoderBiasAccepted(t) ==
    /\ ValidateEventTerm(t, {"ranges", "asset_cfg"}, {"ranges", "asset_cfg"})
    /\ LET r == The(t.ranges).pair IN r[1] <= r[2]

PushAccepted(t) ==
    /\ ValidateEventTerm(t, {"ranges"}, {"ranges", "asset_cfg"})
    /\ AxisRanges(t.ranges, Axis)

TermAccepted(t) ==
    CASE t.kind = "field"       -> ModelFieldAccepted(t)
      [] t.kind = "gains"       -> PdGainsAccepted(t)
      [] t.kind = "mass"        -> BodyMassAccepted(t)
      [] t.kind = "massInertia" -> MassInertiaAccepted(t)
      [] t.kind = "com"         -> BodyComAccepted(t)
      [] t.kind = "gravity"     -> GravityAccepted(t)
      [] t.kind = "bias"        -> EncoderBiasAccepted(t)
      [] t.kind = "push"        -> PushAccepted(t)

\* Steps may not decrease and a stage may only change parameters the term has.
ValidateStages(list, t) ==
    /\ \A i \in 1 .. Len(list) - 1 : list[i].step <= list[i + 1].step
    /\ \A i \in DOMAIN list : list[i].key \in t.given

------------------------------------------------------------------------------
(* Sampling *)

SampleDistribution(r, distribution) ==
    IF distribution = "gaussian" THEN r[1] - r[2] .. r[1] + r[2] ELSE r[1] .. r[2]

ApplyRandomizationOperation(default, sample, operation) ==
    CASE operation = "add" -> default + sample
      [] operation = "scale" -> default * sample
      [] operation = "abs" -> sample

\* The defaults bound at construction: shared by all rows or one per row.
SelectedResetDefaults(e) == EvDefault[e]

\* With shared_random, elements with the same range share the sample of their axis.
SharedByGroup(sample) ==
    \A a, b \in DOMAIN sample : \A ax \in DOMAIN sample[a] :
        bound.ranges[a][ax] = bound.ranges[b][ax] => sample[a][ax] = sample[b][ax]

Samples == UNION {SampleDistribution(bound.ranges[el][ax], term.distribution) :
                      el \in DOMAIN bound.ranges, ax \in bound.axes}

\* The samples of one row, for every selected element and axis.
SampleAxes ==
    {s \in [DOMAIN bound.ranges -> [bound.axes -> Samples]] :
        /\ \A el \in DOMAIN bound.ranges, ax \in bound.axes :
               s[el][ax] \in SampleDistribution(bound.ranges[el][ax], term.distribution)
        /\ term.shared => SharedByGroup(s)}

\* The rest of the field keeps its default.
Randomized(e, s) ==
    [el \in Element |-> [ax \in Axis |->
        IF el \in DOMAIN s /\ ax \in DOMAIN s[el]
        THEN ApplyRandomizationOperation(SelectedResetDefaults(e)[el][ax], s[el][ax], term.operation)
        ELSE EvDefault[e][el][ax]]]

------------------------------------------------------------------------------
(* Construction *)

EvInit ==
    /\ evPc = "construct"
    /\ term \in TermConfigs
    /\ stages \in StageLists
    /\ bound = None /\ stepCounter = 0 /\ stagedAt = -1
    /\ value = EvDefault /\ inertia = EvDefault
    /\ scales = None /\ drawn = {}

BoundRanges(t) ==
    IF t.kind = "field" THEN ResolveRanges(t)
    ELSE [el \in Element |-> [ax \in Axis |->
            IF t.kind \in {"com", "push"} THEN AxisRange(t.ranges, ax) ELSE The(t.ranges).pair]]

BoundAxes(t) == IF t.kind = "field" THEN ResolveAxes(t) ELSE Axis

\* Class terms are built when the manager is; a curriculum over the term after it.
Construct ==
    /\ evPc = "construct"
    /\ IF TermAccepted(term) /\ ValidateStages(stages, term)
       THEN /\ evPc' = "ready"
            /\ bound' = [ranges |-> BoundRanges(term), axes |-> BoundAxes(term)]
       ELSE evPc' = "refused" /\ UNCHANGED bound
    /\ UNCHANGED <<term, stages, stepCounter, stagedAt, value, inertia, scales, drawn>>

------------------------------------------------------------------------------
(* Curriculum *)

\* Every stage that is due is applied in order, over what the last pass left.
ApplyStages(t, list, counter) ==
    LET due == {i \in DOMAIN list : counter >= list[i].step}
    IN IF due = {} THEN t ELSE [t EXCEPT !.ranges = list[CHOOSE i \in due : \A j \in due : i >= j].ranges]

\* A reset computes the curriculum before its events are applied.
ComputeCurriculum(t) == IF stages = None THEN t ELSE ApplyStages(t, stages, stepCounter)

\* Control steps pass between resets.
StepPasses ==
    /\ evPc = "ready" /\ stepCounter < MaxCounter
    /\ stepCounter' = stepCounter + 1
    /\ UNCHANGED <<evPc, term, bound, stages, stagedAt, value, inertia, scales, drawn>>

BeginTerm(kinds) ==
    /\ evPc = "ready" /\ term.kind \in kinds
    /\ term' = ComputeCurriculum(term)
    /\ stagedAt' = stepCounter

Write(rows, new) ==
    /\ value' = [e \in EvEnv |-> IF e \in rows THEN new[e] ELSE value[e]]
    /\ drawn' = drawn \cup rows
    /\ evPc' = "ready"

TermRaises ==
    /\ evPc' = "raised"
    /\ UNCHANGED <<value, drawn>>

------------------------------------------------------------------------------
(* The terms: one call for the rows under reset *)

InvalidField(new) == \E e \in DOMAIN new, el \in Element, ax \in Axis : new[e][el][ax] < 0

\* GeomFriction, JointArmature: a negative value is refused, for all rows.
RandomizeField(rows) ==
    /\ BeginTerm({"field"})
    /\ \E s \in [rows -> SampleAxes] :
          LET new == [e \in rows |-> Randomized(e, s[e])]
          IN IF InvalidField(new) THEN TermRaises ELSE Write(rows, new)
    /\ UNCHANGED <<bound, stages, stepCounter, inertia, scales>>

\* PdGains: sampled from the bounds copied at construction.
RandomizeGains(rows) ==
    /\ BeginTerm({"gains"})
    /\ \E s \in [rows -> SampleAxes] : Write(rows, [e \in rows |-> Randomized(e, s[e])])
    /\ UNCHANGED <<bound, stages, stepCounter, inertia, scales>>

AtLeastMinMass(v) == IF v < MinMass THEN MinMass ELSE v

RandomizeBodyMass(rows) ==
    /\ BeginTerm({"mass"})
    /\ \E s \in [rows -> SampleAxes] :
          Write(rows, [e \in rows |-> [el \in Element |-> [ax \in Axis |-> AtLeastMinMass(Randomized(e, s[e])[el][ax])]]])
    /\ UNCHANGED <<bound, stages, stepCounter, inertia, scales>>

AnyScales == [EvEnv -> {u \in SampleAxes : \A el \in DOMAIN u : \A ax, bx \in DOMAIN u[el] : u[el][ax] = u[el][bx]}]

\* Mutant: the scales are drawn at each reset, for the rows it names.
ScalesEachReset == AnyScales

\* The first call draws the scales of every environment; later ones use them again.
DrawnScales == IF scales = None THEN AnyScales ELSE {scales}

Scaled(e, s) == [el \in Element |-> [ax \in Axis |-> EvDefault[e][el][ax] * s[el][ax]]]

\* Mass and inertia of a body are multiplied by the same scale.
RandomizeMassInertia(rows) ==
    /\ BeginTerm({"massInertia"})
    /\ \E s \in DrawnScales :
          /\ scales' = s
          /\ Write(rows, [e \in rows |-> Scaled(e, s[e])])
          /\ inertia' = [e \in EvEnv |-> IF e \in rows THEN Scaled(e, s[e]) ELSE inertia[e]]
    /\ UNCHANGED <<bound, stages, stepCounter>>

\* The centre of mass reads its ranges at every call; one offset for all bodies of a row.
RandomizeBodyCom(rows) ==
    /\ BeginTerm({"com"})
    /\ IF ~AxisRanges(term'.ranges, Axis) THEN TermRaises
       ELSE \E s \in [rows -> [Axis -> -1 .. 4]] :
              /\ \A e \in rows, ax \in Axis :
                     s[e][ax] \in SampleDistribution(AxisRange(term'.ranges, ax), "uniform")
              /\ Write(rows, [e \in rows |-> [el \in Element |-> [ax \in Axis |-> EvDefault[e][el][ax] + s[e][ax]]]])
    /\ UNCHANGED <<bound, stages, stepCounter, inertia, scales>>

RandomizeGravity(rows) ==
    /\ BeginTerm({"gravity"})
    /\ \E s \in [rows -> SampleAxes] : Write(rows, [e \in rows |-> Randomized(e, s[e])])
    /\ UNCHANGED <<bound, stages, stepCounter, inertia, scales>>

\* The bias is stored with the entity's data; no default enters.
RandomizeEncoderBias(rows) ==
    /\ BeginTerm({"bias"})
    /\ \E s \in [rows -> SampleAxes] : Write(rows, s)
    /\ UNCHANGED <<bound, stages, stepCounter, inertia, scales>>

AngularAxes == Axis \ {0}
Turns(ranges) == \E ax \in AngularAxes : AxisRange(ranges, ax) # <<0, 0>>

\* A push adds to the velocity; turning must have been asked for at construction,
\* when the backend was checked for it.
Push(rows) ==
    /\ evPc = "ready" /\ term.kind = "push"
    /\ IF \/ ~AxisRanges(term.ranges, Axis)
          \/ Turns(term.ranges) /\ \A el \in Element, ax \in AngularAxes : bound.ranges[el][ax] = <<0, 0>>
       THEN TermRaises
       ELSE \E s \in [rows -> [Axis -> -1 .. 1]] :
              /\ \A e \in rows, ax \in Axis :
                     s[e][ax] \in SampleDistribution(AxisRange(term.ranges, ax), "uniform")
              /\ Write(rows, [e \in rows |-> [el \in Element |-> s[e]]])
    /\ UNCHANGED <<term, stagedAt, bound, stages, stepCounter, inertia, scales>>

\* Resets pass the curriculum of a push term too, though they do not call the term.
StagePush ==
    /\ BeginTerm({"push"})
    /\ UNCHANGED <<evPc, bound, stages, stepCounter, value, inertia, scales, drawn>>

EvNext ==
    \/ Construct \/ StepPasses \/ StagePush
    \/ \E rows \in SUBSET EvEnv \ {{}} :
          \/ RandomizeField(rows) \/ RandomizeGains(rows) \/ RandomizeBodyMass(rows)
          \/ RandomizeMassInertia(rows) \/ RandomizeBodyCom(rows) \/ RandomizeGravity(rows)
          \/ RandomizeEncoderBias(rows) \/ Push(rows)

EvSpec == EvInit /\ [][EvNext]_evvars

------------------------------------------------------------------------------
(* Properties *)

EvTypeOK ==
    /\ evPc \in {"construct", "ready", "refused", "raised"}
    /\ term.kind \in EventKinds
    /\ stepCounter \in 0 .. MaxCounter /\ stagedAt \in -1 .. stepCounter
    /\ value \in [EvEnv -> [Element -> [Axis -> Int]]]
    /\ inertia \in [EvEnv -> [Element -> [Axis -> Int]]]
    /\ drawn \subseteq EvEnv
    /\ evPc = "ready" => DOMAIN bound.ranges \subseteq Element

\* What may follow from the default by a single draw of an accepted range.
OneDraw(e, el, ax) ==
    LET r == bound.ranges[el][ax]
        d == EvDefault[e][el][ax]
        s == SampleDistribution(r, term.distribution)
    IN CASE term.kind = "mass" -> {AtLeastMinMass(ApplyRandomizationOperation(d, x, term.operation)) : x \in s}
         [] term.kind = "massInertia" -> {d * x : x \in r[1] .. r[2]}
         [] term.kind = "com" -> {d + x : x \in -1 .. 4}
         [] term.kind = "bias" -> r[1] .. r[2]
         [] OTHER -> {ApplyRandomizationOperation(d, x, term.operation) : x \in s}

\* Randomisation never compounds: however many resets a row has been through,
\* in whatever company, each of its values is one draw away from the default of
\* the model, and a value the term does not name is the default itself.
OneDrawFromDefault ==
    evPc = "ready" /\ term.kind # "push" => \A e \in drawn, el \in Element, ax \in Axis :
        IF el \in DOMAIN bound.ranges /\ ax \in bound.axes
        THEN value[e][el][ax] \in OneDraw(e, el, ax)
        ELSE value[e][el][ax] = EvDefault[e][el][ax]

\* No friction, armature or mass ever becomes negative, nor a mass too light.
PhysicalValues ==
    evPc = "ready" => \A e \in drawn, el \in Element, ax \in Axis :
        /\ term.kind = "field" => value[e][el][ax] >= 0
        /\ term.kind = "mass" => value[e][el][ax] >= MinMass

\* A body's mass and inertia are always scaled alike, and a row's scale is the
\* same after every reset: the body keeps its identity over the training run.
MassInertiaConsistent ==
    [][evPc = "ready" /\ term.kind = "massInertia"
         => /\ \A e \in EvEnv : inertia'[e] = value'[e]
            /\ \A e \in drawn : value'[e] = value[e]]_evvars

\* The live parameters are those of the last stage due when the last reset
\* passed, whatever resets were missed in between.
StageInForce ==
    evPc = "ready" /\ stages # None => \A i \in DOMAIN stages :
        (stages[i].step <= stagedAt /\ \A j \in DOMAIN stages : j > i => stages[j].step > stagedAt)
            => term.ranges = stages[i].ranges

\* A randomised value comes from its default and from the parameters in force.
RandomizedAsConfigured == OneDrawFromDefault /\ PhysicalValues /\ StageInForce

\* What events do to the simulation is what they were configured to do: a randomised
\* field holds one draw from its default; a wrench acts on a body only while its impulse
\* is running, and throughout unless a push or the reset of a running row takes it back.
DisturbancesSound == RandomizedAsConfigured /\ ForceOnlyWhileActive /\ ForceUnlessLifted
=============================================================================
