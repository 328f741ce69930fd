-------------------------- MODULE ConfigOverrides --------------------------
(***************************************************************************)
(* How the sections of a training configuration become the configuration   *)
(* of an environment: base/config_materialization.py applies a mapping to  *)
(* a tree of dataclasses, base/config_adapter.py composes that mapping.    *)
(*                                                                         *)
(* A value is null, a string, a number, a dict with ordered keys, or an    *)
(* object of one of Classes.  A reference to a class or a callable is its  *)
(* name.  The configuration is thrown away when an override is refused     *)
(* (its only callers build it for one environment), so a refusal is the    *)
(* value Failed.  Lists are leaves.                                        *)
(***************************************************************************)
EXTENDS Integers, Sequences, FiniteSets
LOCAL INSTANCE SequencesExt

CONSTANTS
    Classes,     \* class |-> [fields, abstract, above], a field being
                 \* [types, dict, entry, policy, default]
    Callables    \* what `func` may name

Null    == [k |-> "null"]
Missing == [k |-> "missing"]
Failed  == [k |-> "failed"]
Str(s)  == [k |-> "str", s |-> s]
Num(n)  == [k |-> "num", n |-> n]
Dict(keys, at)  == [k |-> "dict", keys |-> keys, at |-> at]
Object(cls, at) == [k |-> "object", cls |-> cls, at |-> at]

EmptyDict == Dict(<<>>, [key \in {} |-> Null])
IsDict(v) == v.k = "dict"
Has(d, key) == key \in DOMAIN d.at
Target == "_target_"

\* d[key] = v on a Python dict: a new key comes last, an old one keeps its place.
Put(d, key, v) ==
    Dict(IF Has(d, key) THEN d.keys ELSE Append(d.keys, key),
         [x \in DOMAIN d.at \cup {key} |-> IF x = key THEN v ELSE d.at[x]])
PutUnlessFailed(d, key, v) == IF v = Failed THEN Failed ELSE Put(d, key, v)

\* A fold from the left that evaluates each step once.
Through(Step(_, _), start, seq) ==
    LET done[n \in 0 .. Len(seq)] == IF n = 0 THEN start ELSE Step(done[n - 1], seq[n])
    IN done[Len(seq)]

\* `for key, item in d.items()`, ended by the first refusal.
EachItem(Step(_, _, _), start, d) ==
    Through(LAMBDA acc, key : IF acc = Failed THEN Failed ELSE Step(acc, key, d.at[key]), start, d.keys)

------------------------------------------------------------------------------
(* Types.                                                                     *)

AnyType == [types |-> {}, dict |-> FALSE, entry |-> {}, policy |-> "none"]
FieldOf(cls, name) == Classes[cls].fields[name]
EntryType(field) == [AnyType EXCEPT !.types = IF field.dict THEN field.entry ELSE {}]

\* _inferable_target: one concrete dataclass.
Inferable(types) == Cardinality(types) = 1 /\ \A c \in types : ~Classes[c].abstract
OnlyOf(types) == CHOOSE c \in types : TRUE

\* _resolve_target: a concrete dataclass below an expected one.
Resolvable(reference, expected) ==
    /\ reference.k = "str" /\ reference.s \in DOMAIN Classes
    /\ expected # {} => Classes[reference.s].above \cap expected # {}
    /\ ~Classes[reference.s].abstract

IsTermCfg(cls) == \E f \in DOMAIN Classes[cls].fields : FieldOf(cls, f).policy = "params"

------------------------------------------------------------------------------
(* Preparation: a mapping with every class it stands for written into it.     *)

RECURSIVE PrepareValue(_, _), PrepareDataclass(_, _, _), Instantiated(_), ApplyCfg(_, _), Merge(_, _)

PrepareValue(v, field) ==
    IF ~IsDict(v) THEN v
    ELSE IF Has(v, Target) THEN PrepareDataclass(v, field.types, TRUE)
    ELSE IF Inferable(field.types) THEN PrepareDataclass(v, field.types, FALSE)
    ELSE EachItem(LAMBDA d, key, item : PutUnlessFailed(d, key, PrepareValue(item, EntryType(field))),
                  EmptyDict, v)

\* _prepare_manager_mapping: None disables a term.
PrepareTerms(v, field) ==
    LET Term(d, name, entry) ==
            IF entry = Null THEN Put(d, name, Null)
            ELSE IF ~IsDict(entry) THEN Failed
            ELSE PutUnlessFailed(d, name, PrepareDataclass(entry, field.entry, ~Inferable(field.entry)))
    IN IF IsDict(v) /\ field.dict THEN EachItem(Term, EmptyDict, v) ELSE Failed

PrepareField(field, name, v) ==
    IF field.policy = "terms" THEN PrepareTerms(v, field)
    ELSE IF name = "func" THEN IF v.k = "str" /\ v.s \in Callables THEN v ELSE Failed
    ELSE PrepareValue(v, field)

PrepareDataclass(values, expected, requireTarget) ==
    LET declared == Has(values, Target)
        known == IF declared THEN Resolvable(values.at[Target], expected)
                 ELSE ~requireTarget /\ Inferable(expected)
        cls == IF declared THEN values.at[Target].s ELSE OnlyOf(expected)
        Field(d, name, v) ==
            IF name = Target THEN d
            ELSE IF name \notin DOMAIN Classes[cls].fields THEN Failed
            ELSE PutUnlessFailed(d, name, PrepareField(FieldOf(cls, name), name, v))
    IN IF known THEN EachItem(Field, Put(EmptyDict, Target, Str(cls)), values) ELSE Failed

ObjectUnlessFailed(cls, at) ==
    IF \E f \in DOMAIN at : at[f] \in {Failed, Missing} THEN Failed ELSE Object(cls, at)

\* hydra's instantiate on a prepared mapping; a missing required field refuses.
Instantiated(v) ==
    IF ~IsDict(v) THEN v
    ELSE IF ~Has(v, Target)
    THEN EachItem(LAMBDA d, key, item : PutUnlessFailed(d, key, Instantiated(item)), EmptyDict, v)
    ELSE LET cls == v.at[Target].s
         IN ObjectUnlessFailed(cls, [f \in DOMAIN Classes[cls].fields |->
                                        IF Has(v, f) THEN Instantiated(v.at[f]) ELSE FieldOf(cls, f).default])

Materialize(value, expected, requireTarget) == Instantiated(PrepareDataclass(value, expected, requireTarget))

------------------------------------------------------------------------------
(* Application to an existing configuration.                                  *)

\* _apply_manager_mapping, parameters of a term.
ApplyParams(existing, overrides) ==
    LET Param(d, name, v) ==
            PutUnlessFailed(d, name,
                IF IsDict(v) /\ Has(v, Target) THEN Materialize(v, {}, TRUE)
                ELSE IF IsDict(v) /\ Has(d, name) /\ d.at[name].k = "object" THEN ApplyCfg(d.at[name], v)
                ELSE PrepareValue(v, AnyType))
    IN EachItem(Param, existing, overrides)

\* _apply_manager_mapping, terms of a manager: None disables, a class replaces, and
\* anything else refines the term that is there.
ApplyTerms(existing, overrides, field) ==
    LET Term(d, name, v) ==
            PutUnlessFailed(d, name,
                IF v = Null THEN Null
                ELSE IF ~IsDict(v) THEN Failed
                ELSE IF Has(v, Target) THEN Materialize(v, field.entry, TRUE)
                ELSE IF ~Has(d, name) \/ d.at[name] = Null
                THEN IF Inferable(field.entry) THEN Materialize(v, field.entry, FALSE) ELSE Failed
                ELSE ApplyCfg(d.at[name], v))
    IN EachItem(Term, existing, overrides)

ApplyManagerMapping(existing, overrides, field) ==
    IF ~IsDict(existing) \/ ~IsDict(overrides) THEN Failed
    ELSE IF field.policy = "params" THEN ApplyParams(existing, overrides)
    ELSE IF field.dict THEN ApplyTerms(existing, overrides, field)
    ELSE Failed

\* What apply_cfg_overrides makes of one field of an object.
Overridden(cls, key, existing, v) ==
    LET field == FieldOf(cls, key)
    IN CASE field.policy # "none" -> ApplyManagerMapping(existing, v, field)
         [] field.policy = "none" /\ key = "func" /\ IsTermCfg(cls) -> Failed
         [] OTHER ->
              IF IsDict(v) /\ Has(v, Target) THEN Materialize(v, field.types, TRUE)
              ELSE IF IsDict(v) /\ existing.k = "object" THEN ApplyCfg(existing, v)
              ELSE IF IsDict(v) /\ existing = Null /\ Cardinality(field.types) = 1
              THEN Materialize(v, field.types, FALSE)
              ELSE PrepareValue(v, AnyType)

SetUnlessFailed(o, key, v) == IF v = Failed THEN Failed ELSE [o EXCEPT !.at[key] = v]

ApplyCfg(object, overrides) ==
    LET Key(o, key, v) ==
            IF key \notin DOMAIN o.at THEN Failed
            ELSE SetUnlessFailed(o, key, Overridden(o.cls, key, o.at[key], v))
    IN IF IsDict(overrides) THEN EachItem(Key, object, overrides) ELSE Failed

------------------------------------------------------------------------------
(* Composition of the mapping.                                                *)

\* Mutant: a play profile replaces the sections it names.
Update(base, override) == EachItem(LAMBDA d, key, v : Put(d, key, v), base, override)

\* _merge_mappings.
Merge(base, override) ==
    EachItem(LAMBDA d, key, v :
                 Put(d, key, IF Has(d, key) /\ IsDict(d.at[key]) /\ IsDict(v) THEN Merge(d.at[key], v) ELSE v),
             base, override)

\* resolve_reward_dict: the section, or what it wraps under its own name.
RewardSection(reward) ==
    IF ~IsDict(reward) \/ reward = EmptyDict THEN Failed
    ELSE IF DOMAIN reward.at = {"reward"} /\ IsDict(reward.at["reward"])
    THEN IF reward.at["reward"] = EmptyDict THEN Failed ELSE reward.at["reward"]
    ELSE reward

\* build_task_env_cfg_override: one owner for the rewards.
TaskOverride(sections, rewardField) ==
    IF Has(sections.env, rewardField) THEN Failed
    ELSE EachItem(LAMBDA d, key, v : Put(d, key, v),
                  PutUnlessFailed(EmptyDict, rewardField, RewardSection(sections.reward)), sections.env)

\* The renderer's wishes, for the two backends that must know before they start.
WithRenderIntent(override, backend, renderMode) ==
    IF backend = "isaacsim" THEN Put(override, "isaacsim_render_mode", Str(renderMode))
    ELSE IF backend = "superdex" /\ renderMode = "interactive"
    THEN Put(override, "superdex_execution_mode", Str("serial"))
    ELSE override

\* The visual scene: only the model file of the scene the training declares changes.
WithScene(override, modelFile) ==
    IF modelFile = "none" THEN override
    ELSE IF ~Has(override, "scene")
    THEN Put(override, "scene", Instantiated(Put(Put(EmptyDict, Target, Str("SceneCfg")), "model_file", Str(modelFile))))
    ELSE IF IsDict(override.at["scene"])
    THEN Put(override, "scene", Put(override.at["scene"], "model_file", Str(modelFile)))
    ELSE Failed

\* build_play_env_cfg_override.  The play profile is only read in play-only runs.
ForPlayback(task, sections) ==
    IF task = Failed THEN Failed
    ELSE IF ~sections.play.enabled \/ ~sections.playOnly
    THEN WithRenderIntent(task, sections.backend, sections.renderMode)
    ELSE WithScene(Merge(WithRenderIntent(task, sections.backend, sections.renderMode), sections.play.env),
                   sections.play.scene)
PlayOverride(sections, rewardField) == ForPlayback(TaskOverride(sections, rewardField), sections)

------------------------------------------------------------------------------
(* What an override should do to a configuration, by paths: Leaves is the set *)
(* of all <<path, leaf>> of a value, where a dict or an object also has a leaf*)
(* of its own at its path that says what it is.                               *)

RECURSIVE Leaves(_)
Leaves(v) ==
    IF v.k \notin {"dict", "object"} THEN {<<<<>>, v>>}
    ELSE {<<<<>>, IF IsDict(v) THEN Str("dict") ELSE Str(v.cls)>>} \cup
         UNION {{<<<<key>> \o leaf[1], leaf[2]>> : leaf \in Leaves(v.at[key])} : key \in DOMAIN v.at}

Ends(path, key) == path # <<>> /\ path[Len(path)] = key
Related(a, b) == IsPrefix(a, b) \/ IsPrefix(b, a)

\* The paths an override gives a value of its own, and those it redeclares whole.
GivenBy(override) == {leaf \in Leaves(override) : leaf[2] # Str("dict")}
Touched(override) ==
    {IF Ends(leaf[1], Target) THEN Front(leaf[1]) ELSE leaf[1] : leaf \in GivenBy(override)}

\* Each value a mapping gives is in the configuration where the mapping has it, unless
\* a later mapping has something to say there.
SetThrough(given, later, result) ==
    \A leaf \in GivenBy(given) :
        \/ \E path \in Touched(later) : Related(path, leaf[1])
        \/ leaf \in Leaves(result)
        \/ Ends(leaf[1], Target) /\ <<Front(leaf[1]), leaf[2]>> \in Leaves(result)

\* The places an override can reach one by one: through objects, terms and parameters; a
\* plain dict is replaced as a whole.
RECURSIVE Places(_, _)
Places(v, managed) ==
    IF v.k # "object" /\ ~(IsDict(v) /\ managed) THEN {<<<<>>, v>>}
    ELSE {<<<<>>, IF IsDict(v) THEN Str("dict") ELSE Str(v.cls)>>} \cup
         UNION {{<<<<key>> \o place[1], place[2]>> :
                     place \in Places(v.at[key], v.k = "object" /\ FieldOf(v.cls, key).policy # "none")} :
                key \in DOMAIN v.at}

\* What no mapping speaks of stays as the task declares it.
FrameKept(before, overrides, result) ==
    \A place \in Places(before, FALSE) :
        \/ \E o \in overrides : \E path \in Touched(o) : Related(path, place[1])
        \/ place \in Places(result, FALSE)

\* The terms of every manager keep their order, the new ones last: it is the order in
\* which managers run them and concatenate what they return.
RECURSIVE OrderKept(_, _)
OrderKept(before, after) ==
    before.k = "object" /\ after.k = "object" /\ before.cls = after.cls =>
        \A f \in DOMAIN before.at :
            /\ OrderKept(before.at[f], after.at[f])
            /\ FieldOf(before.cls, f).policy = "terms" =>
                   /\ IsPrefix(before.at[f].keys, after.at[f].keys)
                   /\ \A term \in DOMAIN before.at[f].at :
                          OrderKept(before.at[f].at[term], after.at[f].at[term])
=============================================================================
