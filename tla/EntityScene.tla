----------------------------- MODULE EntityScene -----------------------------
(***************************************************************************)
(* base/entity.py and managers/scene_entity_config.py: entities over the   *)
(* joints, bodies and actuators of one backend, the selection of their     *)
(* elements by name patterns or local ids, and joint targets written to    *)
(* the control buffer they share.                                          *)
(*                                                                         *)
(* A pattern is the set of names it matches.  The order of names is kept   *)
(* everywhere, because a column is found by its place: the backend's       *)
(* order, the entity's, and the selection's are three different ones.      *)
(***************************************************************************)
EXTENDS Integers, FiniteSets, SequencesExt

CONSTANTS
    ScEnv,
    Entities,              \* names of entities
    SceneConfigs,          \* configurations of the entities of a scene, mistakes among them
    BackendJoints, BackendActuators, BackendBodies,  \* names in the backend's order
    ActuatorJoint,         \* the joint each backend actuator drives, in that order
    Patterns,              \* patterns a selector may use
    IdLists                \* lists of local ids a selector may give

VARIABLES
    scPc,                  \* configure, built or refused
    cfgs,                  \* [Entities -> configuration]
    selector,              \* a SceneEntityCfg: [entity, names, ids, keep]
    selState,              \* new, resolved or failed
    control,               \* the control buffer: [ScEnv -> columns of the backend]
    readScope, stateReads, \* the state-read cache: its phase, and the reads it holds
    before, asked,         \* ghosts: the buffer before the last target, and the target
    scWrites

\* What Python's types give: a list of joint names for each entity, lists of ids.
ASSUME SceneAssumption ==
    /\ \A f \in SceneConfigs, n \in Entities : f[n].joints \in Seq(ToSet(f[n].joints))
    /\ IdLists \subseteq Seq(Int)

scvars == <<scPc, cfgs, selector, selState, control, readScope, stateReads, before, asked, scWrites>>

NotGiven == <<>>
AllIds == <<0>>            \* slice(None): no list of ids was given
Undeclared == <<"undeclared">>
PositionOf(name, list) == CHOOSE i \in DOMAIN list : list[i] = name

------------------------------------------------------------------------------
(* Construction of an entity *)

\* Names are unique.
NormalizeNames(names) == names = Undeclared \/ IsInjective(names)

\* Each name is found in the backend; ids are distinct because names are.
ResolveIds(names, all) == [i \in DOMAIN names |-> PositionOf(names[i], all)]
Resolvable(names, all) == names = Undeclared \/ ToSet(names) \subseteq ToSet(all)

\* The joints the entity's actuators drive: one each, and joints of the entity.
TargetNames(c) == [i \in DOMAIN c.actuators |-> ActuatorJoint[PositionOf(c.actuators[i], BackendActuators)]]

Mapped(c) == c.actuators # Undeclared /\ c.joints # Undeclared

JointActuatorMapping(c) ==
    Mapped(c) => IsInjective(TargetNames(c)) /\ ToSet(TargetNames(c)) \subseteq ToSet(c.joints)

\* Local joint to local actuator; 0 for a passive joint.
JointToActuator(c) ==
    [i \in DOMAIN c.joints |->
        IF c.joints[i] \in ToSet(TargetNames(c)) THEN PositionOf(c.joints[i], TargetNames(c)) ELSE 0]

EntityAccepted(c) ==
    /\ NormalizeNames(c.joints) /\ NormalizeNames(c.bodies) /\ NormalizeNames(c.actuators)
    /\ Resolvable(c.joints, BackendJoints)
    /\ Resolvable(c.bodies, BackendBodies)
    /\ Resolvable(c.actuators, BackendActuators)
    /\ JointActuatorMapping(c)

\* One entity of a scene after the other; the first that fails ends the construction.
BuildScene ==
    /\ scPc = "configure"
    /\ scPc' = IF \A n \in Entities : EntityAccepted(cfgs[n]) THEN "built" ELSE "refused"
    /\ UNCHANGED <<cfgs, selector, selState, control, readScope, stateReads, before, asked, scWrites>>

------------------------------------------------------------------------------
(* Matching names *)

\* No name is matched twice, and no pattern in vain.
Matchable(ps, names) ==
    /\ \A i, j \in DOMAIN ps : i # j => ps[i] \cap ps[j] \cap ToSet(names) = {}
    /\ \A i \in DOMAIN ps : ps[i] \cap ToSet(names) # {}

\* Places of the names some pattern matches.
Found(ps, names) == {i \in DOMAIN names : \E k \in DOMAIN ps : names[i] \in ps[k]}

PatternOf(ps, name) == CHOOSE k \in DOMAIN ps : name \in ps[k]

\* A stable sort of the matches by their pattern, if the order is to be preserved.
NotAfter(i, j, ps, names, keep) ==
    LET key(x) == IF keep THEN PatternOf(ps, names[x]) ELSE 0
    IN key(i) < key(j) \/ (key(i) = key(j) /\ i <= j)

UpTo(ps, names, keep) ==
    [i \in Found(ps, names) |-> {j \in Found(ps, names) : NotAfter(j, i, ps, names, keep)}]

\* The places matched: in the order of the patterns if it is to be preserved,
\* else in that of the names.
MatchedIds(ps, names, keep) ==
    [n \in 1 .. Cardinality(Found(ps, names)) |->
        CHOOSE i \in Found(ps, names) : Cardinality(UpTo(ps, names, keep)[i]) = n]

MatchedNames(ps, names, keep) ==
    [i \in DOMAIN MatchedIds(ps, names, keep) |-> names[MatchedIds(ps, names, keep)[i]]]

\* find_joints_by_actuator_names: the patterns are matched against the joints the
\* actuators drive, in the order of the entity's joints.
Actuated(c, ps) == [k \in DOMAIN ps |-> ps[k] \cap ToSet(TargetNames(c))]

FindByActuatorNames(c, ps) == MatchedIds(Actuated(c, ps), c.joints, FALSE)

------------------------------------------------------------------------------
(* SceneEntityCfg.resolve *)

Exactly(names) == [i \in DOMAIN names |-> {names[i]}]

ValidateIds(ids, names) == ToSet(ids) \subseteq DOMAIN names

\* Names and ids given: they must say the same, in the same order.
ValidateConsistency(s, names) ==
    /\ Matchable(s.names, names)
    /\ MatchedIds(s.names, names, s.keep) = s.ids
    /\ ValidateIds(s.ids, names)
    /\ [i \in DOMAIN s.ids |-> {names[s.ids[i]]}] = s.names

\* Names given: they become the names found, the ids what was found, or the
\* whole slice if everything was, in the entity's own order.
ResolveNamesToIds(s, names) ==
    LET found == MatchedNames(s.names, names, s.keep)
    IN [entity |-> s.entity, names |-> Exactly(found), keep |-> s.keep,
        ids |-> IF found = names THEN AllIds ELSE MatchedIds(s.names, names, s.keep)]

\* Ids given: their names are looked up.
ResolveIdsToNames(s, names) == [s EXCEPT !.names = [i \in DOMAIN s.ids |-> {names[s.ids[i]]}]]

NothingSelected(s) == s.names = NotGiven /\ s.ids = AllIds

\* The resolution raises for names the entity does not declare, names or ids that
\* are not found, and names and ids that disagree.
Resolves(s, names) ==
    NothingSelected(s) \/
    /\ names # Undeclared
    /\ s.ids = AllIds => Matchable(s.names, names)
    /\ s.names = NotGiven => ValidateIds(s.ids, names)
    /\ s.names # NotGiven /\ s.ids # AllIds => ValidateConsistency(s, names)

ResolveField(s, names) ==
    IF s.ids = AllIds /\ s.names # NotGiven THEN ResolveNamesToIds(s, names)
    ELSE IF s.ids # AllIds /\ s.names = NotGiven THEN ResolveIdsToNames(s, names)
    ELSE s

\* A selector may be resolved again, by each manager that is handed it.
ResolveSelector ==
    /\ scPc = "built" /\ selState \in {"new", "resolved"}
    /\ LET names == cfgs[selector.entity].joints
       IN IF Resolves(selector, names)
          THEN selState' = "resolved" /\ selector' = ResolveField(selector, names)
          ELSE selState' = "failed" /\ UNCHANGED selector
    /\ UNCHANGED <<scPc, cfgs, control, readScope, stateReads, before, asked, scWrites>>

\* The local joints a resolved selector stands for.
LocalIds(s) ==
    IF s.ids = AllIds THEN [i \in DOMAIN cfgs[s.entity].joints |-> i] ELSE s.ids

------------------------------------------------------------------------------
(* Joint targets *)

\* The backend's columns of local actuators.
Columns(c, acts) == [i \in DOMAIN acts |-> ResolveIds(c.actuators, BackendActuators)[acts[i]]]

\* write_ctrl: local actuators to columns of the backend, selected rows only.
WriteCtrl(c, rows, acts, values) ==
    control' = [e \in ScEnv |-> [k \in DOMAIN control[e] |->
        IF e \in rows /\ k \in ToSet(Columns(c, acts)) THEN values[PositionOf(k, Columns(c, acts))]
        ELSE control[e][k]]]

\* A target per local joint, in the order they are named.  A passive joint among
\* them, repeated ids or an entity without the mapping: nothing is written.
Writable(c, ids) ==
    /\ Mapped(c) /\ IsInjective(ids)
    /\ \A i \in DOMAIN ids : JointToActuator(c)[ids[i]] # 0

SetJointTarget(n, rows, ids, values) ==
    LET c == cfgs[n]
    IN /\ before' = control
       /\ scWrites' = scWrites + 1
       /\ IF Writable(c, ids)
          THEN /\ WriteCtrl(c, rows, [i \in DOMAIN ids |-> JointToActuator(c)[ids[i]]], values)
               /\ asked' = [entity |-> n, rows |-> rows, joints |-> [i \in DOMAIN ids |-> c.joints[ids[i]]], values |-> values]
          ELSE /\ UNCHANGED control
               /\ asked' = NotGiven
       /\ UNCHANGED <<scPc, cfgs, selector, selState, readScope, stateReads>>

\* The values of a target: which write, and which place of it.
Stride == 10
Target(n) == [i \in 1 .. n |-> Stride * (scWrites + 1) + i]

\* Through a resolved selector, as the reset and event terms use it.
TargetBySelector(rows) ==
    /\ scPc = "built" /\ selState = "resolved" /\ scWrites = 0
    /\ cfgs[selector.entity].joints # Undeclared
    /\ SetJointTarget(selector.entity, rows, LocalIds(selector), Target(Len(LocalIds(selector))))

\* Through the names of actuated joints, as an action term does.
TargetByActuators(n, ps, rows) ==
    /\ scPc = "built" /\ scWrites < 2
    /\ Mapped(cfgs[n])
    /\ Matchable(Actuated(cfgs[n], ps), cfgs[n].joints)
    /\ LET ids == FindByActuatorNames(cfgs[n], ps)
       IN SetJointTarget(n, rows, ids, Target(Len(ids)))

------------------------------------------------------------------------------
(* Reads of the state *)

\* The getters of EntityData: a whole joint array, or the poses of its bodies; a
\* read is kept for the rest of the phase under its getter and its bodies.
ReadKey(n, getter) ==
    IF getter = "dof_pos" THEN <<getter, NotGiven>> ELSE <<getter, ResolveIds(cfgs[n].bodies, BackendBodies)>>

Declared(n, getter) == IF getter = "dof_pos" THEN cfgs[n].joints # Undeclared ELSE cfgs[n].bodies # Undeclared

ReadState(n, getter) ==
    /\ scPc = "built" /\ readScope /\ Declared(n, getter)
    /\ stateReads' = stateReads \cup {ReadKey(n, getter)}
    /\ UNCHANGED <<scPc, cfgs, selector, selState, control, readScope, before, asked, scWrites>>

\* A phase begins with an empty cache and ends with one; phases do not nest.
BeginStateReads ==
    /\ scPc = "built" /\ ~readScope
    /\ readScope' = TRUE /\ stateReads' = {}
    /\ UNCHANGED <<scPc, cfgs, selector, selState, control, before, asked, scWrites>>

EndStateReads ==
    /\ readScope
    /\ readScope' = FALSE /\ stateReads' = {}
    /\ UNCHANGED <<scPc, cfgs, selector, selState, control, before, asked, scWrites>>

ScInit ==
    /\ scPc = "configure"
    /\ cfgs \in SceneConfigs
    /\ \E n \in Entities, keep \in BOOLEAN, ids \in IdLists \cup {AllIds} :
          \E names \in {NotGiven} \cup {<<p>> : p \in Patterns} \cup (Patterns \X Patterns) :
             selector = [entity |-> n, names |-> names, ids |-> ids, keep |-> keep]
    /\ selState = "new"
    /\ control = [e \in ScEnv |-> [k \in DOMAIN BackendActuators |-> 0]]
    /\ readScope = FALSE /\ stateReads = {}
    /\ before = control /\ asked = NotGiven /\ scWrites = 0

ScNext ==
    \/ BuildScene \/ ResolveSelector
    \/ \E rows \in SUBSET ScEnv \ {{}} :
          \/ TargetBySelector(rows)
          \/ \E n \in Entities, ps \in {<<p>> : p \in Patterns} : TargetByActuators(n, ps, rows)
    \/ \E n \in Entities, getter \in {"dof_pos", "body_pos_w"} : ReadState(n, getter)
    \/ BeginStateReads \/ EndStateReads

ScSpec == ScInit /\ [][ScNext]_scvars

------------------------------------------------------------------------------
(* Properties *)

ScTypeOK ==
    /\ scPc \in {"configure", "built", "refused"} /\ selState \in {"new", "resolved", "failed"}
    /\ control \in [ScEnv -> [DOMAIN BackendActuators -> 0 .. 3 * Stride]]
    /\ readScope \in BOOLEAN /\ (~readScope => stateReads = {})
    /\ scWrites \in 0 .. 2

\* The backend's columns of the entity's actuators.
OwnColumns(n) == ToSet(ResolveIds(cfgs[n].actuators, BackendActuators))

\* A target given for a joint by name arrives at the actuator of the entity that
\* drives this joint, in the environments it was given for, through all three
\* orders; every other cell of the shared buffer, the other entities' included,
\* keeps its value.
TargetReachesItsJoint ==
    asked # NotGiven => \A e \in ScEnv, k \in DOMAIN BackendActuators :
        LET hit == {i \in DOMAIN asked.joints : k \in OwnColumns(asked.entity) /\ ActuatorJoint[k] = asked.joints[i]}
        IN IF e \in asked.rows /\ hit # {}
           THEN \A i \in hit : control[e][k] = asked.values[i]
           ELSE control[e][k] = before[e][k]

InNaturalOrder(ids) == \A i, j \in DOMAIN ids : i < j => ids[i] < ids[j]

\* A selector that was resolved names, place by place, the joints its ids stand
\* for, and resolving it once more, as the next manager does, changes nothing and
\* fails for nothing.  The exceptions are a list of ids with repetitions, and one
\* out of order without preserve_order: it resolves once, and its second
\* resolution is refused.
ResolvedIsStable ==
    LET names == cfgs[selector.entity].joints
        ids == LocalIds(selector)
    IN selState = "resolved" /\ ~NothingSelected(selector) =>
        /\ selector.names = [i \in DOMAIN ids |-> {names[ids[i]]}]
        /\ (IF selector.keep THEN IsInjective(ids) ELSE InNaturalOrder(ids)) =>
               Resolves(selector, names) /\ ResolveField(selector, names) = selector

\* Names, selectors and control agree about which joint is which.
ControlReachesItsJoint == TargetReachesItsJoint /\ ResolvedIsStable
=============================================================================
