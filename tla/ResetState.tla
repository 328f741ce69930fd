------------------------------ MODULE ResetState ------------------------------
(***************************************************************************)
(* base/reset_state.py and the writers of base/entity.py: the transaction  *)
(* through which reset events and commands change the simulator.  A scope  *)
(* marks the rows it may write; every write initialises the rows it is the *)
(* first to touch, fills preallocated scratch buffers that are never       *)
(* cleared between scopes, and marks the rows dirty.  The commit builds    *)
(* one dense payload for the dirty rows: a field written for only some of  *)
(* them is completed from a cache of what was committed before.            *)
(*                                                                         *)
(* A generalized state row is [pose, vel, joint]; a model field's row is a *)
(* function of its columns.  Scratch memory from np.empty is Garbage.      *)
(***************************************************************************)
EXTENDS Naturals, FiniteSets

CONSTANTS Env,
          GeomField,     \* geom_size, geom_solref, geom_solimp, geom_friction
          DofField,      \* dof_damping, dof_frictionloss, dof_armature
          BodyField,     \* body_mass, body_ipos, body_inertia
          Gravity, Gain, \* the gravity vector; the pair of actuator gains kp, kd
          Local, Selections, \* the names an entity selects by, and its terms' selections
          Col, ColumnOf, \* the model columns, and the column of each local name
          Val, Pose, Vel, DefaultRow, DefaultField, BodyFrame, MovedRow,
          Requested,     \* the model fields the configured terms bind
          DrawnVal, DrawnPose, DrawnVel,  \* the values the terms of a reset draw
          Garbage,
          MaxScopes, MaxWrites  \* bounds of the model

Field == GeomField \cup DofField \cup BodyField \cup {Gravity, Gain}
StateRow == [pose : Pose, vel : Vel, joint : Val]
FieldRow == [Col -> Val]

\* The simulator's defaults are finite and of the declared shape
\* (_validate_state_vector, _fetch_reset_term_default); local names resolve to
\* distinct columns (_readonly_ids); scratch is no valid row.
ASSUME DefaultAssumption ==
    /\ DefaultRow \in StateRow /\ MovedRow \in StateRow
    /\ DefaultField \in [Field -> [Env -> FieldRow]]
    /\ BodyFrame \in [Pose -> [Vel -> Vel]]
    /\ ColumnOf \in [Local -> Col] /\ Selections \subseteq SUBSET Local
    /\ \A k, l \in Local : ColumnOf[k] = ColumnOf[l] => k = l
    /\ Requested \subseteq Field \ {Gain}
    /\ DrawnVal \subseteq Val /\ DrawnPose \subseteq Pose /\ DrawnVel \subseteq Vel
    /\ Garbage \notin StateRow /\ Garbage \notin FieldRow /\ Garbage \notin Pose
    /\ MaxScopes \in Nat /\ MaxWrites \in Nat

VARIABLES
    active, scope,        \* _active, _active_mask
    dirty,                \* _dirty_mask
    rows,                 \* _qpos and _qvel
    bound,                \* the fields whose default is materialized
    values, fieldDirty,   \* _randomization_values and _dirty_masks, _kp/_kd and _gain_dirty_mask
    cached, cachedMask,   \* _committed_randomization and _masks, _committed_kp/_kd
    mocapBound, mocapRows, mocapMask,
    wrote,                \* _last_commit_had_writes
    sim, simField, simMocap,  \* the simulator
    scopes, writes        \* the model's bounds

txvars == <<active, scope, dirty, fieldDirty, mocapMask>>
bufvars == <<rows, values, mocapRows>>
cachevars == <<cached, cachedMask>>
simvars == <<sim, simField, simMocap>>
vars == <<txvars, bufvars, cachevars, simvars, bound, mocapBound, wrote, scopes, writes>>

TypeOK ==
    /\ active \in BOOLEAN /\ scope \in SUBSET Env
    /\ dirty \in SUBSET Env
    /\ rows \in [Env -> StateRow \cup {Garbage}]
    /\ bound \in SUBSET Field
    /\ values \in [Field -> [Env -> FieldRow \cup {Garbage}]]
    /\ fieldDirty \in [Field -> SUBSET Env]
    /\ cached \in [Field -> [Env -> FieldRow \cup {Garbage}]]
    /\ cachedMask \in [Field -> SUBSET Env]
    /\ mocapBound \in BOOLEAN
    /\ mocapRows \in [Env -> Pose \cup {Garbage}] /\ mocapMask \in SUBSET Env
    /\ wrote \in BOOLEAN
    /\ sim \in [Env -> StateRow]
    /\ simField \in [Field -> [Env -> FieldRow]]
    /\ simMocap \in [Env -> Pose]
    /\ scopes \in 0 .. MaxScopes /\ writes \in 0 .. MaxWrites

Init ==
    /\ active = FALSE /\ scope = {} /\ dirty = {}
    /\ rows = [e \in Env |-> Garbage]
    /\ bound = {}
    /\ values = [f \in Field |-> [e \in Env |-> Garbage]]
    /\ fieldDirty = [f \in Field |-> {}]
    /\ cached = [f \in Field |-> [e \in Env |-> Garbage]]
    /\ cachedMask = [f \in Field |-> {}]
    /\ mocapBound = FALSE /\ mocapRows = [e \in Env |-> Garbage] /\ mocapMask = {}
    /\ wrote = FALSE
    /\ sim = [e \in Env |-> DefaultRow]
    /\ simField = DefaultField
    /\ simMocap = [e \in Env |-> DefaultRow.pose]
    /\ scopes = 0 /\ writes = 0

------------------------------------------------------------------------------
(* Scopes *)

Begin(ids) ==
    /\ ~active
    /\ scopes < MaxScopes /\ scopes' = scopes + 1
    /\ active' = TRUE /\ scope' = ids
    /\ dirty' = {} /\ fieldDirty' = [f \in Field |-> {}]
    /\ wrote' = FALSE
    /\ UNCHANGED <<mocapMask, bufvars, cachevars, simvars, bound, mocapBound, writes>>

Finish ==
    /\ active' = FALSE /\ scope' = {} /\ dirty' = {}
    /\ fieldDirty' = [f \in Field |-> {}]
    /\ mocapMask' = {}

\* The context manager drops the scope when its body raises.
Abort ==
    /\ active
    /\ Finish
    /\ UNCHANGED <<bufvars, cachevars, simvars, bound, mocapBound, wrote, scopes, writes>>

\* Rows outside the scope (or of no environment, or twice the same) raise.
RefuseIds(ids) == ~(ids \subseteq scope) /\ Abort

\* So do columns that do not exist, shapes, integer dtypes, NaN, and quaternions
\* that are not normalized: which values are refused is the term's doing.
RefuseValues == scope # {} /\ Abort

------------------------------------------------------------------------------
(* Writes of the generalized state *)

Writing(ids) ==
    /\ active /\ ids \subseteq scope /\ ids # {}
    /\ writes < MaxWrites /\ writes' = writes + 1
    /\ UNCHANGED <<scopes, active, scope, wrote, cachevars, simvars>>

\* Mutant: a row with anything in its scratch counts as prepared, an earlier scope's included.
PreparedOnce(e) == IF rows[e] # Garbage THEN rows[e] ELSE DefaultRow

\* The rows nobody wrote in this scope start from the simulator's default.
PreparedRow(e) == IF e \in dirty THEN rows[e] ELSE DefaultRow

PrepareStateWrite(ids) == [e \in Env |-> IF e \in ids THEN PreparedRow(e) ELSE rows[e]]

SetRows(ids, new) ==
    /\ Writing(ids)
    /\ rows' = [e \in Env |-> IF e \in ids THEN new[e] ELSE rows[e]]
    /\ dirty' = dirty \cup ids
    /\ UNCHANGED <<fieldDirty, mocapMask, values, mocapRows, bound, mocapBound>>

ResetToDefault(ids) == SetRows(ids, [e \in ids |-> DefaultRow])

WriteJointState(ids, x) == SetRows(ids, [e \in ids |-> [PreparedRow(e) EXCEPT !.joint = x]])

WriteRootPose(ids, q) == SetRows(ids, [e \in ids |-> [PreparedRow(e) EXCEPT !.pose = q]])

\* A world-frame velocity is stored in body coordinates of the staged pose.
WriteRootVelocity(ids, w) ==
    SetRows(ids, [e \in ids |-> [PreparedRow(e) EXCEPT !.vel = BodyFrame[PreparedRow(e).pose][w]]])

\* The pose first, so that the velocity is converted with it.
WriteRootState(ids, q, w) ==
    SetRows(ids, [e \in ids |-> [pose |-> q, vel |-> BodyFrame[q][w], joint |-> PreparedRow(e).joint]])

\* Reading the staged pose initialises rows without making them dirty.
ReadRootPose(ids) ==
    /\ Writing(ids)
    /\ rows' = PrepareStateWrite(ids)
    /\ UNCHANGED <<dirty, fieldDirty, mocapMask, values, mocapRows, bound, mocapBound>>

------------------------------------------------------------------------------
(* Writes of the randomized model fields *)

\* Defaults are fetched once and kept; the scratch of a field is allocated.
MaterializeDefault(fields) == bound' = bound \cup fields

\* The constructors of the event terms bind what they will write, before the
\* first scope; binding a mocap body inside a scope raises.
BindTerms ==
    /\ scopes = 0 /\ ~mocapBound
    /\ MaterializeDefault(Requested)
    /\ mocapBound' = TRUE
    /\ UNCHANGED <<txvars, bufvars, cachevars, simvars, wrote, scopes, writes>>

BindActuatorGain ==
    /\ scopes = 0 /\ Gain \notin bound
    /\ MaterializeDefault({Gain})
    /\ UNCHANGED <<txvars, bufvars, cachevars, simvars, mocapBound, wrote, scopes, writes>>

PreparedField(f, e) == IF e \in fieldDirty[f] THEN values[f][e] ELSE DefaultField[f][e]

WriteSelected(f, ids, cols, x) ==
    /\ Writing(ids)
    /\ rows' = PrepareStateWrite(ids)
    /\ values' = [values EXCEPT ![f] = [e \in Env |->
                    IF e \in ids
                    THEN [c \in Col |-> IF c \in cols THEN x ELSE PreparedField(f, e)[c]]
                    ELSE values[f][e]]]
    /\ fieldDirty' = [fieldDirty EXCEPT ![f] = @ \cup ids]
    /\ dirty' = dirty \cup ids
    /\ UNCHANGED <<mocapMask, mocapRows, mocapBound>>

WriteGeomField(f, ids, cols, x) ==
    /\ f \in GeomField /\ f \in bound
    /\ WriteSelected(f, ids, cols, x)
    /\ UNCHANGED bound

WriteDofField(f, ids, cols, x) ==
    /\ f \in DofField /\ f \in bound
    /\ WriteSelected(f, ids, cols, x)
    /\ UNCHANGED bound

WriteBodyField(f, ids, cols, x) ==
    /\ f \in BodyField /\ f \in bound
    /\ WriteSelected(f, ids, cols, x)
    /\ UNCHANGED bound

WriteGravity(ids, x) ==
    /\ Gravity \in bound
    /\ WriteSelected(Gravity, ids, Col, x)
    /\ UNCHANGED bound

\* Gains materialize their defaults at the first write if no bind did.
WriteActuatorGains(ids, cols, x) ==
    /\ WriteSelected(Gain, ids, cols, x)
    /\ MaterializeDefault({Gain})

------------------------------------------------------------------------------
(* The entity's writers: it selects by its own names and gives the transaction
   the model columns they resolve to. *)

NormalizeLocalIds(local) == local \subseteq Local

ResetModelFieldIds(local) == {ColumnOf[l] : l \in local}

WriteGeomFieldToSim(f, ids, local, x) ==
    /\ NormalizeLocalIds(local) /\ local # {}
    /\ WriteGeomField(f, ids, ResetModelFieldIds(local), x)

\* A joint's name stands for the model dof it resolves to.
WriteDofFieldToSim(f, ids, local, x) ==
    /\ NormalizeLocalIds(local) /\ local # {}
    /\ WriteDofField(f, ids, ResetModelFieldIds(local), x)

WriteBodyFieldToSim(f, ids, local, x) ==
    /\ NormalizeLocalIds(local) /\ local # {}
    /\ WriteBodyField(f, ids, ResetModelFieldIds(local), x)

WriteActuatorGainsToSim(ids, local, x) ==
    /\ NormalizeLocalIds(local)
    /\ WriteActuatorGains(ids, ResetModelFieldIds(local), x)

------------------------------------------------------------------------------
(* Mocap bodies *)

WriteMocapPose(ids, q) ==
    /\ mocapBound
    /\ Writing(ids)
    /\ mocapRows' = [e \in Env |-> IF e \in ids THEN q ELSE mocapRows[e]]
    /\ mocapMask' = mocapMask \cup ids
    /\ UNCHANGED <<dirty, fieldDirty, rows, values, bound, mocapBound>>

------------------------------------------------------------------------------
(* Commit *)

InPayload(f) == fieldDirty[f] # {}
Missing(f) == dirty \ fieldDirty[f]

\* Every dirty row of a field in the payload has a value: this scope's or the cache's.
SparseRowsCovered == \A f \in Field : InPayload(f) => Missing(f) \subseteq cachedMask[f]

\* _fill_sparse_*: the rows this scope did not rewrite are re-supplied.
Payload(f) ==
    [e \in Env |-> IF InPayload(f) /\ e \in Missing(f) THEN cached[f][e] ELSE values[f][e]]

SetState ==
    /\ sim' = [e \in Env |-> IF e \in dirty THEN rows[e] ELSE sim[e]]
    /\ simField' = [f \in Field |-> [e \in Env |->
                      IF InPayload(f) /\ e \in dirty THEN Payload(f)[e] ELSE simField[f][e]]]

RecordCommittedPayload ==
    /\ cached' = [f \in Field |-> [e \in Env |->
                    IF InPayload(f) /\ e \in dirty THEN Payload(f)[e] ELSE cached[f][e]]]
    /\ cachedMask' = [f \in Field |-> IF InPayload(f) THEN cachedMask[f] \cup dirty ELSE cachedMask[f]]

CommitMocapPoses == simMocap' = [e \in Env |-> IF e \in mocapMask THEN mocapRows[e] ELSE simMocap[e]]

Ending ==
    /\ active
    /\ wrote' = (dirty # {} \/ mocapMask # {})
    /\ Finish
    /\ UNCHANGED <<rows, mocapRows, bound, mocapBound, scopes, writes>>

Commit ==
    /\ Ending /\ dirty # {} /\ SparseRowsCovered
    /\ values' = [f \in Field |-> Payload(f)]
    /\ SetState /\ RecordCommittedPayload
    /\ CommitMocapPoses

\* The simulator has taken the state, and the mocap write that follows raises.
CommitMocapFails ==
    /\ Ending /\ dirty # {} /\ SparseRowsCovered /\ mocapMask # {}
    /\ values' = [f \in Field |-> Payload(f)]
    /\ SetState /\ RecordCommittedPayload
    /\ UNCHANGED simMocap

CommitMocapOnly ==
    /\ Ending /\ dirty = {}
    /\ CommitMocapPoses
    /\ UNCHANGED <<values, cachevars, sim, simField>>

\* A row without committed history cannot be completed: the commit raises.
CommitRefused ==
    /\ Ending /\ dirty # {} /\ ~SparseRowsCovered
    /\ UNCHANGED <<values, cachevars, simvars>>

\* Mutant: the payload is recorded as committed although the backend refused it.
RefusalRecorded ==
    /\ Ending /\ dirty # {} /\ SparseRowsCovered
    /\ values' = [f \in Field |-> Payload(f)]
    /\ RecordCommittedPayload
    /\ UNCHANGED simvars

\* The backend refuses the state or the payload, and applies nothing of it.
SetStateFails ==
    /\ Ending /\ dirty # {} /\ SparseRowsCovered
    /\ values' = [f \in Field |-> Payload(f)]
    /\ UNCHANGED <<cachevars, simvars>>

\* Between scopes the simulator steps.
Physics ==
    /\ ~active
    /\ sim' = [e \in Env |-> MovedRow]
    /\ UNCHANGED <<txvars, bufvars, cachevars, simField, simMocap, bound, mocapBound, wrote, scopes, writes>>

Next ==
    \/ \E ids \in SUBSET Env : Begin(ids)
    \/ \E ids \in SUBSET Env : ResetToDefault(ids)
    \/ \E ids \in SUBSET Env, x \in DrawnVal : WriteJointState(ids, x)
    \/ \E ids \in SUBSET Env, q \in DrawnPose : WriteRootPose(ids, q)
    \/ \E ids \in SUBSET Env, w \in DrawnVel : WriteRootVelocity(ids, w)
    \/ \E ids \in SUBSET Env, q \in DrawnPose, w \in DrawnVel : WriteRootState(ids, q, w)
    \/ \E ids \in SUBSET Env : ReadRootPose(ids)
    \/ BindTerms \/ BindActuatorGain
    \/ \E f \in Field, ids \in SUBSET Env, local \in Selections, x \in DrawnVal : WriteGeomFieldToSim(f, ids, local, x)
    \/ \E f \in Field, ids \in SUBSET Env, local \in Selections, x \in DrawnVal : WriteDofFieldToSim(f, ids, local, x)
    \/ \E f \in Field, ids \in SUBSET Env, local \in Selections, x \in DrawnVal : WriteBodyFieldToSim(f, ids, local, x)
    \/ \E ids \in SUBSET Env, x \in DrawnVal : WriteGravity(ids, x)
    \/ \E ids \in SUBSET Env, local \in Selections, x \in DrawnVal : WriteActuatorGainsToSim(ids, local, x)
    \/ \E ids \in SUBSET Env, q \in DrawnPose : WriteMocapPose(ids, q)
    \/ Commit \/ CommitMocapFails \/ CommitMocapOnly \/ CommitRefused \/ SetStateFails \/ Abort
    \/ RefuseValues \/ \E ids \in SUBSET Env : RefuseIds(ids)
    \/ Physics

Spec == Init /\ [][Next]_vars

------------------------------------------------------------------------------
(* Properties *)

\* The cache that completes sparse payloads never drifts from the simulator:
\* _record_committed_payload runs after every set_state that was applied, also
\* when the mocap write after it raises, and after no other one.
CacheAgrees == \A f \in Field : \A e \in cachedMask[f] : cached[f][e] = simField[f][e]

\* A scope's masks nest: a field is dirty only for dirty rows, a row only inside
\* the scope, and nothing outlives the scope it was written in.
MasksNest ==
    /\ dirty \subseteq scope /\ mocapMask \subseteq scope
    /\ \A f \in Field : fieldDirty[f] \subseteq dirty
    /\ ~active => scope = {}

\* What is staged never comes from the uninitialised scratch.
StagedIsInitialised ==
    /\ \A e \in dirty : rows[e] \in StateRow
    /\ \A f \in Field : \A e \in fieldDirty[f] : values[f][e] \in FieldRow
    /\ \A e \in mocapMask : mocapRows[e] \in Pose

Abstract == INSTANCE AtomicReset WITH
    open <- active,
    staged <- [e \in dirty |-> rows[e]],
    stagedField <- [f \in Field |-> [e \in fieldDirty[f] |-> values[f][e]]],
    stagedMocap <- [e \in mocapMask |-> mocapRows[e]]

\* The scratch buffers, masks and caches implement the partial functions of
\* AtomicReset: nothing staged in an earlier scope, aborted or committed, reaches
\* the simulator later, and a field a reset did not rewrite keeps its value.
ImplementsAtomicReset == Abstract!Spec

\* Between a row's staging and its commit.
StagingSound == CacheAgrees /\ MasksNest /\ StagedIsInitialised
=============================================================================
