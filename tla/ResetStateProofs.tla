-------------------------- MODULE ResetStateProofs --------------------------
(***************************************************************************)
(* The reset transaction implements AtomicReset, for any environments,     *)
(* model fields, columns and values.                                       *)
(***************************************************************************)
EXTENDS ResetState, TLAPS

USE DefaultAssumption

Inv == TypeOK /\ StagingSound

-----------------------------------------------------------------------------
(* Rows and field rows                                                     *)

\* A write to a part of a state row leaves a state row.
LEMMA RowWrites ==
  ASSUME NEW r \in StateRow
  PROVE  /\ \A x \in Val : [r EXCEPT !.joint = x] \in StateRow
         /\ \A q \in Pose : [r EXCEPT !.pose = q] \in StateRow
         /\ \A w \in Vel : [r EXCEPT !.vel = BodyFrame[r.pose][w]] \in StateRow
         /\ \A q \in Pose, w \in Vel : [pose |-> q, vel |-> BodyFrame[q][w], joint |-> r.joint] \in StateRow
<1>1. r.pose \in Pose
  BY DEF StateRow
<1>2. \A p \in Pose, w \in Vel : BodyFrame[p][w] \in Vel
  OBVIOUS
<1> QED
  BY <1>1, <1>2 DEF StateRow

\* A row is prepared from what was staged for it, or from the simulator's default.
LEMMA Prepared ==
  ASSUME Inv, NEW e \in Env
  PROVE  PreparedRow(e) \in StateRow
  BY DEF Inv, StagingSound, StagedIsInitialised, PreparedRow

LEMMA PreparedField_Type ==
  ASSUME Inv, NEW f \in Field, NEW e \in Env
  PROVE  PreparedField(f, e) \in FieldRow
  BY DEF Inv, StagingSound, StagedIsInitialised, PreparedField

LEMMA InitHolds == Init => Inv
<1> SUFFICES ASSUME Init PROVE Inv
  OBVIOUS
<1> USE DEF Init
<1>1. DefaultRow.pose \in Pose
  BY DEF StateRow
<1>2. TypeOK
  <2>1. /\ cached \in [Field -> [Env -> FieldRow \cup {Garbage}]]
        /\ values \in [Field -> [Env -> FieldRow \cup {Garbage}]]
    OBVIOUS
  <2>2. /\ fieldDirty \in [Field -> SUBSET Env] /\ cachedMask \in [Field -> SUBSET Env]
        /\ dirty \in SUBSET Env /\ scope \in SUBSET Env /\ mocapMask \in SUBSET Env
        /\ bound \in SUBSET Field
    OBVIOUS
  <2>3. /\ rows \in [Env -> StateRow \cup {Garbage}] /\ mocapRows \in [Env -> Pose \cup {Garbage}]
        /\ sim \in [Env -> StateRow] /\ simMocap \in [Env -> Pose]
    BY <1>1
  <2>4. simField \in [Field -> [Env -> FieldRow]]
    OBVIOUS
  <2>5. active \in BOOLEAN /\ mocapBound \in BOOLEAN /\ wrote \in BOOLEAN
    OBVIOUS
  <2>6. scopes \in 0 .. MaxScopes /\ writes \in 0 .. MaxWrites
    OBVIOUS
  <2> QED
    BY <2>1, <2>2, <2>3, <2>4, <2>5, <2>6, Zenon DEF TypeOK
<1>3. StagingSound
  BY DEF StagingSound, CacheAgrees, MasksNest, StagedIsInitialised
<1> QED
  BY <1>2, <1>3 DEF Inv

\* A scope begins with nothing staged, and ends so.
LEMMA Begin_Holds == ASSUME Inv, NEW ids \in SUBSET Env, Begin(ids) PROVE Inv'
<1> USE DEF Inv, Begin, bufvars, cachevars, simvars
<1>1. TypeOK'
  <2>1. fieldDirty' \in [Field -> SUBSET Env] /\ scopes' \in 0 .. MaxScopes
    BY DEF TypeOK
  <2>2. active' \in BOOLEAN /\ wrote' \in BOOLEAN
    OBVIOUS
  <2> QED
    BY <2>1, <2>2 DEF TypeOK
<1>2. StagingSound'
  BY DEF TypeOK, StagingSound, CacheAgrees, MasksNest, StagedIsInitialised
<1> QED
  BY <1>1, <1>2

LEMMA Abort_Holds == ASSUME Inv, Abort PROVE Inv'
<1> USE DEF Inv, Abort, Finish, bufvars, cachevars, simvars
<1>1. TypeOK'
  BY DEF TypeOK
<1>2. StagingSound'
  BY DEF TypeOK, StagingSound, CacheAgrees, MasksNest, StagedIsInitialised
<1> QED
  BY <1>1, <1>2

\* Every write of the generalized state.
LEMMA SetRows_Holds ==
  ASSUME Inv, NEW ids \in SUBSET Env, NEW new, \A e \in ids : new[e] \in StateRow,
         SetRows(ids, new)
  PROVE  Inv'
<1> USE DEF Inv, SetRows, Writing, cachevars, simvars
<1>1. TypeOK'
  BY DEF TypeOK
<1>2. StagingSound'
  BY DEF TypeOK, StagingSound, CacheAgrees, MasksNest, StagedIsInitialised
<1> QED
  BY <1>1, <1>2

LEMMA ReadRootPose_Holds ==
  ASSUME Inv, NEW ids \in SUBSET Env, ReadRootPose(ids) PROVE Inv'
<1> USE DEF Inv, ReadRootPose, Writing, PrepareStateWrite, cachevars, simvars
<1>0. \A e \in Env : PreparedRow(e) \in StateRow
  BY Prepared
<1>1. TypeOK'
  BY <1>0 DEF TypeOK
<1>2. StagingSound'
  BY DEF TypeOK, StagingSound, CacheAgrees, MasksNest, StagedIsInitialised, PreparedRow
<1> QED
  BY <1>1, <1>2

\* Every write of a randomized model field.
LEMMA WriteSelected_Holds ==
  ASSUME Inv, NEW f \in Field, NEW ids \in SUBSET Env, NEW cols, NEW x \in Val,
         WriteSelected(f, ids, cols, x), bound' \in SUBSET Field
  PROVE  Inv'
<1> USE DEF Inv, WriteSelected, Writing, PrepareStateWrite, cachevars, simvars
<1>0. \A e \in Env : PreparedRow(e) \in StateRow
  BY Prepared
<1> DEFINE new(e) == [c \in Col |-> IF c \in cols THEN x ELSE PreparedField(f, e)[c]]
<1>1. ASSUME NEW e \in Env PROVE new(e) \in FieldRow
  BY PreparedField_Type DEF FieldRow
<1> HIDE DEF new
<1>2. /\ values' = [values EXCEPT ![f] = [e \in Env |-> IF e \in ids THEN new(e) ELSE values[f][e]]]
      /\ fieldDirty' = [fieldDirty EXCEPT ![f] = @ \cup ids]
  BY DEF new
<1>3. TypeOK'
  <2>0. [e \in Env |-> IF e \in ids THEN new(e) ELSE values[f][e]] \in [Env -> FieldRow \cup {Garbage}]
    BY <1>1 DEF TypeOK
  <2>1. values' \in [Field -> [Env -> FieldRow \cup {Garbage}]]
    BY <2>0, <1>2 DEF TypeOK
  <2>2. rows' \in [Env -> StateRow \cup {Garbage}] /\ fieldDirty' \in [Field -> SUBSET Env]
    BY <1>0, <1>2 DEF TypeOK
  <2> QED
    BY <2>1, <2>2 DEF TypeOK
<1>4. CacheAgrees' /\ MasksNest'
  BY <1>2 DEF TypeOK, StagingSound, CacheAgrees, MasksNest
<1>5. StagedIsInitialised'
  <2>1. \A e \in dirty' : rows'[e] \in StateRow
    BY <1>0 DEF TypeOK, StagingSound, StagedIsInitialised, MasksNest
  <2>2. ASSUME NEW g \in Field, NEW e \in fieldDirty'[g] PROVE values'[g][e] \in FieldRow
    <3>1. e \in Env
      BY <1>3 DEF TypeOK
    <3>2. CASE g = f
      <4>1. values'[g] = [d \in Env |-> IF d \in ids THEN new(d) ELSE values[f][d]]
        BY <3>2, <1>2 DEF TypeOK
      <4>2. e \in ids \/ e \in fieldDirty[f]
        BY <3>2, <1>2 DEF TypeOK
      <4>3. e \in fieldDirty[f] => values[f][e] \in FieldRow
        BY DEF StagingSound, StagedIsInitialised
      <4>4. values'[g][e] = IF e \in ids THEN new(e) ELSE values[f][e]
        BY ONLY <3>1, <4>1
      <4>5. new(e) \in FieldRow
        BY <3>1, <1>1
      <4> QED
        BY ONLY <4>2, <4>3, <4>4, <4>5
    <3>3. CASE g # f
      BY <3>1, <3>3, <1>2 DEF TypeOK, StagingSound, StagedIsInitialised
    <3> QED
      BY <3>2, <3>3
  <2>3. \A e \in mocapMask' : mocapRows'[e] \in Pose
    BY DEF StagingSound, StagedIsInitialised
  <2> QED
    BY <2>1, <2>2, <2>3 DEF StagedIsInitialised
<1> QED
  BY <1>3, <1>4, <1>5 DEF StagingSound

LEMMA Bind_Holds == ASSUME Inv, BindTerms \/ BindActuatorGain PROVE Inv'
<1> USE DEF Inv, BindTerms, BindActuatorGain, MaterializeDefault, txvars, bufvars, cachevars, simvars
<1>1. TypeOK'
  BY DEF TypeOK, Field
<1>2. StagingSound'
  BY DEF StagingSound, CacheAgrees, MasksNest, StagedIsInitialised
<1> QED
  BY <1>1, <1>2

LEMMA Mocap_Holds ==
  ASSUME Inv, NEW ids \in SUBSET Env, NEW q \in Pose, WriteMocapPose(ids, q) PROVE Inv'
<1> USE DEF Inv, WriteMocapPose, Writing, cachevars, simvars
<1>1. TypeOK'
  BY DEF TypeOK
<1>2. StagingSound'
  BY DEF TypeOK, StagingSound, CacheAgrees, MasksNest, StagedIsInitialised
<1> QED
  BY <1>1, <1>2

-----------------------------------------------------------------------------
(* The commit and the physics                                              *)

\* What a payload hands over for a dirty row: this scope's value, or what the
\* simulator has.
LEMMA PayloadOfRow ==
  ASSUME Inv, SparseRowsCovered, NEW f \in Field, InPayload(f), NEW e \in dirty
  PROVE  /\ e \in fieldDirty[f] => Payload(f)[e] = values[f][e]
         /\ e \notin fieldDirty[f] => Payload(f)[e] = simField[f][e]
         /\ Payload(f)[e] \in FieldRow
<1> USE DEF Inv, TypeOK
<1>0. e \in Env
  OBVIOUS
<1>1. CASE e \in fieldDirty[f]
  <2>1. Payload(f)[e] = values[f][e]
    BY <1>0, <1>1 DEF Payload, Missing
  <2>2. values[f][e] \in FieldRow
    BY <1>1 DEF StagingSound, StagedIsInitialised
  <2> QED
    BY <1>1, <2>1, <2>2
<1>2. CASE e \notin fieldDirty[f]
  <2>1. Payload(f)[e] = cached[f][e]
    BY <1>0, <1>2 DEF Payload, Missing
  <2>2. e \in cachedMask[f]
    BY <1>2 DEF SparseRowsCovered, Missing
  <2>3. cached[f][e] = simField[f][e]
    BY <2>2 DEF StagingSound, CacheAgrees
  <2>4. simField[f][e] \in FieldRow
    BY <1>0
  <2> QED
    BY <1>2, <2>1, <2>3, <2>4
<1> QED
  BY <1>1, <1>2

\* Rows that stay outside a payload have whatever their scratch held.
LEMMA Payload_Type ==
  ASSUME Inv, NEW f \in Field
  PROVE  Payload(f) \in [Env -> FieldRow \cup {Garbage}]
  BY DEF Inv, TypeOK, Payload

LEMMA Finish_Holds ==
  ASSUME Inv, Finish
  PROVE  /\ active' \in BOOLEAN /\ scope' \in SUBSET Env /\ dirty' \in SUBSET Env
         /\ mocapMask' \in SUBSET Env /\ fieldDirty' \in [Field -> SUBSET Env]
         /\ MasksNest' /\ StagedIsInitialised'
<1>1. active' \in BOOLEAN
  BY Zenon DEF Finish
<1> QED
  BY <1>1 DEF Finish, MasksNest, StagedIsInitialised

\* set_state and the record of it: the cache and the simulator take the same rows.
LEMMA Applied_Holds ==
  ASSUME Inv, SparseRowsCovered, SetState, RecordCommittedPayload
  PROVE  /\ sim' \in [Env -> StateRow] /\ simField' \in [Field -> [Env -> FieldRow]]
         /\ cached' \in [Field -> [Env -> FieldRow \cup {Garbage}]]
         /\ cachedMask' \in [Field -> SUBSET Env]
         /\ CacheAgrees'
<1> USE DEF Inv
<1>1. sim' \in [Env -> StateRow]
  BY DEF TypeOK, SetState, StagingSound, StagedIsInitialised
<1>2. ASSUME NEW f \in Field
      PROVE  /\ simField'[f] \in [Env -> FieldRow]
             /\ cached'[f] \in [Env -> FieldRow \cup {Garbage}]
             /\ \A e \in cachedMask'[f] : cached'[f][e] = simField'[f][e]
  <2>1. simField'[f] = [e \in Env |-> IF InPayload(f) /\ e \in dirty THEN Payload(f)[e] ELSE simField[f][e]]
    BY DEF SetState
  <2>2. /\ cached'[f] = [e \in Env |-> IF InPayload(f) /\ e \in dirty THEN Payload(f)[e] ELSE cached[f][e]]
        /\ cachedMask'[f] = IF InPayload(f) THEN cachedMask[f] \cup dirty ELSE cachedMask[f]
    BY DEF RecordCommittedPayload
  <2>3. InPayload(f) => \A e \in dirty : Payload(f)[e] \in FieldRow
    BY PayloadOfRow
  <2>4. /\ simField[f] \in [Env -> FieldRow] /\ cached[f] \in [Env -> FieldRow \cup {Garbage}]
        /\ cachedMask[f] \subseteq Env /\ dirty \subseteq Env
    BY DEF TypeOK
  <2>5. \A e \in cachedMask[f] : cached[f][e] = simField[f][e]
    BY DEF StagingSound, CacheAgrees
  <2>6. simField'[f] \in [Env -> FieldRow]
    BY ONLY <2>1, <2>3, <2>4
  <2>7. cached'[f] \in [Env -> FieldRow \cup {Garbage}]
    BY ONLY <2>2, <2>3, <2>4
  <2>8. \A e \in cachedMask'[f] : cached'[f][e] = simField'[f][e]
    BY ONLY <2>1, <2>2, <2>4, <2>5
  <2> QED
    BY <2>6, <2>7, <2>8
<1>3. simField' \in [Field -> [Env -> FieldRow]]
  <2>1. simField' = [f \in Field |-> simField'[f]]
    BY DEF SetState
  <2> QED
    BY <1>2, <2>1
<1>4. cached' \in [Field -> [Env -> FieldRow \cup {Garbage}]]
  <2>1. cached' = [f \in Field |-> cached'[f]]
    BY DEF RecordCommittedPayload
  <2> QED
    BY <1>2, <2>1
<1>5. cachedMask' \in [Field -> SUBSET Env]
  BY DEF RecordCommittedPayload, TypeOK
<1>6. CacheAgrees'
  BY <1>2 DEF CacheAgrees
<1> QED
  BY <1>1, <1>3, <1>4, <1>5, <1>6

LEMMA Ending_Holds ==
  ASSUME Inv, Commit \/ CommitMocapFails \/ CommitMocapOnly \/ CommitRefused \/ SetStateFails
  PROVE  Inv'
<1>1. Ending
  BY DEF Commit, CommitMocapFails, CommitMocapOnly, CommitRefused, SetStateFails
<1>2. Finish
  BY <1>1 DEF Ending
<1>3. values' \in [Field -> [Env -> FieldRow \cup {Garbage}]]
  BY Payload_Type DEF Commit, CommitMocapFails, CommitMocapOnly, CommitRefused, SetStateFails, Inv, TypeOK
<1>4. simMocap' \in [Env -> Pose]
  BY DEF Commit, CommitMocapFails, CommitMocapOnly, CommitRefused, SetStateFails, CommitMocapPoses,
         simvars, Inv, TypeOK, StagingSound, StagedIsInitialised
<1>5. wrote' \in BOOLEAN
  BY <1>1 DEF Ending
<1>6. /\ sim' \in [Env -> StateRow] /\ simField' \in [Field -> [Env -> FieldRow]]
      /\ cached' \in [Field -> [Env -> FieldRow \cup {Garbage}]]
      /\ cachedMask' \in [Field -> SUBSET Env]
      /\ CacheAgrees'
  <2>1. CASE Commit \/ CommitMocapFails
    BY <2>1, Applied_Holds DEF Commit, CommitMocapFails
  <2>2. CASE CommitMocapOnly \/ CommitRefused \/ SetStateFails
    BY <2>2 DEF CommitMocapOnly, CommitRefused, SetStateFails, cachevars, simvars, Inv, TypeOK,
                StagingSound, CacheAgrees
  <2> QED
    BY <2>1, <2>2
<1>7. TypeOK'
  <2>1. UNCHANGED <<rows, mocapRows, bound, mocapBound, scopes, writes>>
    BY <1>1 DEF Ending
  <2> QED
    BY <1>2, <1>3, <1>4, <1>5, <1>6, <2>1, Finish_Holds DEF Inv, TypeOK
<1> QED
  BY <1>2, <1>6, <1>7, Finish_Holds DEF Inv, StagingSound

LEMMA Physics_Holds == ASSUME Inv, Physics PROVE Inv'
<1> USE DEF Inv, Physics, txvars, bufvars, cachevars
<1>1. TypeOK'
  BY DEF TypeOK
<1>2. StagingSound'
  BY DEF StagingSound, CacheAgrees, MasksNest, StagedIsInitialised
<1> QED
  BY <1>1, <1>2

-----------------------------------------------------------------------------
(* The invariant                                                           *)

\* The actions that write rows of the generalized state.
WriteRows ==
    \/ \E ids \in SUBSET Env : ResetToDefault(ids)
    \/ \E ids \in SUBSET Env, x \in DrawnVal : WriteJointState(ids, x)
    \/ \E ids \in SUBSET Env, q \in DrawnPose : WriteRootPose(ids, q)
    \/ \E ids \in SUBSET Env, w \in DrawnVel : WriteRootVelocity(ids, w)
    \/ \E ids \in SUBSET Env, q \in DrawnPose, w \in DrawnVel : WriteRootState(ids, q, w)

\* The actions that write model fields, all through WriteSelected.
WriteFields ==
    \/ \E f \in Field, ids \in SUBSET Env, local \in Selections, x \in DrawnVal :
          \/ WriteGeomFieldToSim(f, ids, local, x)
          \/ WriteDofFieldToSim(f, ids, local, x)
          \/ WriteBodyFieldToSim(f, ids, local, x)
    \/ \E ids \in SUBSET Env, x \in DrawnVal : WriteGravity(ids, x)
    \/ \E ids \in SUBSET Env, local \in Selections, x \in DrawnVal : WriteActuatorGainsToSim(ids, local, x)

\* The actions that end a scope without touching the simulator.
DropScope == Abort \/ RefuseValues \/ \E ids \in SUBSET Env : RefuseIds(ids)

\* Each action of Next is one of these.
LEMMA Steps ==
  ASSUME Next
  PROVE  \/ \E ids \in SUBSET Env : Begin(ids) \/ ReadRootPose(ids)
         \/ WriteRows \/ WriteFields
         \/ BindTerms \/ BindActuatorGain
         \/ \E ids \in SUBSET Env, q \in DrawnPose : WriteMocapPose(ids, q)
         \/ Commit \/ CommitMocapFails \/ CommitMocapOnly \/ CommitRefused \/ SetStateFails
         \/ DropScope \/ Physics
  BY Zenon DEF Next, WriteRows, WriteFields, DropScope

LEMMA WriteRows_Holds == ASSUME Inv, WriteRows PROVE Inv'
<1>0. \A e \in Env : PreparedRow(e) \in StateRow
  BY Prepared
<1>1. ASSUME NEW ids \in SUBSET Env, ResetToDefault(ids) PROVE Inv'
  BY <1>1, SetRows_Holds DEF ResetToDefault
<1>2. ASSUME NEW ids \in SUBSET Env, NEW x \in DrawnVal, WriteJointState(ids, x) PROVE Inv'
  <2> DEFINE new == [e \in ids |-> [PreparedRow(e) EXCEPT !.joint = x]]
  <2>1. ASSUME NEW e \in ids PROVE new[e] \in StateRow
    BY <1>0, RowWrites
  <2>2. SetRows(ids, new)
    BY <1>2 DEF WriteJointState
  <2> HIDE DEF new
  <2> QED
    BY <2>1, <2>2, SetRows_Holds
<1>3. ASSUME NEW ids \in SUBSET Env, NEW q \in DrawnPose, WriteRootPose(ids, q) PROVE Inv'
  <2> DEFINE new == [e \in ids |-> [PreparedRow(e) EXCEPT !.pose = q]]
  <2>1. ASSUME NEW e \in ids PROVE new[e] \in StateRow
    BY <1>0, RowWrites
  <2>2. SetRows(ids, new)
    BY <1>3 DEF WriteRootPose
  <2> HIDE DEF new
  <2> QED
    BY <2>1, <2>2, SetRows_Holds
<1>4. ASSUME NEW ids \in SUBSET Env, NEW w \in DrawnVel, WriteRootVelocity(ids, w) PROVE Inv'
  <2> DEFINE new == [e \in ids |-> [PreparedRow(e) EXCEPT !.vel = BodyFrame[PreparedRow(e).pose][w]]]
  <2>1. ASSUME NEW e \in ids PROVE new[e] \in StateRow
    BY <1>0, RowWrites
  <2>2. SetRows(ids, new)
    BY <1>4 DEF WriteRootVelocity
  <2> HIDE DEF new
  <2> QED
    BY <2>1, <2>2, SetRows_Holds
<1>5. ASSUME NEW ids \in SUBSET Env, NEW q \in DrawnPose, NEW w \in DrawnVel, WriteRootState(ids, q, w) PROVE Inv'
  <2> DEFINE new == [e \in ids |-> [pose |-> q, vel |-> BodyFrame[q][w], joint |-> PreparedRow(e).joint]]
  <2>1. ASSUME NEW e \in ids PROVE new[e] \in StateRow
    BY <1>0, RowWrites
  <2>2. SetRows(ids, new)
    BY <1>5 DEF WriteRootState
  <2> HIDE DEF new
  <2> QED
    BY <2>1, <2>2, SetRows_Holds
<1> QED
  BY <1>1, <1>2, <1>3, <1>4, <1>5 DEF WriteRows

\* A write of a model field, whichever writer it came through.
LEMMA FieldWrite ==
  ASSUME WriteFields
  PROVE  \E f \in Field, ids \in SUBSET Env, cols \in SUBSET Col, x \in DrawnVal :
           /\ WriteSelected(f, ids, cols, x)
           /\ bound' = bound \/ bound' = bound \cup {Gain}
<1>0. \A local \in Selections : ResetModelFieldIds(local) \in SUBSET Col
  BY DEF ResetModelFieldIds
<1>1. Gravity \in Field /\ Gain \in Field /\ Col \in SUBSET Col
  BY DEF Field
<1>2. ASSUME NEW f \in Field, NEW ids \in SUBSET Env, NEW local \in Selections, NEW x \in DrawnVal,
             \/ WriteGeomFieldToSim(f, ids, local, x)
             \/ WriteDofFieldToSim(f, ids, local, x)
             \/ WriteBodyFieldToSim(f, ids, local, x)
      PROVE  WriteSelected(f, ids, ResetModelFieldIds(local), x) /\ bound' = bound
  BY <1>2 DEF WriteGeomFieldToSim, WriteDofFieldToSim, WriteBodyFieldToSim,
              WriteGeomField, WriteDofField, WriteBodyField
<1>3. ASSUME NEW ids \in SUBSET Env, NEW x \in DrawnVal, WriteGravity(ids, x)
      PROVE  WriteSelected(Gravity, ids, Col, x) /\ bound' = bound
  BY <1>3 DEF WriteGravity
<1>4. ASSUME NEW ids \in SUBSET Env, NEW local \in Selections, NEW x \in DrawnVal,
             WriteActuatorGainsToSim(ids, local, x)
      PROVE  WriteSelected(Gain, ids, ResetModelFieldIds(local), x) /\ bound' = bound \cup {Gain}
  BY <1>4 DEF WriteActuatorGainsToSim, WriteActuatorGains, MaterializeDefault
<1>5. CASE \E f \in Field, ids \in SUBSET Env, local \in Selections, x \in DrawnVal :
             \/ WriteGeomFieldToSim(f, ids, local, x)
             \/ WriteDofFieldToSim(f, ids, local, x)
             \/ WriteBodyFieldToSim(f, ids, local, x)
  <2>1. PICK f \in Field, ids \in SUBSET Env, local \in Selections, x \in DrawnVal :
             WriteSelected(f, ids, ResetModelFieldIds(local), x) /\ bound' = bound
    BY <1>2, <1>5, Zenon
  <2> QED
    BY <1>0, <2>1, Zenon
<1>6. CASE \E ids \in SUBSET Env, x \in DrawnVal : WriteGravity(ids, x)
  BY <1>1, <1>3, <1>6, Zenon
<1>7. CASE \E ids \in SUBSET Env, local \in Selections, x \in DrawnVal : WriteActuatorGainsToSim(ids, local, x)
  BY <1>0, <1>1, <1>4, <1>7, Zenon
<1> QED
  BY <1>5, <1>6, <1>7, Zenon DEF WriteFields

LEMMA WriteFields_Holds == ASSUME Inv, WriteFields PROVE Inv'
<1>1. PICK f \in Field, ids \in SUBSET Env, cols \in SUBSET Col, x \in DrawnVal :
           /\ WriteSelected(f, ids, cols, x)
           /\ bound' = bound \/ bound' = bound \cup {Gain}
  BY FieldWrite, Zenon
<1>2. bound' \in SUBSET Field
  BY <1>1 DEF Inv, TypeOK, Field
<1>3. x \in Val
  OBVIOUS
<1> QED
  BY <1>1, <1>2, <1>3, WriteSelected_Holds, Zenon

LEMMA Stuttering_Holds == ASSUME Inv, UNCHANGED vars PROVE Inv'
<1> USE DEF Inv, vars, txvars, bufvars, cachevars, simvars
<1>1. TypeOK'
  BY DEF TypeOK
<1>2. StagingSound'
  BY DEF StagingSound, CacheAgrees, MasksNest, StagedIsInitialised
<1> QED
  BY <1>1, <1>2

LEMMA Inv_Inductive == ASSUME Inv, [Next]_vars PROVE Inv'
<1>1. ASSUME DropScope PROVE Inv'
  BY <1>1, Abort_Holds, Zenon DEF DropScope, RefuseValues, RefuseIds
<1>2. ASSUME NEW ids \in SUBSET Env, Begin(ids) \/ ReadRootPose(ids) PROVE Inv'
  BY <1>2, Begin_Holds, ReadRootPose_Holds, Zenon
<1>3. ASSUME NEW ids \in SUBSET Env, NEW q \in DrawnPose, WriteMocapPose(ids, q) PROVE Inv'
  <2>1. q \in Pose
    OBVIOUS
  <2> QED
    BY <1>3, <2>1, Mocap_Holds, Zenon
<1> QED
  BY <1>1, <1>2, <1>3, Steps, WriteRows_Holds, WriteFields_Holds, Bind_Holds, Ending_Holds,
     Physics_Holds, Stuttering_Holds, Zenon

\* No mask reaches beyond its scope, nothing staged is uninitialised scratch, and
\* the cache that completes sparse payloads holds what the simulator has: in every
\* sequence of scopes, writes, refusals and failed commits.
THEOREM StagingIsSound == Spec => []StagingSound
<1>1. Inv /\ [Next]_vars => Inv'
  BY Inv_Inductive
<1>2. Inv => StagingSound
  BY DEF Inv
<1> QED
  BY InitHolds, <1>1, <1>2, PTL DEF Spec

-----------------------------------------------------------------------------
(* The refinement: each action is a step of AtomicReset or stutters        *)

\* A scope stages nothing when its masks are empty.
LEMMA NothingStaged ==
  ASSUME NEW r, NEW v, NEW m
  PROVE  /\ [e \in {} |-> r[e]] = Abstract!Nothing
         /\ [f \in Field |-> [e \in {} |-> v[f][e]]] = [f \in Field |-> Abstract!Nothing]
         /\ [e \in {} |-> m[e]] = Abstract!Nothing
  BY DEF Abstract!Nothing

LEMMA InitRefines == ASSUME Init PROVE Abstract!Init
  BY NothingStaged DEF Init, Abstract!Init, Abstract!Nothing

LEMMA StagedRow ==
  ASSUME Inv, NEW e \in Env
  PROVE  Abstract!Staged(e) = PreparedRow(e)
  BY DEF Inv, TypeOK, Abstract!Staged, PreparedRow

\* What a term's row write does, in the two specifications.
LEMMA SetRowsStages ==
  ASSUME Inv, NEW ids \in SUBSET Env, NEW new, SetRows(ids, new)
  PROVE  Abstract!Stage(ids, new)
<1> USE DEF SetRows, Writing, simvars
<1>1. [e \in dirty' |-> rows'[e]] = Abstract!Override([e \in dirty |-> rows[e]], [e \in ids |-> new[e]])
  <2>1. dirty' = dirty \cup ids
    OBVIOUS
  <2>2. \A e \in ids : rows'[e] = new[e]
    OBVIOUS
  <2>3. \A e \in dirty : e \notin ids => rows'[e] = rows[e]
    BY DEF Inv, TypeOK
  <2> QED
    BY <2>1, <2>2, <2>3 DEF Abstract!Override
<1>2. [f \in Field |-> [e \in fieldDirty'[f] |-> values'[f][e]]] = [f \in Field |-> [e \in fieldDirty[f] |-> values[f][e]]]
  OBVIOUS
<1>3. [e \in mocapMask' |-> mocapRows'[e]] = [e \in mocapMask |-> mocapRows[e]]
  OBVIOUS
<1> QED
  BY <1>1, <1>2, <1>3 DEF Abstract!Stage

LEMMA WriteRowsRefines ==
  ASSUME Inv, WriteRows
  PROVE  \E ids \in SUBSET Env : Abstract!StageRows(ids)
<1>0. /\ \A ids \in SUBSET Env : \A e \in ids : Abstract!Staged(e) = PreparedRow(e)
      /\ DrawnVal \subseteq Val /\ DrawnPose \subseteq Pose /\ DrawnVel \subseteq Vel
  BY StagedRow
<1>1. ASSUME NEW ids \in SUBSET Env, ResetToDefault(ids) PROVE Abstract!StageRows(ids)
  <2>1. PICK new : new = [e \in ids |-> DefaultRow]
    OBVIOUS
  <2>2. SetRows(ids, new)
    BY <1>1, <2>1 DEF ResetToDefault, SetRows
  <2>3. Abstract!Stage(ids, new)
    BY <2>2, SetRowsStages
  <2>4. new = [e \in ids |-> DefaultRow]
    BY <1>0, <2>1
  <2>5. Abstract!Stage(ids, [e \in ids |-> DefaultRow])
    BY <2>3, <2>4 DEF Abstract!Stage
  <2> QED
    BY <1>0, <2>5, Zenon DEF Abstract!StageRows
<1>2. ASSUME NEW ids \in SUBSET Env, NEW x \in DrawnVal, WriteJointState(ids, x) PROVE Abstract!StageRows(ids)
  <2>1. PICK new : new = [e \in ids |-> [PreparedRow(e) EXCEPT !.joint = x]]
    OBVIOUS
  <2>2. SetRows(ids, new)
    BY <1>2, <2>1 DEF WriteJointState, SetRows
  <2>3. Abstract!Stage(ids, new)
    BY <2>2, SetRowsStages
  <2>4. new = [e \in ids |-> [Abstract!Staged(e) EXCEPT !.joint = x]]
    BY <1>0, <2>1
  <2>5. Abstract!Stage(ids, [e \in ids |-> [Abstract!Staged(e) EXCEPT !.joint = x]])
    BY <2>3, <2>4 DEF Abstract!Stage
  <2> QED
    BY <1>0, <2>5, Zenon DEF Abstract!StageRows
<1>3. ASSUME NEW ids \in SUBSET Env, NEW q \in DrawnPose, WriteRootPose(ids, q) PROVE Abstract!StageRows(ids)
  <2>1. PICK new : new = [e \in ids |-> [PreparedRow(e) EXCEPT !.pose = q]]
    OBVIOUS
  <2>2. SetRows(ids, new)
    BY <1>3, <2>1 DEF WriteRootPose, SetRows
  <2>3. Abstract!Stage(ids, new)
    BY <2>2, SetRowsStages
  <2>4. new = [e \in ids |-> [Abstract!Staged(e) EXCEPT !.pose = q]]
    BY <1>0, <2>1
  <2>5. Abstract!Stage(ids, [e \in ids |-> [Abstract!Staged(e) EXCEPT !.pose = q]])
    BY <2>3, <2>4 DEF Abstract!Stage
  <2> QED
    BY <1>0, <2>5, Zenon DEF Abstract!StageRows
<1>4. ASSUME NEW ids \in SUBSET Env, NEW w \in DrawnVel, WriteRootVelocity(ids, w) PROVE Abstract!StageRows(ids)
  <2>1. PICK new : new = [e \in ids |-> [PreparedRow(e) EXCEPT !.vel = BodyFrame[PreparedRow(e).pose][w]]]
    OBVIOUS
  <2>2. SetRows(ids, new)
    BY <1>4, <2>1 DEF WriteRootVelocity, SetRows
  <2>3. Abstract!Stage(ids, new)
    BY <2>2, SetRowsStages
  <2>4. new = [e \in ids |-> [Abstract!Staged(e) EXCEPT !.vel = BodyFrame[Abstract!Staged(e).pose][w]]]
    BY <1>0, <2>1
  <2>5. Abstract!Stage(ids, [e \in ids |-> [Abstract!Staged(e) EXCEPT !.vel = BodyFrame[Abstract!Staged(e).pose][w]]])
    BY <2>3, <2>4 DEF Abstract!Stage
  <2> QED
    BY <1>0, <2>5, Zenon DEF Abstract!StageRows
<1>5. ASSUME NEW ids \in SUBSET Env, NEW p \in DrawnPose, NEW v \in DrawnVel, WriteRootState(ids, p, v) PROVE Abstract!StageRows(ids)
  <2>1. PICK new : new = [e \in ids |-> [pose |-> p, vel |-> BodyFrame[p][v], joint |-> PreparedRow(e).joint]]
    OBVIOUS
  <2>2. SetRows(ids, new)
    BY <1>5, <2>1 DEF WriteRootState, SetRows
  <2>3. Abstract!Stage(ids, new)
    BY <2>2, SetRowsStages
  <2>4. new = [e \in ids |-> [pose |-> p, vel |-> BodyFrame[p][v], joint |-> Abstract!Staged(e).joint]]
    BY <1>0, <2>1
  <2>5. Abstract!Stage(ids, [e \in ids |-> [pose |-> p, vel |-> BodyFrame[p][v], joint |-> Abstract!Staged(e).joint]])
    BY <2>3, <2>4 DEF Abstract!Stage
  <2>6. \E q \in Pose, w \in Vel :
          Abstract!Stage(ids, [e \in ids |-> [pose |-> q, vel |-> BodyFrame[q][w], joint |-> Abstract!Staged(e).joint]])
    BY <1>0, <2>5, Zenon DEF Abstract!Stage
  <2> QED
    BY <2>6, Zenon DEF Abstract!StageRows
<1> QED
  BY <1>1, <1>2, <1>3, <1>4, <1>5, Zenon DEF WriteRows

LEMMA WriteFieldsRefines ==
  ASSUME Inv, WriteFields
  PROVE  \E f \in Field, ids \in SUBSET Env, cols \in SUBSET Col, x \in Val :
           Abstract!StageField(f, ids, cols, x)
<1>1. PICK f \in Field, ids \in SUBSET Env, cols \in SUBSET Col, x \in DrawnVal : WriteSelected(f, ids, cols, x)
  BY FieldWrite, Zenon
<1> USE DEF WriteSelected, Writing, simvars
<1>2. x \in Val
  OBVIOUS
<1>3. /\ active /\ ids \subseteq scope
      /\ UNCHANGED <<scope, active, sim, simField, simMocap>>
  BY <1>1
<1>4. [e \in dirty' |-> rows'[e]]
      = Abstract!Override([e \in dirty |-> rows[e]], [e \in ids |-> Abstract!Staged(e)])
  <2>1. dirty' = dirty \cup ids
    BY <1>1
  <2>2. \A e \in ids : rows'[e] = Abstract!Staged(e)
    BY <1>1, StagedRow DEF PrepareStateWrite
  <2>3. \A e \in dirty : e \notin ids => rows'[e] = rows[e]
    BY <1>1 DEF PrepareStateWrite, Inv, TypeOK
  <2> QED
    BY <2>1, <2>2, <2>3 DEF Abstract!Override
<1> DEFINE old == [g \in Field |-> [e \in fieldDirty[g] |-> values[g][e]]]
           row(e) == [c \in Col |-> IF c \in cols THEN x ELSE Abstract!StagedField(f, e)[c]]
<1>5. [g \in Field |-> [e \in fieldDirty'[g] |-> values'[g][e]]]
      = [old EXCEPT ![f] = Abstract!Override(old[f], [e \in ids |-> row(e)])]
  <2>1. /\ fieldDirty'[f] = fieldDirty[f] \cup ids
        /\ \A g \in Field : g # f => fieldDirty'[g] = fieldDirty[g] /\ values'[g] = values[g]
    BY <1>1 DEF Inv, TypeOK
  <2>2. ASSUME NEW e \in ids PROVE values'[f][e] = row(e)
    <3>1. Abstract!StagedField(f, e) = PreparedField(f, e)
      BY DEF Inv, TypeOK, Abstract!StagedField, PreparedField
    <3> QED
      BY <1>1, <3>1 DEF Inv, TypeOK
  <2>3. \A e \in fieldDirty[f] : e \notin ids => values'[f][e] = values[f][e]
    BY <1>1 DEF Inv, TypeOK
  <2>4. [e \in fieldDirty'[f] |-> values'[f][e]] = Abstract!Override(old[f], [e \in ids |-> row(e)])
    <3> HIDE DEF row
    <3> QED
      BY <2>1, <2>2, <2>3 DEF Abstract!Override
  <2> HIDE DEF row
  <2> QED
    BY <2>1, <2>4
<1>6. [e \in mocapMask' |-> mocapRows'[e]] = [e \in mocapMask |-> mocapRows[e]]
  BY <1>1
<1>7. Abstract!StageField(f, ids, cols, x)
  BY <1>3, <1>4, <1>5, <1>6 DEF Abstract!StageField
<1> QED
  BY <1>2, <1>7

LEMMA MocapRefines ==
  ASSUME Inv, NEW ids \in SUBSET Env, NEW q \in DrawnPose, WriteMocapPose(ids, q)
  PROVE  Abstract!StageMocap(ids, q)
<1> USE DEF WriteMocapPose, Writing, simvars
<1>1. [e \in mocapMask' |-> mocapRows'[e]]
      = Abstract!Override([e \in mocapMask |-> mocapRows[e]], [e \in ids |-> q])
  BY DEF Abstract!Override, Inv, TypeOK
<1>2. /\ [e \in dirty' |-> rows'[e]] = [e \in dirty |-> rows[e]]
      /\ [g \in Field |-> [e \in fieldDirty'[g] |-> values'[g][e]]] = [g \in Field |-> [e \in fieldDirty[g] |-> values[g][e]]]
  OBVIOUS
<1> QED
  BY <1>1, <1>2 DEF Abstract!StageMocap

LEMMA BeginRefines == ASSUME Inv, NEW ids \in SUBSET Env, Begin(ids) PROVE Abstract!Open(ids)
<1>1. ~active /\ dirty = {} /\ mocapMask = {} /\ fieldDirty = [f \in Field |-> {}]
  BY DEF Begin, Inv, TypeOK, StagingSound, MasksNest
<1> QED
  BY <1>1 DEF Begin, bufvars, cachevars, simvars, Abstract!Open

\* Reading a staged pose, and binding a field, stage nothing.
LEMMA StutteringRefines ==
  ASSUME Inv, (\E ids \in SUBSET Env : ReadRootPose(ids)) \/ BindTerms \/ BindActuatorGain \/ UNCHANGED vars
  PROVE  UNCHANGED Abstract!avars
<1>1. UNCHANGED <<active, scope, dirty, fieldDirty, values, mocapMask, mocapRows, sim, simField, simMocap>>
  BY DEF ReadRootPose, Writing, BindTerms, BindActuatorGain, vars, txvars, bufvars, cachevars, simvars
<1>2. \A e \in dirty : rows'[e] = rows[e]
  BY DEF ReadRootPose, PrepareStateWrite, PreparedRow, BindTerms, BindActuatorGain, vars, bufvars, Inv, TypeOK
<1> QED
  BY <1>1, <1>2 DEF Abstract!avars

LEMMA CloseRefines == ASSUME active, Finish PROVE Abstract!Close
<1>1. /\ [e \in dirty' |-> rows'[e]] = Abstract!Nothing
      /\ [f \in Field |-> [e \in fieldDirty'[f] |-> values'[f][e]]] = [f \in Field |-> Abstract!Nothing]
      /\ [e \in mocapMask' |-> mocapRows'[e]] = Abstract!Nothing
  BY DEF Finish, Abstract!Nothing
<1> QED
  BY <1>1 DEF Finish, Abstract!Close

\* The dense payload, completed from the cache, changes exactly the staged rows.
LEMMA ApplyRefines == ASSUME Inv, SparseRowsCovered, SetState PROVE Abstract!Apply
<1>1. sim' = [e \in Env |-> IF e \in DOMAIN [d \in dirty |-> rows[d]] THEN [d \in dirty |-> rows[d]][e] ELSE sim[e]]
  BY DEF SetState
<1> DEFINE staged == [f \in Field |-> [e \in fieldDirty[f] |-> values[f][e]]]
<1>2. ASSUME NEW f \in Field, NEW e \in Env
      PROVE  (IF InPayload(f) /\ e \in dirty THEN Payload(f)[e] ELSE simField[f][e])
             = IF e \in DOMAIN staged[f] THEN staged[f][e] ELSE simField[f][e]
  <2>1. fieldDirty[f] \subseteq dirty
    BY DEF Inv, StagingSound, MasksNest
  <2>2. CASE e \in fieldDirty[f]
    <3>1. InPayload(f) /\ e \in dirty
      BY <2>1, <2>2 DEF InPayload
    <3> QED
      BY <2>2, <3>1, PayloadOfRow
  <2>3. CASE e \notin fieldDirty[f]
    BY <2>3, PayloadOfRow
  <2> QED
    BY <2>2, <2>3
<1>3. simField' = [f \in Field |-> [e \in Env |-> IF e \in DOMAIN staged[f] THEN staged[f][e] ELSE simField[f][e]]]
  <2> HIDE DEF staged
  <2> QED
    BY <1>2 DEF SetState
<1> QED
  BY <1>1, <1>3 DEF Abstract!Apply

LEMMA ApplyMocapRefines == ASSUME CommitMocapPoses PROVE Abstract!ApplyMocap
  BY DEF CommitMocapPoses, Abstract!ApplyMocap

LEMMA EndingRefines ==
  ASSUME Inv, Commit \/ CommitMocapFails \/ CommitMocapOnly \/ CommitRefused \/ SetStateFails
  PROVE  Abstract!Commit \/ Abstract!CommitWithoutMocap \/ Abstract!Drop
<1>1. Abstract!Close
  BY CloseRefines DEF Commit, CommitMocapFails, CommitMocapOnly, CommitRefused, SetStateFails, Ending
<1>2. ASSUME Commit PROVE Abstract!Commit
  BY <1>1, <1>2, ApplyRefines, ApplyMocapRefines DEF Commit, Abstract!Commit
<1>3. ASSUME CommitMocapFails PROVE Abstract!CommitWithoutMocap
  BY <1>1, <1>3, ApplyRefines DEF CommitMocapFails, Abstract!CommitWithoutMocap
<1>4. ASSUME CommitMocapOnly PROVE Abstract!Commit
  <2>1. \A f \in Field : fieldDirty[f] = {}
    BY <1>4 DEF CommitMocapOnly, Inv, StagingSound, MasksNest
  <2>2. Abstract!Apply
    BY <1>4, <2>1 DEF CommitMocapOnly, Abstract!Apply, Inv, TypeOK
  <2>3. Abstract!ApplyMocap
    BY <1>4, ApplyMocapRefines DEF CommitMocapOnly
  <2> QED
    BY <1>1, <2>2, <2>3 DEF Abstract!Commit
<1>5. ASSUME CommitRefused \/ SetStateFails PROVE Abstract!Drop
  BY <1>1, <1>5 DEF CommitRefused, SetStateFails, Abstract!Drop, simvars, Abstract!simvars
<1> QED
  BY <1>2, <1>3, <1>4, <1>5

LEMMA DropRefines == ASSUME DropScope PROVE Abstract!Drop
<1>1. Abort
  BY Zenon DEF DropScope, RefuseValues, RefuseIds
<1> QED
  BY <1>1, CloseRefines DEF Abort, simvars, Abstract!Drop, Abstract!simvars

LEMMA PhysicsRefines == ASSUME Physics PROVE Abstract!Physics
  BY DEF Physics, Abstract!Physics, txvars, bufvars

\* The transaction of reset_state.py implements AtomicReset: what a scope stages is
\* a partial function over its own rows, whatever its scratch buffers, masks and
\* caches held before, and it reaches the simulator whole or not at all.
THEOREM ResetIsAtomic == Spec => ImplementsAtomicReset
<1>1. Init => Abstract!Init
  BY InitRefines
<1>2. Inv /\ [Next]_vars => [Abstract!Next]_Abstract!avars
  <2> SUFFICES ASSUME Inv, [Next]_vars
               PROVE  Abstract!Next \/ UNCHANGED Abstract!avars
    OBVIOUS
  <2>1. ASSUME WriteRows PROVE Abstract!Next
    BY <2>1, WriteRowsRefines, Zenon DEF Abstract!Next
  <2>2. ASSUME WriteFields PROVE Abstract!Next
    BY <2>2, WriteFieldsRefines, Zenon DEF Abstract!Next
  <2>3. ASSUME NEW ids \in SUBSET Env, NEW q \in DrawnPose, WriteMocapPose(ids, q) PROVE Abstract!Next
    <3>1. q \in Pose /\ Abstract!StageMocap(ids, q)
      BY <2>3, MocapRefines
    <3> QED
      BY <3>1, Zenon DEF Abstract!Next
  <2>4. ASSUME NEW ids \in SUBSET Env, Begin(ids) PROVE Abstract!Next
    BY <2>4, BeginRefines, Zenon DEF Abstract!Next
  <2>5. ASSUME Commit \/ CommitMocapFails \/ CommitMocapOnly \/ CommitRefused \/ SetStateFails
        PROVE  Abstract!Next
    BY <2>5, EndingRefines, Zenon DEF Abstract!Next
  <2>6. ASSUME DropScope \/ Physics PROVE Abstract!Next
    BY <2>6, DropRefines, PhysicsRefines, Zenon DEF Abstract!Next
  <2>7. ASSUME (\E ids \in SUBSET Env : ReadRootPose(ids)) \/ BindTerms \/ BindActuatorGain \/ UNCHANGED vars
        PROVE  UNCHANGED Abstract!avars
    BY <2>7, StutteringRefines, Zenon
  <2> QED
    BY <2>1, <2>2, <2>3, <2>4, <2>5, <2>6, <2>7, Steps, Zenon
<1>3. Inv /\ [Next]_vars => Inv'
  BY Inv_Inductive
<1> QED
  BY InitHolds, <1>1, <1>2, <1>3, PTL DEF Spec, ImplementsAtomicReset, Abstract!Spec
=============================================================================
