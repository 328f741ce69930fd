----------------------------- MODULE AtomicReset -----------------------------
(***************************************************************************)
(* What ResetStateTransaction promises the terms of a reset: a scope over  *)
(* some environment rows in which writes are collected on top of the       *)
(* simulator's defaults, and which ends by handing every collected row to  *)
(* the simulator at once, or by dropping them all.  A row nobody wrote     *)
(* keeps its state; a model field nobody wrote for a row keeps the value   *)
(* the simulator has.  No masks, no scratch buffers, no caches: what is    *)
(* staged is a partial function.                                           *)
(***************************************************************************)
EXTENDS Naturals

CONSTANTS Env, Field, Col, Val, Pose, Vel,
          DefaultRow,    \* the default generalized state
          DefaultField,  \* [Field -> [Env -> [Col -> Val]]]
          BodyFrame,     \* [Pose -> [Vel -> Vel]]: a world velocity in body coordinates
          MovedRow       \* the state of a row after a physics step

VARIABLES scope,        \* the rows of the open scope, {} between scopes
          open,
          staged,       \* partial: Env -> state row
          stagedField,  \* per field, partial: Env -> [Col -> Val]
          stagedMocap,  \* partial: Env -> Pose
          sim, simField, simMocap

avars == <<scope, open, staged, stagedField, stagedMocap, sim, simField, simMocap>>

\* A partial function overridden by another one.
Override(f, g) == [e \in (DOMAIN f) \cup (DOMAIN g) |-> IF e \in DOMAIN g THEN g[e] ELSE f[e]]

Nothing == [e \in {} |-> e]

Staged(e) == IF e \in DOMAIN staged THEN staged[e] ELSE DefaultRow
StagedField(f, e) == IF e \in DOMAIN stagedField[f] THEN stagedField[f][e] ELSE DefaultField[f][e]

Init ==
    /\ scope = {} /\ open = FALSE
    /\ staged = Nothing /\ stagedField = [f \in Field |-> Nothing] /\ stagedMocap = Nothing
    /\ sim = [e \in Env |-> DefaultRow]
    /\ simField = DefaultField
    /\ simMocap = [e \in Env |-> DefaultRow.pose]

simvars == <<sim, simField, simMocap>>

Open(ids) ==
    /\ ~open /\ open' = TRUE /\ scope' = ids
    /\ UNCHANGED <<staged, stagedField, stagedMocap, sim, simField, simMocap>>

\* Rows take a new generalized state computed from what is staged for them.
Stage(ids, new) ==
    /\ open /\ ids \subseteq scope
    /\ staged' = Override(staged, [e \in ids |-> new[e]])
    /\ UNCHANGED <<scope, open, stagedField, stagedMocap, sim, simField, simMocap>>

StageRows(ids) ==
    \/ Stage(ids, [e \in ids |-> DefaultRow])
    \/ \E x \in Val : Stage(ids, [e \in ids |-> [Staged(e) EXCEPT !.joint = x]])
    \/ \E q \in Pose : Stage(ids, [e \in ids |-> [Staged(e) EXCEPT !.pose = q]])
    \/ \E w \in Vel : Stage(ids, [e \in ids |-> [Staged(e) EXCEPT !.vel = BodyFrame[Staged(e).pose][w]]])
    \/ \E q \in Pose, w \in Vel :
         Stage(ids, [e \in ids |-> [pose |-> q, vel |-> BodyFrame[q][w], joint |-> Staged(e).joint]])

\* A model field takes values in some columns; a row's other columns keep what
\* is staged for them.  The row's state is staged with it.
StageField(f, ids, cols, x) ==
    /\ open /\ ids \subseteq scope
    /\ staged' = Override(staged, [e \in ids |-> Staged(e)])
    /\ stagedField' = [stagedField EXCEPT ![f] =
                         Override(stagedField[f],
                                  [e \in ids |-> [c \in Col |-> IF c \in cols THEN x ELSE StagedField(f, e)[c]]])]
    /\ UNCHANGED <<scope, open, stagedMocap, sim, simField, simMocap>>

StageMocap(ids, q) ==
    /\ open /\ ids \subseteq scope
    /\ stagedMocap' = Override(stagedMocap, [e \in ids |-> q])
    /\ UNCHANGED <<scope, open, staged, stagedField, sim, simField, simMocap>>

Close ==
    /\ open /\ open' = FALSE /\ scope' = {}
    /\ staged' = Nothing /\ stagedField' = [f \in Field |-> Nothing] /\ stagedMocap' = Nothing

Apply ==
    /\ sim' = [e \in Env |-> IF e \in DOMAIN staged THEN staged[e] ELSE sim[e]]
    /\ simField' = [f \in Field |-> [e \in Env |->
                      IF e \in DOMAIN stagedField[f] THEN stagedField[f][e] ELSE simField[f][e]]]

ApplyMocap == simMocap' = [e \in Env |-> IF e \in DOMAIN stagedMocap THEN stagedMocap[e] ELSE simMocap[e]]

Commit == Close /\ Apply /\ ApplyMocap
\* The simulator took the state and refused the mocap poses that follow it.
CommitWithoutMocap == Close /\ Apply /\ UNCHANGED simMocap
Drop == Close /\ UNCHANGED simvars

Physics ==
    /\ ~open
    /\ sim' = [e \in Env |-> MovedRow]
    /\ UNCHANGED <<scope, open, staged, stagedField, stagedMocap, simField, simMocap>>

Next ==
    \/ \E ids \in SUBSET Env : Open(ids) \/ StageRows(ids) \/ \E q \in Pose : StageMocap(ids, q)
    \/ \E f \in Field, ids \in SUBSET Env, cols \in SUBSET Col, x \in Val : StageField(f, ids, cols, x)
    \/ Commit \/ CommitWithoutMocap \/ Drop \/ Physics

Spec == Init /\ [][Next]_avars
=============================================================================
