----------------------------- MODULE WeightSync -----------------------------
(***************************************************************************)
(* SharedWeightSync, one per network: parameters in shared memory with a   *)
(* version number behind them.  The learner writes the parameters one by   *)
(* one and then bumps the version; the collector copies them into its own  *)
(* network when the version is larger than the one it remembers.  The      *)
(* collector attaches without the lock, so nothing orders the two copies.  *)
(*                                                                         *)
(* A parameter holds the version of the update that wrote it.  The module  *)
(* has the steps of the two sides; AppoPipeline says when each is taken.   *)
(***************************************************************************)
EXTENDS Naturals

CONSTANT Params    \* number of parameters of a network

VARIABLES
  shared,    \* the shared buffer of each network
  version,   \* _version_arr[0]
  writing,   \* 0, or the parameter to write next; Params + 1: the version
  held,      \* the parameters of the collector's network
  local,     \* local_actor_weight_version, local_critic_weight_version
  reading    \* 0, or the parameter to read next; Params + 1: the version

writeVars == <<shared, version, writing>>
readVars  == <<held, local, reading>>

Nets  == {"actor", "critic"}
Names == 1 .. Params

\* from_state_dict has written once; the collector's networks are still their own.
Init ==
  /\ shared  = [m \in Nets |-> [n \in Names |-> 1]]
  /\ version = [m \in Nets |-> 1]
  /\ writing = [m \in Nets |-> 0]
  /\ held    = [m \in Nets |-> [n \in Names |-> 0]]
  /\ local   = [m \in Nets |-> 0]
  /\ reading = [m \in Nets |-> 0]

BeginWrite(m) ==
  /\ writing[m] = 0
  /\ writing' = [writing EXCEPT ![m] = 1]
  /\ UNCHANGED <<shared, version, readVars>>

WriteParam(m) ==
  /\ writing[m] \in Names
  /\ shared' = [shared EXCEPT ![m][writing[m]] = version[m] + 1]
  /\ writing' = [writing EXCEPT ![m] = @ + 1]
  /\ UNCHANGED <<version, readVars>>

BumpVersion(m) ==
  /\ writing[m] = Params + 1
  /\ version' = [version EXCEPT ![m] = @ + 1]
  /\ writing' = [writing EXCEPT ![m] = 0]
  /\ UNCHANGED <<shared, readVars>>

Newer(m) == version[m] > local[m]

BeginRead(m) ==
  /\ reading[m] = 0
  /\ reading' = [reading EXCEPT ![m] = 1]
  /\ UNCHANGED <<writeVars, held, local>>

ReadParam(m) ==
  /\ reading[m] \in Names
  /\ held' = [held EXCEPT ![m][reading[m]] = shared[m][reading[m]]]
  /\ reading' = [reading EXCEPT ![m] = @ + 1]
  /\ UNCHANGED <<writeVars, local>>

\* The version is read after the parameters.  The initial load drops what
\* read_weights_into returns and looks at the version once more: the same step,
\* later.
ReadVersion(m) ==
  /\ reading[m] = Params + 1
  /\ local' = [local EXCEPT ![m] = version[m]]
  /\ reading' = [reading EXCEPT ![m] = 0]
  /\ UNCHANGED <<writeVars, held>>

\* Every variable has the type its declaration gives it.
TypeOK ==
  /\ shared \in [Nets -> [Names -> Nat]] /\ version \in [Nets -> Nat]
  /\ held \in [Nets -> [Names -> Nat]]   /\ local \in [Nets -> Nat]
  /\ writing \in [Nets -> 0 .. Params + 1] /\ reading \in [Nets -> 0 .. Params + 1]
=============================================================================
