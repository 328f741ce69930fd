--------------------------- MODULE LockstepService ---------------------------
(***************************************************************************)
(* What the multi-source service promises its single caller: every call    *)
(* takes effect on all the sources it names at once and exactly once, or   *)
(* the service is poisoned and shows nothing new ever again.               *)
(***************************************************************************)
EXTENDS Naturals

CONSTANT Sources

VARIABLES
  open,     \* the service has not been closed, by its owner or by a failure
  ready,    \* a first aggregate state exists
  world,    \* how often each source has moved, as the caller sees it
  probe     \* a probe episode is in progress

vars == <<open, ready, world, probe>>

Init ==
  /\ open = TRUE /\ ready = FALSE /\ probe = FALSE
  /\ world = [s \in Sources |-> 0]

Moved(S) == world' = [s \in Sources |-> IF s \in S THEN world[s] + 1 ELSE world[s]]

Start ==
  /\ open /\ ~ready
  /\ ready' = TRUE /\ Moved(Sources)
  /\ UNCHANGED <<open, probe>>

Advance(S) ==
  /\ open /\ ready
  /\ Moved(S)
  /\ UNCHANGED <<open, ready, probe>>

StartProbe ==
  /\ open /\ ready /\ ~probe
  /\ probe' = TRUE /\ Moved(Sources)
  /\ UNCHANGED <<open, ready>>

EndProbe ==
  /\ open /\ ready /\ probe
  /\ probe' = FALSE /\ Moved(Sources)
  /\ UNCHANGED <<open, ready>>

Poison ==
  /\ open' = FALSE
  /\ UNCHANGED <<ready, world, probe>>

Next == Start \/ (\E S \in SUBSET Sources : Advance(S)) \/ StartProbe \/ EndProbe \/ Poison

Spec == Init /\ [][Next]_vars
=============================================================================
