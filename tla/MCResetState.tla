---------------------------- MODULE MCResetState ----------------------------
(* Two rows, one field of each family, two columns that an entity names in  *)
(* the other order, and a two-element group of orientations.                *)
EXTENDS ResetState, TLC

MCColumnOf == [l \in Local |-> CHOOSE c \in Col : c = 3 - l]
MCDefaultRow == [pose |-> 0, vel |-> 0, joint |-> 0]
MCSymmetry == Permutations(Env)
MCMovedRow == [pose |-> 1, vel |-> 1, joint |-> 0]
MCDefaultField == [f \in Field |-> [e \in Env |-> [c \in Col |-> 0]]]
MCBodyFrame == [q \in Pose |-> [w \in Vel |-> (w + q) % 2]]
=============================================================================
