------------------------- MODULE MC_RLPxHandshake -------------------------
(* Model-checking instance of RLPxHandshake: three nodes, two of which     *)
(* are the ends of the connection, and the third a node the initiator may  *)
(* dial by mistake or whose identity it may claim.                         *)
EXTENDS RLPxHandshake, TLC

CONSTANTS A, B, M

MCNodes == {A, B, M}

(* Node identities are only compared for equality. *)
NodeSymmetry == Permutations(MCNodes)

(* The same reduction for runs with liveness, where TLC's SYMMETRY is not  *)
(* sound: the two ends run on distinct nodes, and some permutation of      *)
(* MCNodes maps any such pair to B dialling out and A listening, so fixing *)
(* them loses no behaviour up to renaming; dial and claim stay free.       *)
MCInit == Init /\ node = [r \in Roles |-> IF r = "ini" THEN B ELSE A]

MCSpec == MCInit /\ [][Next]_vars /\ Fairness

=============================================================================
