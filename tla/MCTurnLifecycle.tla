-------------------------- MODULE MCTurnLifecycle --------------------------
(***************************************************************************)
(* Instances of TurnLifecycle for TLC.                                     *)
(***************************************************************************)
EXTENDS TurnLifecycle, TLC

CONSTANTS g1, g2

(* "Resume interrupted work: fix tests" mentions "fix": a commitment for   *)
(* g2 is dropped by a turn for g1, not the other way round.                *)
MentionsOneWay == {<<g1, g1>>, <<g2, g2>>, <<g2, g1>>}
MentionsSelf   == {<<g1, g1>>}

Symmetry == Permutations(Thread) \cup Permutations(Turn)

=============================================================================
