------------------------------- MODULE MCRuns -------------------------------
(* Instances of Runs for TLC. *)
EXTENDS Runs, TLC

CONSTANTS r1, r2, r3, t1, t2, g1, g2, g3

AskTurns == {<<"ask">>}
WorkTurns == {<<"ask">>, <<"delegate">>}
MixedTurns == {<<"ask">>, <<"delegate">>, <<"plain", "ask">>}

Symmetry == Permutations(Runs) \cup Permutations(Tickets) \cup Permutations(Procs)
=============================================================================
