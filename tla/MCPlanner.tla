----------------------------- MODULE MCPlanner ------------------------------
(***************************************************************************)
(* Instances of Planner for TLC.                                           *)
(***************************************************************************)
EXTENDS Planner, TLC

CONSTANTS b1, b2, s1, s2, p1, p2, q1, q2

Interchangeable ==
  Permutations(Bodies) \union Permutations(Services) \union Permutations(Planners)
    \union Permutations(Replays)

=============================================================================
