----------------------------- MODULE MCProjects -----------------------------
(***************************************************************************)
(* Two projects edited in two tabs: one narrative field, one other, two    *)
(* values each, for TLC.                                                   *)
(***************************************************************************)
EXTENDS Projects, TLC

CONSTANTS MaxStamp   \* bound on the clock and on updated_at

MCTimes == 0 .. MaxStamp

Symmetry == Permutations(Projects) \cup Permutations(Tabs)

\* Bound: a save at MaxStamp is as far as a run goes.
WithinBound == \A p \in Projects : project[p] # NoProject => project[p].stamp <= MaxStamp
=============================================================================
