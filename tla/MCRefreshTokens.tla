-------------------------- MODULE MCRefreshTokens ---------------------------
(***************************************************************************)
(* Two users, the first with two devices, and three token names, for TLC.  *)
(***************************************************************************)
EXTENDS RefreshTokens, TLC, FiniteSets

CONSTANTS ann, eve, phone, laptop, desk

MCOwnerOf == phone :> ann @@ laptop :> ann @@ desk :> eve

Symmetry == Permutations(Tokens)

\* Bound: one request and one answer under way at a time.
FewMessages == Cardinality(requests) <= 1 /\ Cardinality(answers) <= 1

\* Bound: eve's account stays active.
EveStays == status[eve] = "active"

MCBound == FewMessages /\ EveStays

\* alarms never guards a step and properties read it only where it was written.
WithoutAlarms == <<token, status, held, requests, answers>>
=============================================================================
