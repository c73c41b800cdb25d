------------------------------ MODULE MCLedger ------------------------------
(***************************************************************************)
(* A small ledger for TLC: two admins and one employee, two claimants with *)
(* one project between them, two fiscal periods over three dates.          *)
(***************************************************************************)
EXTENDS Ledger, TLC

CONSTANTS ann, bob, eve, c1, c2, p1

MCUsers == {ann, bob, eve}
MCClaimants == {c1, c2}
MCClaimantOf == p1 :> c1
MCDates == 1..3

Symmetry == Permutations(Periods) \cup Permutations(LabourIds)

\* Bound, as an action constraint: only the cast is created, and from then on
\* only bob's role and eve's attachment to c1 change.  Every account state is
\* the subject of MCAccounts.
Casting ==
    /\ role[ann] = "admin"
    /\ role[eve] = "employee"
    /\ role[bob] # "manager"
    /\ \A u \in Users : ustatus[u] # "disabled"
    /\ \A u \in {ann, bob}, c \in Claimants : att[u][c] = "none"
    /\ ustatus[eve] # "absent" => att[eve][c1] # "none" /\ att[eve][c2] = "active"

Cast == Casting /\ ustatus = [u \in Users |-> "active"]

\* Bound: the claimant of the project has the periods 1-2 and 2-3, which
\* overlap on date 2; the other claimant has 1-3.
Shapes == \A p \in Periods : period[p] # NoRow =>
            IF period[p].claimant = c1 THEN period[p].end = period[p].start + 1
                                       ELSE period[p].end = 3 /\ period[p].start = 1

\* Bound: a labour entry and an expense do not exist at the same time; no
\* handler looks at one to decide about the other.
OneTable == \/ \A e \in LabourIds : entry[e] = NoRow
            \/ \A e \in ExpenseIds : entry[e] = NoRow

CastBound == /\ Casting'
             /\ OneTable'
             /\ (\E p \in Periods : period'[p] # NoRow) => Cast' /\ Shapes'

\* trail never guards a step and properties read it only where it was written,
\* so states that differ in it alone are the same state.
WithoutTrail == <<role, ustatus, att, marker, period, entry>>
=============================================================================
