----------------------------- MODULE MCEvidence -----------------------------
(***************************************************************************)
(* One admin and one employee, one claimant with two overlapping fiscal    *)
(* periods, one labour entry, one evidence item at a time and two file     *)
(* names, for TLC.                                                         *)
(***************************************************************************)
EXTENDS Evidence, TLC

CONSTANTS ann, eve, c1, p1, p2

MCClaimantOf == [p \in Projects |-> c1]
MCDates == 1..3

Symmetry == Permutations(Periods) \cup Permutations(Items) \cup Permutations(Files)

\* Bound, as an action constraint: ann, an admin, and eve, an employee of c1, are
\* enrolled first and stay as they are.
Casting ==
    /\ role = [u \in Users |-> IF u = ann THEN "admin" ELSE "employee"]
    /\ \A u \in Users : ustatus[u] # "disabled"
    /\ att[ann][c1] = "none"
    /\ att[eve][c1] = IF ustatus[eve] = "absent" THEN "none" ELSE "active"

Cast == Casting /\ ustatus = [u \in Users |-> "active"]

\* Bound: the periods are 1-2 and 2-3.
Shapes == \A p \in Periods : period[p] # NoRow => period[p].end = period[p].start + 1

\* Bound: a note goes the way of a link.
NoNotes == \A q \in Requests : live(q) => req[q].kind # "note"

\* Bound: only eve's entries, not reviewed; reviews are the ledger's subject.
NoReviews == \A e \in EntryIds : entry[e] # NoRow => entry[e].status = "pending"

CastBound == /\ Casting'
             /\ NoNotes'
             /\ NoReviews'
             /\ (\E p \in Periods : period'[p] # NoRow) => Cast' /\ Shapes'
             /\ (\E q \in Requests : live(q)') => Cast'

\* The trails never guard a step and properties read them only where they were
\* written, so states that differ in them alone are the same state.
WithoutTrails == <<role, ustatus, att, marker, period, entry, evidenceVars>>
=============================================================================
