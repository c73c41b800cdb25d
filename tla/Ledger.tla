------------------------------- MODULE Ledger -------------------------------
(***************************************************************************)
(* Fiscal periods and the entries booked into them: labour_entries and     *)
(* expenses, with the review cycle pending / approved / rejected.          *)
(* Handlers of routes/labour.js, routes/expenses.js, routes/periods.js and *)
(* routes/claimants.js, over the accounts of module Accounts.  Every       *)
(* handler here runs to completion without an await: one action each.      *)
(*                                                                         *)
(* The two entry tables share their life cycle (the helpers of             *)
(* lib/route-helpers.js), so they are one function over disjoint sets of   *)
(* ids; the handlers stay separate, as they are in the code.  hours,       *)
(* description, amounts and categories are one opaque "body"; the rules    *)
(* that relate an expense's fields to each other are left out.             *)
(***************************************************************************)
EXTENDS Accounts

CONSTANTS Projects,
          ClaimantOf,           \* projects.claimant_id, fixed at creation
          Periods, Dates, Bodies,
          LabourIds, ExpenseIds,
          NoRow, NoUser

VARIABLES period,   \* fiscal_periods
          entry,    \* labour_entries and expenses
          trail     \* the audit_log rows the latest handler here wrote

vars == <<role, ustatus, att, marker, period, entry, trail>>

EntryIds == LabourIds \cup ExpenseIds

PeriodRow == [claimant: Claimants, start: Dates, end: Dates,
              status: {"open", "closed"}]

EntryRow == [project: Projects,
             user: Users, claimant: Claimants,    \* the user_claimant
             period: Periods, date: Dates, body: Bodies,
             status: {"pending", "approved", "rejected"},
             reviewer: Users \cup {NoUser},
             reason: {"none", "given"}]           \* rejection_reason

AuditRow == [actor: Users,
             action: {"create", "update", "delete", "approve", "reject",
                      "close_period", "reopen_period"},
             entity: EntryIds \cup Periods]

ASSUME LedgerAssumption ==
    /\ ClaimantOf \in [Projects -> Claimants]
    /\ Dates \subseteq Nat
    /\ LabourIds \cap ExpenseIds = {}
    /\ Periods \cap EntryIds = {}         \* an audit row names the table too
    /\ NoUser \notin Users
    /\ NoRow \notin EntryRow \cup PeriodRow

TypeOK ==
    /\ AccountsTypeOK
    /\ period \in [Periods -> PeriodRow \cup {NoRow}]
    /\ entry \in [EntryIds -> EntryRow \cup {NoRow}]
    /\ trail \subseteq AuditRow

Init ==
    /\ AccountsInit
    /\ period = [p \in Periods |-> NoRow]
    /\ entry = [e \in EntryIds |-> NoRow]
    /\ trail = {}

-----------------------------------------------------------------------------
(* Helpers of lib/route-helpers.js and lib/audit.js. *)

audit(a, action, entities) ==
    trail' = {[actor |-> a, action |-> action, entity |-> e] : e \in entities}

\* (Names ending in a dropped check or a forgotten write, like the next two, are
\* the mistakes the properties below are there to catch; Spec uses none.)
findOpenPeriod_AnyStatus(c, d) ==
    {p \in Periods : /\ period[p] # NoRow
                     /\ period[p].claimant = c
                     /\ period[p].start <= d
                     /\ d <= period[p].end}

findOpenPeriod_NoneIsNull(c, d) ==
    LET open == {p \in findOpenPeriod_AnyStatus(c, d) : period[p].status = "open"}
    IN IF open = {} THEN {NoRow} ELSE open

\* The open periods of claimant c that cover d.  The query has LIMIT 1 and no
\* ORDER BY, and periods may overlap: the caller gets any one of these.
findOpenPeriod(c, d) ==
    {p \in Periods : /\ period[p] # NoRow
                     /\ period[p].claimant = c
                     /\ period[p].status = "open"
                     /\ period[p].start <= d
                     /\ d <= period[p].end}

\* The user_claimant <<u, c>> a new entry on project pr may be booked under.
resolveUserClaimant(a, pr, u, c) ==
    /\ att[u][c] = "active"
    /\ c = ClaimantOf[pr]
    /\ role[a] = "admin" \/ u = a

isOwnerOrAdmin_IgnoreAttachment(a, r) == role[a] = "admin" \/ r.user = a

isOwnerOrAdmin(a, r) ==
    \/ role[a] = "admin"
    \/ r.user = a /\ att[r.user][r.claimant] = "active"

selfApproved(a, r) ==
    r.status = "approved" /\ role[a] = "admin" /\ r.reviewer = a

assertEditable_IgnorePeriod(a, r) == r.status = "approved" => selfApproved(a, r)

assertEditable(a, r) ==
    /\ r.status = "approved" => selfApproved(a, r)
    /\ period[r.period] # NoRow
    /\ period[r.period].status # "closed"

\* An entry logged by an admin is approved by that admin from the start.
initialReview(a, r) ==
    [r EXCEPT !.status = IF role[a] = "admin" THEN "approved" ELSE "pending",
              !.reviewer = IF role[a] = "admin" THEN a ELSE NoUser]

clearReview_RejectedOnly(a, r) ==
    IF r.status = "rejected"
      THEN [r EXCEPT !.status = "pending", !.reviewer = NoUser, !.reason = "none"]
      ELSE r

\* An edit sends a rejected entry, or one's own approved entry, back to review.
clearReview(a, r) ==
    IF r.status = "rejected" \/ selfApproved(a, r)
      THEN [r EXCEPT !.status = "pending", !.reviewer = NoUser, !.reason = "none"]
      ELSE r

approved_KeepReason(a, r) == [r EXCEPT !.status = "approved", !.reviewer = a]

approved(a, r) ==
    [r EXCEPT !.status = "approved", !.reviewer = a, !.reason = "none"]

rejected(a, r) ==
    [r EXCEPT !.status = "rejected", !.reviewer = a, !.reason = "given"]

NewRow(pr, u, c, p, d, b) ==
    [project |-> pr, user |-> u, claimant |-> c, period |-> p, date |-> d,
     body |-> b, status |-> "pending", reviewer |-> NoUser, reason |-> "none"]

-----------------------------------------------------------------------------
(* The part of each handler that labour and expenses share. *)

Post(a, e, pr, u, c, d, b) ==
    /\ requireAuth(a)
    /\ entry[e] = NoRow
    /\ resolveUserClaimant(a, pr, u, c)
    /\ \E p \in findOpenPeriod(ClaimantOf[pr], d) :
         entry' = [entry EXCEPT ![e] = initialReview(a, NewRow(pr, u, c, p, d, b))]
    /\ audit(a, "create", {e})
    /\ UNCHANGED <<accountVars, period>>

rebucket_Never(r, d) == {r.period}

\* A PATCH that names the current date keeps the period without asking whether
\* it is still the one that covers it; a new date is bucketed afresh.
rebucket(r, d) ==
    IF d = r.date THEN {r.period}
                  ELSE findOpenPeriod(ClaimantOf[r.project], d)

Patch(a, e, d, b) ==
    /\ requireAuth(a)
    /\ entry[e] # NoRow
    /\ isOwnerOrAdmin(a, entry[e])
    /\ assertEditable(a, entry[e])
    /\ \E p \in rebucket(entry[e], d) :
         entry' = [entry EXCEPT ![e] =
                     [clearReview(a, entry[e]) EXCEPT !.date = d, !.body = b,
                                                      !.period = p]]
    /\ audit(a, "update", {e})
    /\ UNCHANGED <<accountVars, period>>

\* (The foreign key of evidence linked to the entry refuses the DELETE too.)
Delete(a, e) ==
    /\ requireAuth(a)
    /\ entry[e] # NoRow
    /\ isOwnerOrAdmin(a, entry[e])
    /\ assertEditable(a, entry[e])
    /\ entry' = [entry EXCEPT ![e] = NoRow]
    /\ audit(a, "delete", {e})
    /\ UNCHANGED <<accountVars, period>>

\* approve and reject look at neither the current status nor the period.
Review(a, e, action, verdict) ==
    /\ requireAdmin(a)
    /\ entry[e] # NoRow
    /\ entry' = [entry EXCEPT ![e] = verdict]
    /\ audit(a, action, {e})
    /\ UNCHANGED <<accountVars, period>>

-----------------------------------------------------------------------------
(* routes/labour.js *)

LabourPost(a, pr, u, c, d, b) ==
    \E e \in LabourIds : Post(a, e, pr, u, c, d, b)

LabourPatch(a, e, d, b) == e \in LabourIds /\ Patch(a, e, d, b)

LabourDelete(a, e) == e \in LabourIds /\ Delete(a, e)

LabourApprove(a, e) ==
    e \in LabourIds /\ Review(a, e, "approve", approved(a, entry[e]))

LabourReject(a, e) ==
    e \in LabourIds /\ Review(a, e, "reject", rejected(a, entry[e]))

BulkApprove_AuditGiven(a, ids) ==
    /\ requireAdmin(a)
    /\ ids # {}
    /\ entry' = [e \in EntryIds |-> IF e \in ids /\ entry[e] # NoRow
                                      THEN approved(a, entry[e]) ELSE entry[e]]
    /\ audit(a, "approve", ids)
    /\ UNCHANGED <<accountVars, period>>

\* Ids that name no row are skipped by the UPDATE.
BulkApprove(a, ids) ==
    /\ requireAdmin(a)
    /\ ids # {}
    /\ entry' = [e \in EntryIds |-> IF e \in ids /\ entry[e] # NoRow
                                      THEN approved(a, entry[e]) ELSE entry[e]]
    /\ audit(a, "approve", {e \in ids : entry[e] # NoRow})
    /\ UNCHANGED <<accountVars, period>>

ImportRow == [project: Projects, user: Users, claimant: Claimants,
              period: Periods, date: Dates, body: Bodies]

validateImportRow(r) ==
    /\ r.claimant = ClaimantOf[r.project]
    /\ att[r.user][r.claimant] = "active"
    /\ r.period \in findOpenPeriod(r.claimant, r.date)

\* POST /api/labour-logs/import: every row valid, then all inserted in one
\* transaction, approved by the importing admin.
Import(a, ids) ==
    /\ requireAdmin(a)
    /\ ids # {}
    /\ \A e \in ids : entry[e] = NoRow
    /\ \E rows \in [ids -> {r \in ImportRow : validateImportRow(r)}] :
         entry' = [e \in EntryIds |->
                     IF e \in ids
                       THEN LET r == rows[e] IN
                            approved(a, NewRow(r.project, r.user, r.claimant,
                                               r.period, r.date, r.body))
                       ELSE entry[e]]
    /\ audit(a, "create", ids)
    /\ UNCHANGED <<accountVars, period>>

-----------------------------------------------------------------------------
(* routes/expenses.js *)

ExpensePost(a, pr, u, c, d, b) ==
    \E e \in ExpenseIds : Post(a, e, pr, u, c, d, b)

ExpensePatch(a, e, d, b) == e \in ExpenseIds /\ Patch(a, e, d, b)

ExpenseDelete(a, e) == e \in ExpenseIds /\ Delete(a, e)

ExpenseApprove(a, e) ==
    e \in ExpenseIds /\ Review(a, e, "approve", approved(a, entry[e]))

ExpenseReject(a, e) ==
    e \in ExpenseIds /\ Review(a, e, "reject", rejected(a, entry[e]))

-----------------------------------------------------------------------------
(* routes/claimants.js and routes/periods.js *)

\* UNIQUE (claimant_id, start_date); overlapping periods are accepted.
CreatePeriod(a, p, c, s, t) ==
    /\ requireAdmin(a)
    /\ period[p] = NoRow
    /\ s < t
    /\ \A q \in Periods : period[q] # NoRow =>
                            <<period[q].claimant, period[q].start>> # <<c, s>>
    /\ period' = [period EXCEPT ![p] =
                    [claimant |-> c, start |-> s, end |-> t, status |-> "open"]]
    /\ audit(a, "create", {p})
    /\ UNCHANGED <<accountVars, entry>>

ClosePeriod(a, p) ==
    /\ requireAdmin(a)
    /\ period[p] # NoRow
    /\ period[p].status # "closed"
    /\ period' = [period EXCEPT ![p].status = "closed"]
    /\ audit(a, "close_period", {p})
    /\ UNCHANGED <<accountVars, entry>>

ReopenPeriod(a, p) ==
    /\ requireAdmin(a)
    /\ period[p] # NoRow
    /\ period[p].status # "open"
    /\ period' = [period EXCEPT ![p].status = "open"]
    /\ audit(a, "reopen_period", {p})
    /\ UNCHANGED <<accountVars, entry>>

-----------------------------------------------------------------------------
PeriodStep(a) ==
    \E p \in Periods :
       \/ \E c \in Claimants, s, t \in Dates : CreatePeriod(a, p, c, s, t)
       \/ ClosePeriod(a, p)
       \/ ReopenPeriod(a, p)

LabourStep(a) ==
    \/ \E pr \in Projects, u \in Users, c \in Claimants, d \in Dates,
          b \in Bodies : LabourPost(a, pr, u, c, d, b)
    \/ \E e \in LabourIds :
         \/ \E d \in Dates, b \in Bodies : LabourPatch(a, e, d, b)
         \/ LabourDelete(a, e)
         \/ LabourApprove(a, e)
         \/ LabourReject(a, e)
    \/ \E ids \in SUBSET LabourIds : BulkApprove(a, ids) \/ Import(a, ids)

ExpenseStep(a) ==
    \/ \E pr \in Projects, u \in Users, c \in Claimants, d \in Dates,
          b \in Bodies : ExpensePost(a, pr, u, c, d, b)
    \/ \E e \in ExpenseIds :
         \/ \E d \in Dates, b \in Bodies : ExpensePatch(a, e, d, b)
         \/ ExpenseDelete(a, e)
         \/ ExpenseApprove(a, e)
         \/ ExpenseReject(a, e)

Next ==
    \/ AccountsNext /\ UNCHANGED <<period, entry>> /\ trail' = {}
    \/ \E a \in Users : PeriodStep(a) \/ LabourStep(a) \/ ExpenseStep(a)

Spec == Init /\ [][Next]_vars

-----------------------------------------------------------------------------
(* Properties *)

\* The review columns tell one story: a pending entry has no reviewer, an
\* approved one has a reviewer and no leftover rejection reason, a rejected one
\* has both.  They are written by five different UPDATE and INSERT statements
\* per table (labour.js:62-276 and :298-373, expenses.js:178-470).
OneStory(r) ==
    /\ r.reviewer = NoUser <=> r.status = "pending"
    /\ r.reason = "given" <=> r.status = "rejected"

ReviewConsistent == \A e \in EntryIds : entry[e] # NoRow => OneStory(entry[e])

\* Bucketing: the period of an entry exists, covers its date, and belongs to
\* the claimant of its project, which is also the claimant of the attachment
\* it is booked under (findOpenPeriod, resolveUserClaimant, the re-inference in
\* PATCH and validateImportRow agree), whatever moves, closings, reopenings and
\* overlapping periods came in between.
Bucketed(r) ==
    /\ period[r.period] # NoRow
    /\ period[r.period].start <= r.date
    /\ r.date <= period[r.period].end
    /\ period[r.period].claimant = ClaimantOf[r.project]
    /\ r.claimant = ClaimantOf[r.project]
    /\ att[r.user][r.claimant] # "none"

EntriesBucketed ==
    \A e \in EntryIds : entry[e] # NoRow => Bucketed(entry[e])

\* What an entry says, apart from its review.
Content(r) == [project |-> r.project, user |-> r.user, claimant |-> r.claimant,
               date |-> r.date, body |-> r.body]

closed(p) == period[p] # NoRow /\ period[p].status = "closed"

booked(r, p) == r # NoRow /\ r.period = p

\* While a period is closed nobody adds, edits, moves in, moves out or deletes
\* an entry of it (README "Append-only for closed periods"); only its review
\* columns may change.
ClosedPeriodFrozen ==
    [][\A p \in Periods, e \in EntryIds :
         closed(p) /\ (booked(entry[e], p) \/ booked(entry'[e], p)) =>
            /\ booked(entry[e], p) /\ booked(entry'[e], p)
            /\ Content(entry'[e]) = Content(entry[e])]_vars

\* The content of an approved entry never changes while it stays approved: it is
\* edited or deleted only when its recorded reviewer is still an active admin,
\* and an edit leaves it pending with no reviewer (route-helpers.js:91-101,
\* 141-154; "the entry has to be re-approved deliberately").
ApprovedContentLocked ==
    [][\A e \in EntryIds :
         LET r == entry[e]   s == entry'[e] IN
         /\ r # NoRow
         /\ r.status = "approved"
         /\ s = NoRow \/ Content(s) # Content(r) \/ s.period # r.period
         => /\ requireAdmin(r.reviewer)
            /\ s # NoRow => s.status = "pending" /\ s.reviewer = NoUser]_vars

\* Every change to an entry leaves exactly one audit row naming it, and the row
\* tells the truth: created, deleted or edited as the action says, and an entry
\* approved or rejected names the actor as its reviewer (docs/use-cases.md:224).
Logged(e, row) ==
    LET r == entry[e]   s == entry'[e] IN
    CASE row.action = "create"  -> r = NoRow /\ s # NoRow
      [] row.action = "delete"  -> r # NoRow /\ s = NoRow
      [] row.action = "update"  -> r # NoRow /\ s # NoRow
      [] row.action = "approve" -> /\ r # NoRow /\ s # NoRow
                                   /\ s = approved(row.actor, r)
      [] row.action = "reject"  -> /\ r # NoRow /\ s # NoRow
                                   /\ s = rejected(row.actor, r)

EveryChangeLogged ==
    [][\A e \in EntryIds :
         LET rows == {row \in trail' : row.entity = e} IN
         /\ entry'[e] # entry[e] => rows # {}
         /\ \A row \in rows : rows = {row} /\ Logged(e, row)]_vars

\* Whoever is not an admin touches only entries booked under an attachment of
\* their own, never one whose attachment is inactive at that moment, and never
\* reviews: a deactivated or detached employee can no longer alter past
\* submissions (route-helpers.js:67-89).
EmployeesKeepToTheirOwn ==
    [][\A row \in trail' : row.entity \in EntryIds /\ ~requireAdmin(row.actor) =>
         LET r == IF entry[row.entity] = NoRow THEN entry'[row.entity]
                                               ELSE entry[row.entity] IN
         /\ requireAuth(row.actor)
         /\ r.user = row.actor
         /\ att[r.user][r.claimant] = "active"
         /\ entry'[row.entity] # NoRow => entry'[row.entity].status = "pending"]_vars

\* The refinement mapping: of a period only its status, of an entry only its
\* period and content are visible in the books.
lockOf == [p \in Periods |-> IF period[p] = NoRow THEN "none" ELSE period[p].status]

recordOf(r) == IF r = NoRow THEN NoRow
               ELSE [period |-> r.period, content |-> Content(r)]

bookOf == [e \in EntryIds |-> recordOf(entry[e])]

Books == INSTANCE PeriodBooks WITH
    Ids      <- EntryIds,
    Contents <- [project: Projects, user: Users, claimant: Claimants,
                 date: Dates, body: Bodies],
    lock     <- lockOf,
    book     <- bookOf

\* Every step of the ledger is a step on closable books or leaves them alone.
ImplementsBooks == Books!BooksSpec
=============================================================================
