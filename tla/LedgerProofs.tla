---------------------------- MODULE LedgerProofs ----------------------------
(***************************************************************************)
(* Theorems about the ledger, for every set of users, claimants, projects, *)
(* periods, dates, bodies and ids.                                         *)
(***************************************************************************)
EXTENDS Ledger, TLAPS

\* A users row comes before its user_claimants rows.
AbsentUnattached ==
    \A u \in Users, c \in Claimants : ustatus[u] = "absent" => att[u][c] = "none"

\* The inductive invariant.  Bucketing speaks of attachments, which CreateUser
\* writes wholesale: that it overwrites none needs AbsentUnattached.
Inv == TypeOK /\ AbsentUnattached /\ ReviewConsistent /\ EntriesBucketed

-----------------------------------------------------------------------------
(* What the helpers return. *)

\* A freshly built row has its type, whatever valid fields it is built from.
LEMMA NewRowType ==
    ASSUME NEW pr \in Projects, NEW u \in Users, NEW c \in Claimants,
           NEW p \in Periods, NEW d \in Dates, NEW b \in Bodies
    PROVE  /\ NewRow(pr, u, c, p, d, b) \in EntryRow
           /\ OneStory(NewRow(pr, u, c, p, d, b))
BY LedgerAssumption DEF NewRow, EntryRow, OneStory

\* approve and reject keep everything but the review columns and leave those
\* consistent.
LEMMA VerdictRow ==
    ASSUME NEW a \in Users, NEW r \in EntryRow,
           NEW s, s = approved(a, r) \/ s = rejected(a, r)
    PROVE  /\ s \in EntryRow
           /\ OneStory(s)
           /\ s.period = r.period
           /\ Content(s) = Content(r)
           /\ s.reviewer = a
<1>1. CASE s = approved(a, r)
  BY <1>1, LedgerAssumption DEF approved, EntryRow, OneStory, Content
<1>2. CASE s = rejected(a, r)
  BY <1>2, LedgerAssumption DEF rejected, EntryRow, OneStory, Content
<1> QED BY <1>1, <1>2

\* Neither the review a POST starts with nor the one a PATCH leaves behind is
\* inconsistent, and neither touches the content.
LEMMA ReviewRow ==
    ASSUME NEW a \in Users, NEW r \in EntryRow, OneStory(r), requireAuth(a),
           NEW s, \/ s = initialReview(a, r) /\ r.status = "pending"
                  \/ s = clearReview(a, r)
    PROVE  /\ s \in EntryRow
           /\ OneStory(s)
           /\ s.period = r.period
           /\ Content(s) = Content(r)
<1>1. CASE s = initialReview(a, r) /\ r.status = "pending"
  BY <1>1, LedgerAssumption DEF initialReview, EntryRow, OneStory, Content
<1>2. CASE s = clearReview(a, r)
  BY <1>2, LedgerAssumption DEF clearReview, EntryRow, OneStory, Content
<1> QED BY <1>1, <1>2

-----------------------------------------------------------------------------
(* Accounts *)

\* Every account handler keeps the account tables well typed.
LEMMA AccountsType == AccountsTypeOK /\ AccountsNext => AccountsTypeOK'
<1> SUFFICES ASSUME AccountsTypeOK, AccountsNext PROVE AccountsTypeOK'
  OBVIOUS
<1> USE DEF AccountsTypeOK, Roles, UserStatus, AttStatus, requireAdmin, requireAuth
<1>1. ASSUME NEW u \in Users, Enrol(u) PROVE AccountsTypeOK'
  BY <1>1 DEF Enrol
<1>2. ASSUME NEW a \in Users, NEW u \in Users, NEW r \in Roles,
             NEW cs \in SUBSET Claimants, CreateUser(a, u, r, cs)
      PROVE AccountsTypeOK'
  BY <1>2 DEF CreateUser
<1>3. ASSUME NEW a \in Users, NEW u \in Users, NEW r \in Roles,
             NEW s \in UserStatus, PatchUser(a, u, r, s)
      PROVE AccountsTypeOK'
  BY <1>3 DEF PatchUser
<1>4. ASSUME NEW a \in Users, NEW u \in Users, Deactivate(a, u)
      PROVE AccountsTypeOK'
  BY <1>4 DEF Deactivate
<1>5. ASSUME NEW a \in Users, NEW u \in Users, Reactivate(a, u)
      PROVE AccountsTypeOK'
  BY <1>5 DEF Reactivate
<1>6. ASSUME NEW a \in Users, NEW u \in Users, NEW c \in Claimants, Attach(a, u, c)
      PROVE AccountsTypeOK'
  BY <1>6 DEF Attach
<1>7. ASSUME NEW a \in Users, NEW u \in Users, NEW c \in Claimants,
             NEW s \in AttStatus, PatchAttachment(a, u, c, s)
      PROVE AccountsTypeOK'
  BY <1>7 DEF PatchAttachment
<1> HIDE DEF AccountsTypeOK, Roles, UserStatus, AttStatus, requireAdmin, requireAuth
<1> QED BY <1>1, <1>2, <1>3, <1>4, <1>5, <1>6, <1>7 DEF AccountsNext

\* An attachment row, once there, is never taken away.
AttachmentsKept ==
    \A u \in Users, c \in Claimants : att[u][c] # "none" => att'[u][c] # "none"

\* No account handler takes an attachment row away, CreateUser included.
LEMMA AccountsKeep ==
    AccountsTypeOK /\ AbsentUnattached /\ AccountsNext
      => AbsentUnattached' /\ AttachmentsKept
<1> SUFFICES ASSUME AccountsTypeOK, AbsentUnattached, AccountsNext
             PROVE  AbsentUnattached' /\ AttachmentsKept
  OBVIOUS
<1> USE DEF AccountsTypeOK, Roles, UserStatus, AttStatus, requireAdmin, requireAuth,
            AbsentUnattached, AttachmentsKept
<1>1. ASSUME NEW u \in Users, Enrol(u) PROVE AbsentUnattached' /\ AttachmentsKept
  BY <1>1 DEF Enrol
<1>2. ASSUME NEW a \in Users, NEW u \in Users, NEW r \in Roles,
             NEW cs \in SUBSET Claimants, CreateUser(a, u, r, cs)
      PROVE AbsentUnattached' /\ AttachmentsKept
  BY <1>2 DEF CreateUser
<1>3. ASSUME NEW a \in Users, NEW u \in Users, NEW r \in Roles,
             NEW s \in UserStatus, PatchUser(a, u, r, s)
      PROVE AbsentUnattached' /\ AttachmentsKept
  BY <1>3 DEF PatchUser
<1>4. ASSUME NEW a \in Users, NEW u \in Users, Deactivate(a, u)
      PROVE AbsentUnattached' /\ AttachmentsKept
  BY <1>4 DEF Deactivate
<1>5. ASSUME NEW a \in Users, NEW u \in Users, Reactivate(a, u)
      PROVE AbsentUnattached' /\ AttachmentsKept
  BY <1>5 DEF Reactivate
<1>6. ASSUME NEW a \in Users, NEW u \in Users, NEW c \in Claimants, Attach(a, u, c)
      PROVE AbsentUnattached' /\ AttachmentsKept
  BY <1>6 DEF Attach
<1>7. ASSUME NEW a \in Users, NEW u \in Users, NEW c \in Claimants,
             NEW s \in AttStatus, PatchAttachment(a, u, c, s)
      PROVE AbsentUnattached' /\ AttachmentsKept
  BY <1>7 DEF PatchAttachment
<1> HIDE DEF AccountsTypeOK, Roles, UserStatus, AttStatus, requireAdmin, requireAuth
<1> QED BY <1>1, <1>2, <1>3, <1>4, <1>5, <1>6, <1>7 DEF AccountsNext

-----------------------------------------------------------------------------
(* What each kind of step does to the entries. *)

OpenPeriod(p) == period[p] # NoRow /\ period[p].status = "open"

\* Accounts and periods are left alone.
Same == UNCHANGED <<accountVars, period>>

\* One row appears, in an open period that covers it.
Posted(e) ==
    /\ e \in EntryIds /\ entry[e] = NoRow
    /\ \E s \in EntryRow : /\ entry' = [entry EXCEPT ![e] = s]
                          /\ OneStory(s) /\ Bucketed(s) /\ OpenPeriod(s.period)
    /\ Same

\* One row of an open period is rewritten within open periods.
Patched(e) ==
    /\ e \in EntryIds /\ entry[e] \in EntryRow /\ OpenPeriod(entry[e].period)
    /\ \E s \in EntryRow : /\ entry' = [entry EXCEPT ![e] = s]
                          /\ OneStory(s) /\ Bucketed(s) /\ OpenPeriod(s.period)
    /\ Same

\* One row of an open period disappears.
Deleted(e) ==
    /\ e \in EntryIds /\ entry[e] \in EntryRow /\ OpenPeriod(entry[e].period)
    /\ entry' = [entry EXCEPT ![e] = NoRow]
    /\ Same

\* approve, reject and bulk-approve: verdicts over some of the existing rows.
Reviewed ==
    /\ entry' \in [EntryIds -> EntryRow \cup {NoRow}]
    /\ \A e \in EntryIds :
         \/ entry'[e] = entry[e]
         \/ /\ entry[e] \in EntryRow /\ entry'[e] \in EntryRow
            /\ OneStory(entry'[e])
            /\ entry'[e].period = entry[e].period
            /\ Content(entry'[e]) = Content(entry[e])
    /\ Same

\* Rows appear where there were none, each in an open period that covers it.
Imported ==
    /\ entry' \in [EntryIds -> EntryRow \cup {NoRow}]
    /\ \A e \in EntryIds :
         \/ entry'[e] = entry[e]
         \/ /\ entry[e] = NoRow /\ entry'[e] \in EntryRow
            /\ OneStory(entry'[e]) /\ Bucketed(entry'[e])
            /\ OpenPeriod(entry'[e].period)
    /\ Same

\* Dates and claimant of a period are fixed at creation.
PeriodsTurned ==
    /\ period' \in [Periods -> PeriodRow \cup {NoRow}]
    /\ \E p \in Periods :
         /\ \A q \in Periods : q # p => period'[q] = period[q]
         /\ period'[p] \in PeriodRow
         /\ \/ period[p] = NoRow /\ period'[p].status = "open"
            \/ /\ period[p] \in PeriodRow
               /\ period'[p].status # period[p].status
               /\ period'[p] = [period[p] EXCEPT !.status = period'[p].status]
    /\ UNCHANGED <<accountVars, entry>>

\* The status check of assertEditable and of findOpenPeriod mean the same: open.
LEMMA FoundIsOpen ==
    ASSUME TypeOK, NEW c \in Claimants, NEW d \in Dates,
           NEW p \in findOpenPeriod(c, d)
    PROVE  /\ p \in Periods /\ OpenPeriod(p)
           /\ period[p].claimant = c /\ period[p].start <= d /\ d <= period[p].end
BY DEF findOpenPeriod, OpenPeriod

\* A POST adds one row, in an open period that covers it.
LEMMA PostIsPosted ==
    ASSUME TypeOK, NEW a \in Users, NEW e \in EntryIds, NEW pr \in Projects,
           NEW u \in Users, NEW c \in Claimants, NEW d \in Dates,
           NEW b \in Bodies, Post(a, e, pr, u, c, d, b)
    PROVE  Posted(e)
<1>1. PICK p \in findOpenPeriod(ClaimantOf[pr], d) :
        entry' = [entry EXCEPT ![e] = initialReview(a, NewRow(pr, u, c, p, d, b))]
  BY DEF Post
<1> DEFINE n == NewRow(pr, u, c, p, d, b)
           s == initialReview(a, n)
<1>2. ClaimantOf[pr] \in Claimants
  BY LedgerAssumption
<1>3. p \in Periods /\ OpenPeriod(p) /\ period[p].claimant = ClaimantOf[pr]
      /\ period[p].start <= d /\ d <= period[p].end
  BY <1>2, FoundIsOpen
<1>4. n \in EntryRow /\ OneStory(n) /\ n.status = "pending"
  BY <1>3, NewRowType DEF NewRow
<1>5. requireAuth(a) /\ entry[e] = NoRow /\ Same
      /\ att[u][c] = "active" /\ c = ClaimantOf[pr]
  BY DEF Post, Same, resolveUserClaimant
<1>6. s \in EntryRow /\ OneStory(s) /\ s.period = n.period /\ Content(s) = Content(n)
  BY <1>4, <1>5, ReviewRow
<1>7. s.period = p /\ s.date = d /\ s.project = pr /\ s.user = u /\ s.claimant = c
  BY <1>6 DEF NewRow, Content
<1>8. Bucketed(s)
  BY <1>3, <1>5, <1>7 DEF Bucketed, OpenPeriod
<1> QED BY <1>1, <1>3, <1>5, <1>6, <1>7, <1>8 DEF Posted

\* A PATCH rewrites one row of an open period and leaves it in an open period
\* that covers it.
LEMMA PatchIsPatched ==
    ASSUME Inv, NEW a \in Users, NEW e \in EntryIds, NEW d \in Dates,
           NEW b \in Bodies, Patch(a, e, d, b)
    PROVE  Patched(e)
<1> DEFINE r == entry[e]
           n == clearReview(a, r)
<1>1. r \in EntryRow /\ OneStory(r) /\ Bucketed(r)
  BY DEF Patch, Inv, TypeOK, ReviewConsistent, EntriesBucketed
<1>2. OpenPeriod(r.period)
  BY <1>1 DEF Patch, assertEditable, OpenPeriod, Inv, TypeOK, PeriodRow, EntryRow
<1>3. PICK p \in rebucket(r, d) :
        entry' = [entry EXCEPT ![e] = [n EXCEPT !.date = d, !.body = b, !.period = p]]
  BY DEF Patch
<1> DEFINE s == [n EXCEPT !.date = d, !.body = b, !.period = p]
<1>4. /\ p \in Periods /\ OpenPeriod(p)
      /\ period[p].claimant = ClaimantOf[r.project]
      /\ period[p].start <= d /\ d <= period[p].end
  <2>1. CASE d = r.date
    BY <2>1, <1>1, <1>2, <1>3 DEF rebucket, Bucketed, EntryRow
  <2>2. CASE d # r.date
    <3>1. ClaimantOf[r.project] \in Claimants
      BY <1>1, LedgerAssumption DEF EntryRow
    <3> QED BY <2>2, <3>1, <1>3, FoundIsOpen DEF rebucket, Inv
  <2> QED BY <2>1, <2>2
<1>5. n \in EntryRow /\ OneStory(n) /\ Content(n) = Content(r)
  BY <1>1, ReviewRow DEF Patch
<1>6. s \in EntryRow /\ OneStory(s) /\ s.period = p /\ s.date = d
      /\ s.project = r.project /\ s.user = r.user /\ s.claimant = r.claimant
  BY <1>4, <1>5 DEF EntryRow, OneStory, Content
<1>7. Bucketed(s)
  BY <1>1, <1>4, <1>6 DEF Bucketed, OpenPeriod
<1> HIDE DEF s
<1> QED BY <1>1, <1>2, <1>3, <1>4, <1>6, <1>7 DEF Patched, Patch, Same, s

\* A DELETE strikes one row of an open period.
LEMMA DeleteIsDeleted ==
    ASSUME Inv, NEW a \in Users, NEW e \in EntryIds, Delete(a, e)
    PROVE  Deleted(e)
<1>1. entry[e] \in EntryRow
  BY DEF Delete, Inv, TypeOK
<1>2. OpenPeriod(entry[e].period)
  BY <1>1 DEF Delete, assertEditable, OpenPeriod, Inv, TypeOK, PeriodRow, EntryRow
<1> QED BY <1>1, <1>2 DEF Delete, Deleted, Same

\* approve and reject of one entry, and bulk-approve, touch review columns only.
LEMMA ReviewIsReviewed ==
    ASSUME TypeOK, NEW a \in Users, NEW e \in EntryIds,
           \/ Review(a, e, "approve", approved(a, entry[e]))
           \/ Review(a, e, "reject", rejected(a, entry[e]))
    PROVE  Reviewed
<1>1. PICK s : /\ s = approved(a, entry[e]) \/ s = rejected(a, entry[e])
               /\ entry' = [entry EXCEPT ![e] = s]
  BY DEF Review
<1>2. entry[e] \in EntryRow
  BY DEF Review, TypeOK
<1>3. s \in EntryRow /\ OneStory(s) /\ s.period = entry[e].period
      /\ Content(s) = Content(entry[e])
  BY <1>1, <1>2, VerdictRow
<1>4. Same
  BY DEF Review, Same
<1> QED BY <1>1, <1>2, <1>3, <1>4 DEF Reviewed, TypeOK

\* bulk-approve passes a verdict on the rows it finds and touches no other.
LEMMA BulkIsReviewed ==
    ASSUME TypeOK, NEW a \in Users, NEW ids \in SUBSET LabourIds,
           BulkApprove(a, ids)
    PROVE  Reviewed
<1>1. ASSUME NEW e \in EntryIds, e \in ids, entry[e] # NoRow
      PROVE  /\ entry[e] \in EntryRow /\ entry'[e] \in EntryRow
             /\ OneStory(entry'[e])
             /\ entry'[e].period = entry[e].period
             /\ Content(entry'[e]) = Content(entry[e])
  <2>1. entry[e] \in EntryRow /\ entry'[e] = approved(a, entry[e])
    BY <1>1 DEF BulkApprove, TypeOK
  <2> QED BY <2>1, VerdictRow
<1>2. ASSUME NEW e \in EntryIds, ~(e \in ids /\ entry[e] # NoRow)
      PROVE  entry'[e] = entry[e]
  BY <1>2 DEF BulkApprove
<1>3. entry' \in [EntryIds -> EntryRow \cup {NoRow}]
  <2>1. \A e \in EntryIds : entry'[e] \in EntryRow \cup {NoRow}
    BY <1>1, <1>2 DEF TypeOK
  <2>2. entry' = [e \in EntryIds |-> entry'[e]]
    BY DEF BulkApprove
  <2> QED BY <2>1, <2>2
<1>4. Same
  BY DEF BulkApprove, Same
<1> QED BY <1>1, <1>2, <1>3, <1>4 DEF Reviewed

\* An import adds rows that all passed validateImportRow.
LEMMA ImportIsImported ==
    ASSUME TypeOK, NEW a \in Users, NEW ids \in SUBSET LabourIds,
           Import(a, ids)
    PROVE  Imported
<1>0. PICK rows \in [ids -> {r \in ImportRow : validateImportRow(r)}] :
        entry' = [e \in EntryIds |->
                    IF e \in ids
                      THEN approved(a, NewRow(rows[e].project, rows[e].user,
                                              rows[e].claimant, rows[e].period,
                                              rows[e].date, rows[e].body))
                      ELSE entry[e]]
  BY DEF Import
<1>1. ASSUME NEW e \in ids
      PROVE  /\ entry[e] = NoRow /\ entry'[e] \in EntryRow
             /\ OneStory(entry'[e]) /\ Bucketed(entry'[e])
             /\ OpenPeriod(entry'[e].period)
  <2> DEFINE r == rows[e]
             n == NewRow(r.project, r.user, r.claimant, r.period, r.date, r.body)
             s == approved(a, n)
  <2>1. r \in ImportRow /\ validateImportRow(r)
    OBVIOUS
  <2>2. /\ r.project \in Projects /\ r.user \in Users /\ r.claimant \in Claimants
        /\ r.period \in Periods /\ r.date \in Dates /\ r.body \in Bodies
    BY <2>1 DEF ImportRow
  <2>3. /\ r.claimant = ClaimantOf[r.project] /\ att[r.user][r.claimant] = "active"
        /\ r.period \in findOpenPeriod(r.claimant, r.date)
    BY <2>1 DEF validateImportRow
  <2>4. OpenPeriod(r.period) /\ period[r.period].claimant = r.claimant
        /\ period[r.period].start <= r.date /\ r.date <= period[r.period].end
    BY <2>2, <2>3, FoundIsOpen
  <2>5. n \in EntryRow
    BY <2>2, NewRowType
  <2>6. s \in EntryRow /\ OneStory(s) /\ s.period = n.period /\ Content(s) = Content(n)
    BY <2>5, VerdictRow
  <2>7. /\ s.period = r.period /\ s.date = r.date /\ s.project = r.project
        /\ s.user = r.user /\ s.claimant = r.claimant
    BY <2>6 DEF NewRow, Content
  <2>8. Bucketed(s)
    BY <2>3, <2>4, <2>7 DEF Bucketed, OpenPeriod
  <2>9. entry[e] = NoRow /\ entry'[e] = s
    BY <1>0 DEF Import, EntryIds
  <2> QED BY <2>4, <2>6, <2>7, <2>8, <2>9
<1>2. ASSUME NEW e \in EntryIds, e \notin ids PROVE entry'[e] = entry[e]
  BY <1>0, <1>2
<1>3. entry' \in [EntryIds -> EntryRow \cup {NoRow}]
  <2>1. \A e \in EntryIds : entry'[e] \in EntryRow \cup {NoRow}
    BY <1>1, <1>2 DEF TypeOK
  <2>2. entry' = [e \in EntryIds |-> entry'[e]]
    BY <1>0
  <2> QED BY <2>1, <2>2
<1>4. Same
  BY DEF Import, Same
<1> QED BY <1>1, <1>2, <1>3, <1>4 DEF Imported

\* An import writes every row it names, and found none of them there.
LEMMA ImportWrites ==
    ASSUME TypeOK, NEW a \in Users, NEW ids \in SUBSET LabourIds,
           Import(a, ids), NEW e \in ids
    PROVE  entry[e] = NoRow /\ entry'[e] # NoRow
<1>1. PICK rows \in [ids -> {r \in ImportRow : validateImportRow(r)}] :
        entry' = [f \in EntryIds |->
                    IF f \in ids
                      THEN approved(a, NewRow(rows[f].project, rows[f].user,
                                              rows[f].claimant, rows[f].period,
                                              rows[f].date, rows[f].body))
                      ELSE entry[f]]
  BY DEF Import
<1> DEFINE r == rows[e]
           n == NewRow(r.project, r.user, r.claimant, r.period, r.date, r.body)
           s == approved(a, n)
<1>2. n \in EntryRow
  BY NewRowType DEF ImportRow
<1>3. s \in EntryRow
  BY <1>2, VerdictRow
<1>4. entry[e] = NoRow /\ entry'[e] = s
  BY <1>1 DEF Import, EntryIds
<1> QED BY <1>3, <1>4, LedgerAssumption

\* Creating, closing and reopening turn the status of one period and no more.
LEMMA PeriodStepTurns ==
    ASSUME TypeOK, NEW a \in Users, PeriodStep(a)
    PROVE  PeriodsTurned
<1>1. ASSUME NEW p \in Periods, NEW c \in Claimants, NEW s \in Dates,
             NEW t \in Dates, CreatePeriod(a, p, c, s, t)
      PROVE  PeriodsTurned
  <2> DEFINE n == [claimant |-> c, start |-> s, end |-> t, status |-> "open"]
  <2>1. n \in PeriodRow
    BY DEF PeriodRow
  <2> HIDE DEF n
  <2>2. n.status = "open"
    BY DEF n
  <2>3. period' = [period EXCEPT ![p] = n] /\ period[p] = NoRow
        /\ UNCHANGED <<accountVars, entry>>
    BY <1>1 DEF CreatePeriod, n
  <2> QED BY <2>1, <2>2, <2>3 DEF PeriodsTurned, TypeOK
<1>2. ASSUME NEW p \in Periods, ClosePeriod(a, p) \/ ReopenPeriod(a, p)
      PROVE  PeriodsTurned
  <2>1. PICK st \in {"open", "closed"} :
          /\ st # period[p].status
          /\ period' = [period EXCEPT ![p].status = st]
    BY <1>2 DEF ClosePeriod, ReopenPeriod
  <2>2. period[p] \in PeriodRow /\ UNCHANGED <<accountVars, entry>>
    BY <1>2 DEF ClosePeriod, ReopenPeriod, TypeOK
  <2>3. [period[p] EXCEPT !.status = st] \in PeriodRow
    BY <2>2 DEF PeriodRow
  <2>4. period'[p] = [period[p] EXCEPT !.status = st] /\ period'[p].status = st
    BY <2>1, <2>2 DEF PeriodRow, TypeOK
  <2> QED BY <2>1, <2>2, <2>3, <2>4 DEF PeriodsTurned, TypeOK
<1> QED BY <1>1, <1>2 DEF PeriodStep

-----------------------------------------------------------------------------
(* Every step is one of these. *)

AccountsMoved == AccountsNext /\ UNCHANGED <<period, entry>>

Moved == \/ AccountsMoved
         \/ PeriodsTurned
         \/ \E e \in EntryIds : Posted(e) \/ Patched(e) \/ Deleted(e)
         \/ Reviewed
         \/ Imported

\* Labour and expense handlers alike come down to the shared kinds of step.
LEMMA StepMoves == Inv /\ Next => Moved
<1> SUFFICES ASSUME Inv, Next PROVE Moved
  OBVIOUS
<1> USE DEF Moved
<1>0. TypeOK /\ LabourIds \subseteq EntryIds /\ ExpenseIds \subseteq EntryIds
  BY DEF Inv, EntryIds
<1>1. CASE AccountsNext /\ UNCHANGED <<period, entry>> /\ trail' = {}
  BY <1>1 DEF AccountsMoved
<1>2. ASSUME NEW a \in Users, PeriodStep(a) PROVE Moved
  BY <1>0, <1>2, PeriodStepTurns
<1>3. ASSUME NEW a \in Users, LabourStep(a) PROVE Moved
  <2>1. ASSUME NEW pr \in Projects, NEW u \in Users, NEW c \in Claimants,
               NEW d \in Dates, NEW b \in Bodies, LabourPost(a, pr, u, c, d, b)
        PROVE  Moved
    BY <1>0, <2>1, PostIsPosted DEF LabourPost
  <2>2. ASSUME NEW e \in LabourIds, NEW d \in Dates, NEW b \in Bodies,
               LabourPatch(a, e, d, b)
        PROVE  Moved
    BY <1>0, <2>2, PatchIsPatched DEF LabourPatch
  <2>3. ASSUME NEW e \in LabourIds, LabourDelete(a, e) PROVE Moved
    BY <1>0, <2>3, DeleteIsDeleted DEF LabourDelete
  <2>4. ASSUME NEW e \in LabourIds, LabourApprove(a, e) \/ LabourReject(a, e)
        PROVE  Moved
    BY <1>0, <2>4, ReviewIsReviewed DEF LabourApprove, LabourReject
  <2>5. ASSUME NEW ids \in SUBSET LabourIds, BulkApprove(a, ids) PROVE Moved
    BY <1>0, <2>5, BulkIsReviewed
  <2>6. ASSUME NEW ids \in SUBSET LabourIds, Import(a, ids)
        PROVE  Moved
    BY <1>0, <2>6, ImportIsImported
  <2> QED BY <1>3, <2>1, <2>2, <2>3, <2>4, <2>5, <2>6 DEF LabourStep
<1>4. ASSUME NEW a \in Users, ExpenseStep(a) PROVE Moved
  <2>1. ASSUME NEW pr \in Projects, NEW u \in Users, NEW c \in Claimants,
               NEW d \in Dates, NEW b \in Bodies, ExpensePost(a, pr, u, c, d, b)
        PROVE  Moved
    BY <1>0, <2>1, PostIsPosted DEF ExpensePost
  <2>2. ASSUME NEW e \in ExpenseIds, NEW d \in Dates, NEW b \in Bodies,
               ExpensePatch(a, e, d, b)
        PROVE  Moved
    BY <1>0, <2>2, PatchIsPatched DEF ExpensePatch
  <2>3. ASSUME NEW e \in ExpenseIds, ExpenseDelete(a, e) PROVE Moved
    BY <1>0, <2>3, DeleteIsDeleted DEF ExpenseDelete
  <2>4. ASSUME NEW e \in ExpenseIds, ExpenseApprove(a, e) \/ ExpenseReject(a, e)
        PROVE  Moved
    BY <1>0, <2>4, ReviewIsReviewed DEF ExpenseApprove, ExpenseReject
  <2> QED BY <1>4, <2>1, <2>2, <2>3, <2>4 DEF ExpenseStep
<1> QED BY <1>1, <1>2, <1>3, <1>4 DEF Next

\* Every audit row a handler writes has its type.
LEMMA TrailTyped == Next => trail' \subseteq AuditRow
<1> SUFFICES ASSUME Next PROVE trail' \subseteq AuditRow
  OBVIOUS
<1>1. ASSUME NEW a \in Users, NEW es \in SUBSET (EntryIds \cup Periods),
             NEW act \in {"create", "update", "delete", "approve", "reject",
                          "close_period", "reopen_period"},
             audit(a, act, es)
      PROVE  trail' \subseteq AuditRow
  BY <1>1 DEF audit, AuditRow
<1>2. ASSUME NEW a \in Users, PeriodStep(a) PROVE trail' \subseteq AuditRow
  BY <1>1, <1>2 DEF PeriodStep, CreatePeriod, ClosePeriod, ReopenPeriod
<1>3. ASSUME NEW a \in Users, LabourStep(a) PROVE trail' \subseteq AuditRow
  <2>1. ASSUME NEW ids \in SUBSET LabourIds, BulkApprove(a, ids)
        PROVE  trail' \subseteq AuditRow
    <3>1. {e \in ids : entry[e] # NoRow} \in SUBSET (EntryIds \cup Periods)
      BY DEF EntryIds
    <3> QED BY <1>1, <2>1, <3>1 DEF BulkApprove
  <2>2. ASSUME NEW ids \in SUBSET LabourIds, Import(a, ids)
        PROVE  trail' \subseteq AuditRow
    <3>1. ids \in SUBSET (EntryIds \cup Periods)
      BY DEF EntryIds
    <3> QED BY <1>1, <2>2, <3>1 DEF Import
  <2>3. ASSUME NEW e \in LabourIds, \/ audit(a, "create", {e})
                                    \/ audit(a, "update", {e})
                                    \/ audit(a, "delete", {e})
                                    \/ audit(a, "approve", {e})
                                    \/ audit(a, "reject", {e})
        PROVE  trail' \subseteq AuditRow
    <3>1. {e} \in SUBSET (EntryIds \cup Periods)
      BY DEF EntryIds
    <3> QED BY <1>1, <2>3, <3>1
  <2> QED BY <1>3, <2>1, <2>2, <2>3
          DEF LabourStep, LabourPost, LabourPatch, LabourDelete, LabourApprove,
              LabourReject, Post, Patch, Delete, Review
<1>4. ASSUME NEW a \in Users, ExpenseStep(a) PROVE trail' \subseteq AuditRow
  <2>1. ASSUME NEW e \in ExpenseIds, \/ audit(a, "create", {e})
                                     \/ audit(a, "update", {e})
                                     \/ audit(a, "delete", {e})
                                     \/ audit(a, "approve", {e})
                                     \/ audit(a, "reject", {e})
        PROVE  trail' \subseteq AuditRow
    <3>1. {e} \in SUBSET (EntryIds \cup Periods)
      BY DEF EntryIds
    <3> QED BY <1>1, <2>1, <3>1
  <2> QED BY <1>4, <2>1
          DEF ExpenseStep, ExpensePost, ExpensePatch, ExpenseDelete,
              ExpenseApprove, ExpenseReject, Post, Patch, Delete, Review
<1> QED BY <1>2, <1>3, <1>4 DEF Next

-----------------------------------------------------------------------------
(* The inductive invariant *)

\* The freshly seeded database satisfies the invariant.
LEMMA InitInv == Init => Inv
BY LedgerAssumption, FirstAdminAssumption
   DEF Init, AccountsInit, Inv, TypeOK, AccountsTypeOK, Roles, UserStatus,
       AttStatus, AbsentUnattached, ReviewConsistent, EntriesBucketed

\* What a step does to accounts, periods and entries, as far as Inv cares.
LEMMA MovedTyped ==
    ASSUME Inv, Moved
    PROVE  /\ AccountsTypeOK' /\ AbsentUnattached' /\ AttachmentsKept
           /\ period' \in [Periods -> PeriodRow \cup {NoRow}]
           /\ entry' \in [EntryIds -> EntryRow \cup {NoRow}]
           /\ \A p \in Periods : period[p] # NoRow =>
                /\ period'[p] # NoRow
                /\ period'[p].start = period[p].start
                /\ period'[p].end = period[p].end
                /\ period'[p].claimant = period[p].claimant
<1> DEFINE PeriodsKept ==
             \A p \in Periods : period[p] # NoRow =>
                /\ period'[p] # NoRow
                /\ period'[p].start = period[p].start
                /\ period'[p].end = period[p].end
                /\ period'[p].claimant = period[p].claimant
<1>0. AccountsTypeOK /\ AbsentUnattached
      /\ period \in [Periods -> PeriodRow \cup {NoRow}]
      /\ entry \in [EntryIds -> EntryRow \cup {NoRow}]
  BY DEF Inv, TypeOK
<1>1. CASE UNCHANGED accountVars
  <2>1. AccountsTypeOK' /\ AbsentUnattached' /\ AttachmentsKept
    BY <1>0, <1>1 DEF accountVars, AccountsTypeOK, AbsentUnattached, AttachmentsKept
  <2>2. CASE UNCHANGED period
    <3>1. period' \in [Periods -> PeriodRow \cup {NoRow}] /\ PeriodsKept
      BY <1>0, <2>2
    <3>2. CASE AccountsMoved
      BY <1>0, <2>1, <3>1, <3>2 DEF AccountsMoved
    <3>3. CASE PeriodsTurned
      BY <1>0, <2>1, <3>1, <3>3 DEF PeriodsTurned
    <3>4. ASSUME NEW e \in EntryIds, Posted(e) \/ Patched(e) \/ Deleted(e)
          PROVE  entry' \in [EntryIds -> EntryRow \cup {NoRow}]
      BY <1>0, <3>4 DEF Posted, Patched, Deleted
    <3>5. CASE Reviewed \/ Imported
      BY <2>1, <3>1, <3>5 DEF Reviewed, Imported
    <3> QED BY <2>1, <3>1, <3>2, <3>3, <3>4, <3>5 DEF Moved
  <2>3. CASE PeriodsTurned
    <3>1. period' \in [Periods -> PeriodRow \cup {NoRow}]
          /\ entry' \in [EntryIds -> EntryRow \cup {NoRow}]
      BY <1>0, <2>3 DEF PeriodsTurned
    <3>2. PeriodsKept
      <4>1. PICK p \in Periods :
              /\ \A q \in Periods : q # p => period'[q] = period[q]
              /\ period'[p] \in PeriodRow
              /\ \/ period[p] = NoRow /\ period'[p].status = "open"
                 \/ /\ period[p] \in PeriodRow
                    /\ period'[p].status # period[p].status
                    /\ period'[p] = [period[p] EXCEPT !.status = period'[p].status]
        BY <2>3 DEF PeriodsTurned
      <4>2. period[p] # NoRow =>
              /\ period'[p] # NoRow
              /\ period'[p].start = period[p].start
              /\ period'[p].end = period[p].end
              /\ period'[p].claimant = period[p].claimant
        BY <4>1, LedgerAssumption DEF PeriodRow
      <4> QED BY <4>1, <4>2
    <3> QED BY <2>1, <3>1, <3>2
  <2>4. CASE AccountsMoved
    BY <1>0, <2>1, <2>4 DEF AccountsMoved
  <2> QED BY <2>2, <2>3, <2>4
          DEF Moved, Posted, Patched, Deleted, Reviewed, Imported, Same
<1>2. CASE AccountsMoved
  <2>1. AccountsTypeOK' /\ AbsentUnattached' /\ AttachmentsKept
    BY <1>0, <1>2, AccountsType, AccountsKeep DEF AccountsMoved
  <2> QED BY <1>0, <1>2, <2>1 DEF AccountsMoved
<1> QED BY <1>1, <1>2 DEF Moved, PeriodsTurned, Posted, Patched, Deleted,
                          Reviewed, Imported, Same

\* Rows change only by the kinds of step above: whatever is in place afterwards
\* was in place before, or was written consistent and bucketed.
LEMMA RowsWritten ==
    ASSUME Inv, Moved, NEW e \in EntryIds, entry'[e] # NoRow
    PROVE  entry'[e] \in EntryRow /\ OneStory(entry'[e]) /\ Bucketed(entry'[e])
<1>0. /\ entry \in [EntryIds -> EntryRow \cup {NoRow}]
      /\ entry[e] # NoRow =>
           entry[e] \in EntryRow /\ OneStory(entry[e]) /\ Bucketed(entry[e])
  BY DEF Inv, TypeOK, ReviewConsistent, EntriesBucketed
<1>1. CASE UNCHANGED entry
  BY <1>0, <1>1
<1>2. ASSUME NEW f \in EntryIds, Posted(f) \/ Patched(f) \/ Deleted(f)
      PROVE  entry'[e] \in EntryRow /\ OneStory(entry'[e]) /\ Bucketed(entry'[e])
  BY <1>0, <1>2 DEF Posted, Patched, Deleted
<1>3. CASE Reviewed
  <2>1. CASE entry'[e] = entry[e]
    BY <1>0, <2>1
  <2>2. CASE entry'[e] # entry[e]
    <3>1. /\ entry[e] \in EntryRow /\ entry'[e] \in EntryRow
          /\ OneStory(entry'[e])
          /\ entry'[e].period = entry[e].period
          /\ Content(entry'[e]) = Content(entry[e])
      BY <1>3, <2>2 DEF Reviewed
    <3>2. entry[e] # NoRow /\ Bucketed(entry[e])
      BY <1>0, <3>1, LedgerAssumption
    <3> QED BY <3>1, <3>2 DEF Bucketed, Content
  <2> QED BY <2>1, <2>2
<1>4. CASE Imported
  BY <1>0, <1>4 DEF Imported
<1> QED BY <1>1, <1>2, <1>3, <1>4 DEF Moved, AccountsMoved, PeriodsTurned

\* Every handler preserves the invariant.
LEMMA StepInv == Inv /\ [Next]_vars => Inv'
<1> SUFFICES ASSUME Inv, [Next]_vars PROVE Inv'
  OBVIOUS
<1>1. CASE UNCHANGED vars
  BY <1>1 DEF vars, Inv, TypeOK, AccountsTypeOK, AbsentUnattached,
              ReviewConsistent, EntriesBucketed, Bucketed
<1>2. CASE Next
  <2>1. Moved
    BY <1>2, StepMoves
  <2>2. TypeOK' /\ AbsentUnattached'
    BY <1>2, <2>1, MovedTyped, TrailTyped DEF TypeOK
  <2>3. ReviewConsistent'
    BY <2>1, RowsWritten DEF ReviewConsistent
  <2>4. ASSUME NEW e \in EntryIds, entry'[e] # NoRow PROVE Bucketed(entry[e])'
    <3>1. entry'[e] \in EntryRow /\ Bucketed(entry'[e])
      BY <2>1, <2>4, RowsWritten
    <3> DEFINE r == entry'[e]
    <3>2. /\ r.period \in Periods /\ r.user \in Users /\ r.claimant \in Claimants
      BY <3>1 DEF EntryRow
    <3>3. /\ period'[r.period] # NoRow
          /\ period'[r.period].start <= r.date
          /\ r.date <= period'[r.period].end
          /\ period'[r.period].claimant = ClaimantOf[r.project]
          /\ r.claimant = ClaimantOf[r.project]
          /\ att'[r.user][r.claimant] # "none"
      BY <3>1, <3>2, <2>1, MovedTyped DEF Bucketed, AttachmentsKept
    <3> QED BY <3>3 DEF Bucketed
  <2>5. EntriesBucketed'
    BY <2>4 DEF EntriesBucketed
  <2> QED BY <2>2, <2>3, <2>5 DEF Inv
<1> QED BY <1>1, <1>2

\* The invariant holds in every reachable state.
LEMMA Invariance == Spec => []Inv
<1> QED BY InitInv, StepInv, PTL DEF Spec

\* All rows, periods, accounts and audit rows have their type in every reachable
\* state.
THEOREM TypeCorrect == Spec => []TypeOK
<1>1. Inv => TypeOK
  BY DEF Inv
<1> QED BY Invariance, <1>1, PTL

\* No sequence of submissions, edits, reviews and imports leaves an entry whose
\* status, reviewer and rejection reason disagree.
THEOREM ReviewAlwaysConsistent == Spec => []ReviewConsistent
<1>1. Inv => ReviewConsistent
  BY DEF Inv
<1> QED BY Invariance, <1>1, PTL

\* Every entry sits in an existing period that covers its date and belongs to
\* the claimant of its project and of its attachment.
THEOREM AlwaysBucketed == Spec => []EntriesBucketed
<1>1. Inv => EntriesBucketed
  BY DEF Inv
<1> QED BY Invariance, <1>1, PTL

-----------------------------------------------------------------------------
(* Closed periods *)

\* A step that changes the content or the period of an entry, adds it or
\* deletes it finds the period it leaves open and the period it enters open.
LEMMA ClosedStep ==
    ASSUME Inv, [Next]_vars, NEW p \in Periods, NEW e \in EntryIds, closed(p),
           booked(entry[e], p) \/ booked(entry'[e], p)
    PROVE  /\ booked(entry[e], p) /\ booked(entry'[e], p)
           /\ Content(entry'[e]) = Content(entry[e])
<1>0. ~OpenPeriod(p)
  BY DEF closed, OpenPeriod
<1>1. CASE entry'[e] = entry[e]
  BY <1>1
<1>2. CASE entry'[e] # entry[e]
  <2>1. Moved
    BY <1>2, StepMoves DEF vars
  <2>2. ASSUME NEW f \in EntryIds, Posted(f) \/ Patched(f) \/ Deleted(f)
        PROVE  FALSE
    BY <1>0, <1>2, <2>2, LedgerAssumption
       DEF Posted, Patched, Deleted, booked, Inv, TypeOK
  <2>3. CASE Imported
    BY <1>0, <1>2, <2>3 DEF Imported, booked
  <2>4. CASE Reviewed
    <3>1. /\ entry[e] \in EntryRow /\ entry'[e] \in EntryRow
          /\ entry'[e].period = entry[e].period
          /\ Content(entry'[e]) = Content(entry[e])
      BY <1>2, <2>4 DEF Reviewed
    <3> QED BY <3>1, LedgerAssumption DEF booked
  <2> QED BY <1>2, <2>1, <2>2, <2>3, <2>4 DEF Moved, AccountsMoved, PeriodsTurned
<1> QED BY <1>1, <1>2

\* A closed period is frozen but for its review columns, for any number of
\* periods, overlapping or not.
THEOREM ClosedStaysFrozen == Spec => ClosedPeriodFrozen
<1>1. Inv /\ [Next]_vars =>
        [\A p \in Periods, e \in EntryIds :
           closed(p) /\ (booked(entry[e], p) \/ booked(entry'[e], p)) =>
              /\ booked(entry[e], p) /\ booked(entry'[e], p)
              /\ Content(entry'[e]) = Content(entry[e])]_vars
  BY ClosedStep
<1> QED BY Invariance, <1>1, PTL DEF Spec, ClosedPeriodFrozen

-----------------------------------------------------------------------------
(* Approved entries *)

\* Only PATCH and DELETE reach the content of an existing entry, and both pass
\* assertEditable first.
LEMMA ContentStep ==
    ASSUME Inv, Next, NEW e \in EntryIds, entry[e] # NoRow,
           \/ entry'[e] = NoRow
           \/ Content(entry'[e]) # Content(entry[e])
           \/ entry'[e].period # entry[e].period
    PROVE  \E a \in Users : \/ \E d \in Dates, b \in Bodies : Patch(a, e, d, b)
                            \/ Delete(a, e)
<1>0. /\ TypeOK /\ entry \in [EntryIds -> EntryRow \cup {NoRow}]
      /\ LabourIds \subseteq EntryIds /\ ExpenseIds \subseteq EntryIds
  BY DEF Inv, TypeOK, EntryIds
<1>1. entry'[e] # entry[e]
  OBVIOUS
<1>2. ~Reviewed
  BY <1>1, LedgerAssumption DEF Reviewed
<1>3. ~Imported
  BY <1>1 DEF Imported
<1>4. \A f \in EntryIds : ~Posted(f)
  BY <1>0, <1>1 DEF Posted
<1>5. ~(AccountsNext /\ UNCHANGED <<period, entry>> /\ trail' = {})
  BY <1>1
<1>6. ASSUME NEW a \in Users, PeriodStep(a) PROVE FALSE
  BY <1>0, <1>1, <1>6, PeriodStepTurns DEF PeriodsTurned
<1>7. ASSUME NEW a \in Users, NEW f \in EntryIds, NEW d \in Dates,
             NEW b \in Bodies, Patch(a, f, d, b)
      PROVE  f = e
  BY <1>0, <1>1, <1>7 DEF Patch
<1>8. ASSUME NEW a \in Users, NEW f \in EntryIds, Delete(a, f) PROVE f = e
  BY <1>0, <1>1, <1>8 DEF Delete
<1>9. ASSUME NEW a \in Users, LabourStep(a)
      PROVE  \/ \E d \in Dates, b \in Bodies : Patch(a, e, d, b)
             \/ Delete(a, e)
  <2>1. ASSUME NEW pr \in Projects, NEW u \in Users, NEW c \in Claimants,
               NEW d \in Dates, NEW b \in Bodies, LabourPost(a, pr, u, c, d, b)
        PROVE  FALSE
    BY <1>0, <1>4, <2>1, PostIsPosted DEF LabourPost
  <2>2. ASSUME NEW f \in LabourIds, LabourApprove(a, f) \/ LabourReject(a, f)
        PROVE  FALSE
    BY <1>0, <1>2, <2>2, ReviewIsReviewed DEF LabourApprove, LabourReject
  <2>3. ASSUME NEW ids \in SUBSET LabourIds, BulkApprove(a, ids) PROVE FALSE
    BY <1>0, <1>2, <2>3, BulkIsReviewed
  <2>4. ASSUME NEW ids \in SUBSET LabourIds, Import(a, ids)
        PROVE  FALSE
    BY <1>0, <1>3, <2>4, ImportIsImported
  <2> QED BY <1>0, <1>7, <1>8, <1>9, <2>1, <2>2, <2>3, <2>4
          DEF LabourStep, LabourPatch, LabourDelete
<1>10. ASSUME NEW a \in Users, ExpenseStep(a)
       PROVE  \/ \E d \in Dates, b \in Bodies : Patch(a, e, d, b)
              \/ Delete(a, e)
  <2>1. ASSUME NEW pr \in Projects, NEW u \in Users, NEW c \in Claimants,
               NEW d \in Dates, NEW b \in Bodies, ExpensePost(a, pr, u, c, d, b)
        PROVE  FALSE
    BY <1>0, <1>4, <2>1, PostIsPosted DEF ExpensePost
  <2>2. ASSUME NEW f \in ExpenseIds, ExpenseApprove(a, f) \/ ExpenseReject(a, f)
        PROVE  FALSE
    BY <1>0, <1>2, <2>2, ReviewIsReviewed DEF ExpenseApprove, ExpenseReject
  <2> QED BY <1>0, <1>7, <1>8, <1>10, <2>1, <2>2
          DEF ExpenseStep, ExpensePatch, ExpenseDelete
<1> QED BY <1>5, <1>6, <1>9, <1>10 DEF Next

\* Whoever gets past assertEditable on an approved entry is its reviewer, still
\* an active admin, and an edit sends it back to review.
LEMMA ApprovedStep ==
    ASSUME Inv, Next, NEW e \in EntryIds,
           entry[e] # NoRow, entry[e].status = "approved",
           \/ entry'[e] = NoRow
           \/ Content(entry'[e]) # Content(entry[e])
           \/ entry'[e].period # entry[e].period
    PROVE  /\ requireAdmin(entry[e].reviewer)
           /\ entry'[e] # NoRow =>
                entry'[e].status = "pending" /\ entry'[e].reviewer = NoUser
<1> DEFINE r == entry[e]
<1>0. entry \in [EntryIds -> EntryRow \cup {NoRow}] /\ r \in EntryRow
  BY DEF Inv, TypeOK
<1>1. ASSUME NEW a \in Users, NEW d \in Dates, NEW b \in Bodies, Patch(a, e, d, b)
      PROVE  /\ requireAdmin(r.reviewer)
             /\ entry'[e].status = "pending" /\ entry'[e].reviewer = NoUser
  <2>1. selfApproved(a, r) /\ requireAuth(a)
    BY <1>1 DEF Patch, assertEditable
  <2>2. requireAdmin(r.reviewer)
    BY <2>1 DEF selfApproved, requireAdmin
  <2> DEFINE n == clearReview(a, r)
  <2>3. n \in EntryRow /\ n.status = "pending" /\ n.reviewer = NoUser
    BY <1>0, <2>1, LedgerAssumption DEF clearReview, EntryRow
  <2>4. PICK p \in rebucket(r, d) :
          entry' = [entry EXCEPT ![e] = [n EXCEPT !.date = d, !.body = b, !.period = p]]
    BY <1>1 DEF Patch
  <2>5. entry'[e] = [n EXCEPT !.date = d, !.body = b, !.period = p]
    BY <1>0, <2>4
  <2> HIDE DEF n
  <2>6. entry'[e].status = n.status /\ entry'[e].reviewer = n.reviewer
    BY <2>3, <2>5 DEF EntryRow
  <2> QED BY <2>2, <2>3, <2>6
<1>2. ASSUME NEW a \in Users, Delete(a, e)
      PROVE  requireAdmin(r.reviewer) /\ entry'[e] = NoRow
  BY <1>0, <1>2 DEF Delete, assertEditable, selfApproved, requireAdmin
<1> QED BY <1>1, <1>2, ContentStep

\* An approved entry is rewritten or deleted only on the authority of the very
\* admin recorded as its reviewer, and goes back to review.
THEOREM ApprovedStaysLocked == Spec => ApprovedContentLocked
<1>1. Inv /\ [Next]_vars =>
        [\A e \in EntryIds :
           LET r == entry[e]   s == entry'[e] IN
           /\ r # NoRow
           /\ r.status = "approved"
           /\ s = NoRow \/ Content(s) # Content(r) \/ s.period # r.period
           => /\ requireAdmin(r.reviewer)
              /\ s # NoRow => s.status = "pending" /\ s.reviewer = NoUser]_vars
  BY ApprovedStep
<1> QED BY Invariance, <1>1, PTL DEF Spec, ApprovedContentLocked

-----------------------------------------------------------------------------
(* Audit rows *)

\* What one handler does, whichever table it serves.
Handled(a) ==
    \/ \E p \in Periods, action \in {"create", "close_period", "reopen_period"} :
         requireAdmin(a) /\ audit(a, action, {p}) /\ UNCHANGED entry
    \/ \E e \in EntryIds :
         \/ \E pr \in Projects, u \in Users, c \in Claimants, d \in Dates,
               b \in Bodies : Post(a, e, pr, u, c, d, b)
         \/ \E d \in Dates, b \in Bodies : Patch(a, e, d, b)
         \/ Delete(a, e)
         \/ Review(a, e, "approve", approved(a, entry[e]))
         \/ Review(a, e, "reject", rejected(a, entry[e]))
    \/ \E ids \in SUBSET LabourIds : BulkApprove(a, ids) \/ Import(a, ids)

\* Account handlers write their audit rows elsewhere; any other step is one
\* handler of the ledger.
LEMMA NextIsHandled ==
    Next => (UNCHANGED entry /\ trail' = {}) \/ \E a \in Users : Handled(a)
<1> SUFFICES ASSUME Next
             PROVE  (UNCHANGED entry /\ trail' = {}) \/ \E a \in Users : Handled(a)
  OBVIOUS
<1>1. ASSUME NEW a \in Users, PeriodStep(a) PROVE Handled(a)
  BY <1>1 DEF PeriodStep, CreatePeriod, ClosePeriod, ReopenPeriod, Handled
<1>2. ASSUME NEW a \in Users, LabourStep(a) PROVE Handled(a)
  <2>1. LabourIds \subseteq EntryIds
    BY DEF EntryIds
  <2> QED BY <1>2, <2>1
          DEF LabourStep, LabourPost, LabourPatch, LabourDelete, LabourApprove,
              LabourReject, Handled
<1>3. ASSUME NEW a \in Users, ExpenseStep(a) PROVE Handled(a)
  <2>1. ExpenseIds \subseteq EntryIds
    BY DEF EntryIds
  <2> QED BY <1>3, <2>1
          DEF ExpenseStep, ExpensePost, ExpensePatch, ExpenseDelete,
              ExpenseApprove, ExpenseReject, Handled
<1> QED BY <1>1, <1>2, <1>3 DEF Next

LedgerAuditRow(a, action, e) == [actor |-> a, action |-> action, entity |-> e]

\* audit() names each entity once.
LEMMA AuditRowsOf ==
    ASSUME NEW a, NEW action, NEW es, audit(a, action, es), NEW e
    PROVE  /\ e \notin es => {row \in trail' : row.entity = e} = {}
           /\ e \in es => {row \in trail' : row.entity = e}
                            = {LedgerAuditRow(a, action, e)}
<1>1. trail' = {LedgerAuditRow(a, action, f) : f \in es}
  BY DEF audit, LedgerAuditRow
<1>2. \A f : LedgerAuditRow(a, action, f).entity = f
  BY DEF LedgerAuditRow
<1> HIDE DEF LedgerAuditRow
<1> QED BY <1>1, <1>2

\* A handler that audits exactly the entries it writes, each truthfully, logs
\* every change.
LEMMA AuditedAsWritten ==
    ASSUME NEW a, NEW action, NEW es, audit(a, action, es), NEW e \in EntryIds,
           e \notin es => entry'[e] = entry[e],
           e \in es => Logged(e, LedgerAuditRow(a, action, e))
    PROVE  LET rows == {row \in trail' : row.entity = e} IN
           /\ entry'[e] # entry[e] => rows # {}
           /\ \A row \in rows : rows = {row} /\ Logged(e, row)
BY AuditRowsOf

\* What Logged asks of each action that is about entries.
LEMMA LoggedRows ==
    ASSUME NEW a, NEW e, NEW action
    PROVE  LET row == LedgerAuditRow(a, action, e) IN
           /\ action = "create" /\ entry[e] = NoRow /\ entry'[e] # NoRow => Logged(e, row)
           /\ action = "delete" /\ entry[e] # NoRow /\ entry'[e] = NoRow => Logged(e, row)
           /\ action = "update" /\ entry[e] # NoRow /\ entry'[e] # NoRow => Logged(e, row)
           /\ /\ action = "approve" /\ entry[e] # NoRow /\ entry'[e] # NoRow
              /\ entry'[e] = approved(a, entry[e])
              => Logged(e, row)
           /\ /\ action = "reject" /\ entry[e] # NoRow /\ entry'[e] # NoRow
              /\ entry'[e] = rejected(a, entry[e])
              => Logged(e, row)
BY DEF Logged, LedgerAuditRow

\* Every handler audits what it writes: the rows an import or a bulk approval
\* names are exactly the rows it found fit to write.
LEMMA LoggedStep ==
    ASSUME Inv, Next, NEW e \in EntryIds
    PROVE  LET rows == {row \in trail' : row.entity = e} IN
           /\ entry'[e] # entry[e] => rows # {}
           /\ \A row \in rows : rows = {row} /\ Logged(e, row)
<1> DEFINE Accounted == LET rows == {row \in trail' : row.entity = e} IN
                        /\ entry'[e] # entry[e] => rows # {}
                        /\ \A row \in rows : rows = {row} /\ Logged(e, row)
<1> SUFFICES Accounted
  OBVIOUS
<1>0. /\ entry \in [EntryIds -> EntryRow \cup {NoRow}] /\ NoRow \notin EntryRow
      /\ TypeOK
      /\ entry[e] # NoRow => entry[e] \in EntryRow
  BY LedgerAssumption DEF Inv, TypeOK
<1>1. CASE UNCHANGED entry /\ trail' = {}
  BY <1>1
<1>2. ASSUME NEW a \in Users, NEW p \in Periods, NEW action, audit(a, action, {p}),
             UNCHANGED entry
      PROVE  Accounted
  <2>1. e \notin {p}
    BY LedgerAssumption
  <2> HIDE DEF Accounted
  <2> QED BY <1>2, <2>1, AuditedAsWritten DEF Accounted
<1>3. ASSUME NEW a \in Users, NEW f \in EntryIds, NEW action, NEW s,
             audit(a, action, {f}), entry' = [entry EXCEPT ![f] = s],
             f = e => Logged(e, LedgerAuditRow(a, action, e))
      PROVE  Accounted
  <2>1. e \notin {f} => entry'[e] = entry[e]
    BY <1>0, <1>3
  <2>2. e \in {f} => Logged(e, LedgerAuditRow(a, action, e))
    BY <1>3
  <2> HIDE DEF Accounted
  <2> QED BY <1>3, <2>1, <2>2, AuditedAsWritten DEF Accounted
<1>4. ASSUME NEW a \in Users, NEW f \in EntryIds, NEW pr \in Projects,
             NEW u \in Users, NEW c \in Claimants, NEW d \in Dates,
             NEW b \in Bodies, Post(a, f, pr, u, c, d, b)
      PROVE  Accounted
  <2>0. Posted(f)
    BY <1>0, <1>4, PostIsPosted
  <2>1. PICK s \in EntryRow : entry[f] = NoRow /\ entry' = [entry EXCEPT ![f] = s]
    BY <2>0 DEF Posted
  <2>2. f = e => Logged(e, LedgerAuditRow(a, "create", e))
    BY <1>0, <2>1, LoggedRows
  <2>3. audit(a, "create", {f})
    BY <1>4 DEF Post
  <2> HIDE DEF Accounted
  <2> QED BY <1>3, <2>1, <2>2, <2>3
<1>5. ASSUME NEW a \in Users, NEW f \in EntryIds, NEW d \in Dates, NEW b \in Bodies,
             Patch(a, f, d, b)
      PROVE  Accounted
  <2>0. Patched(f)
    BY <1>5, PatchIsPatched
  <2>1. PICK s \in EntryRow : entry[f] # NoRow /\ entry' = [entry EXCEPT ![f] = s]
    BY <1>0, <2>0 DEF Patched
  <2>2. f = e => Logged(e, LedgerAuditRow(a, "update", e))
    BY <1>0, <2>1, LoggedRows
  <2>3. audit(a, "update", {f})
    BY <1>5 DEF Patch
  <2> HIDE DEF Accounted
  <2> QED BY <1>3, <2>1, <2>2, <2>3
<1>6. ASSUME NEW a \in Users, NEW f \in EntryIds, Delete(a, f) PROVE Accounted
  <2>1. entry[f] # NoRow /\ entry' = [entry EXCEPT ![f] = NoRow]
        /\ audit(a, "delete", {f})
    BY <1>6 DEF Delete
  <2>2. f = e => Logged(e, LedgerAuditRow(a, "delete", e))
    BY <1>0, <2>1, LoggedRows
  <2> HIDE DEF Accounted
  <2> QED BY <1>3, <2>1, <2>2
<1>7. ASSUME NEW a \in Users, NEW f \in EntryIds,
             Review(a, f, "approve", approved(a, entry[f]))
      PROVE  Accounted
  <2>1. PICK s : s = approved(a, entry[f])
    OBVIOUS
  <2>2. entry[f] # NoRow /\ entry' = [entry EXCEPT ![f] = s] /\ audit(a, "approve", {f})
    BY <1>7, <2>1 DEF Review
  <2>3. s \in EntryRow
    BY <1>0, <2>1, <2>2, VerdictRow
  <2>4. f = e => Logged(e, LedgerAuditRow(a, "approve", e))
    BY <1>0, <2>1, <2>2, <2>3, LoggedRows
  <2> HIDE DEF Accounted
  <2> QED BY <1>3, <2>2, <2>4
<1>8. ASSUME NEW a \in Users, NEW f \in EntryIds,
             Review(a, f, "reject", rejected(a, entry[f]))
      PROVE  Accounted
  <2>1. PICK s : s = rejected(a, entry[f])
    OBVIOUS
  <2>2. entry[f] # NoRow /\ entry' = [entry EXCEPT ![f] = s] /\ audit(a, "reject", {f})
    BY <1>8, <2>1 DEF Review
  <2>3. s \in EntryRow
    BY <1>0, <2>1, <2>2, VerdictRow
  <2>4. f = e => Logged(e, LedgerAuditRow(a, "reject", e))
    BY <1>0, <2>1, <2>2, <2>3, LoggedRows
  <2> HIDE DEF Accounted
  <2> QED BY <1>3, <2>2, <2>4
<1>9. ASSUME NEW a \in Users, NEW ids \in SUBSET LabourIds, BulkApprove(a, ids)
      PROVE  Accounted
  <2>1. PICK es : es = {f \in ids : entry[f] # NoRow}
    OBVIOUS
  <2>2. audit(a, "approve", es)
    BY <1>9, <2>1 DEF BulkApprove
  <2>3. e \notin es => entry'[e] = entry[e]
    BY <1>9, <2>1 DEF BulkApprove
  <2>4. ASSUME e \in es PROVE Logged(e, LedgerAuditRow(a, "approve", e))
    <3>1. entry[e] # NoRow /\ entry'[e] = approved(a, entry[e])
      BY <1>9, <2>1, <2>4 DEF BulkApprove
    <3>2. entry'[e] \in EntryRow
      BY <1>0, <3>1, VerdictRow
    <3> QED BY <1>0, <3>1, <3>2, LoggedRows
  <2> HIDE DEF Accounted
  <2> QED BY <2>2, <2>3, <2>4, AuditedAsWritten DEF Accounted
<1>10. ASSUME NEW a \in Users, NEW ids \in SUBSET LabourIds, Import(a, ids)
       PROVE  Accounted
  <2> HIDE DEF Accounted
  <2>1. audit(a, "create", ids)
    BY <1>10 DEF Import
  <2>2. e \notin ids => entry'[e] = entry[e]
    BY <1>10 DEF Import
  <2>3. ASSUME e \in ids PROVE Logged(e, LedgerAuditRow(a, "create", e))
    <3>1. entry[e] = NoRow /\ entry'[e] # NoRow
      BY <1>0, <1>10, <2>3, ImportWrites
    <3> QED BY <3>1, LoggedRows
  <2> QED BY <2>1, <2>2, <2>3, AuditedAsWritten DEF Accounted
<1> HIDE DEF Accounted
<1>11. ASSUME NEW a \in Users, Handled(a) PROVE Accounted
  BY <1>2, <1>4, <1>5, <1>6, <1>7, <1>8, <1>9, <1>10, <1>11 DEF Handled
<1> QED BY <1>1, <1>11, NextIsHandled

\* Every change to an entry leaves exactly one audit row naming it, and the row
\* tells what happened.
THEOREM EveryChangeIsLogged == Spec => EveryChangeLogged
<1>1. Inv /\ [Next]_vars =>
        [\A e \in EntryIds :
           LET rows == {row \in trail' : row.entity = e} IN
           /\ entry'[e] # entry[e] => rows # {}
           /\ \A row \in rows : rows = {row} /\ Logged(e, row)]_vars
  BY LoggedStep
<1> QED BY Invariance, <1>1, PTL DEF Spec, EveryChangeLogged

\* Without being an admin one posts, edits or deletes one's own, under an active
\* attachment, and leaves the entry to a reviewer.
LEMMA OwnStep ==
    ASSUME Inv, Next, NEW row \in trail', row.entity \in EntryIds,
           ~requireAdmin(row.actor),
           NEW r, r = IF entry[row.entity] = NoRow THEN entry'[row.entity]
                                                   ELSE entry[row.entity]
    PROVE  /\ requireAuth(row.actor)
           /\ r.user = row.actor
           /\ att[r.user][r.claimant] = "active"
           /\ entry'[row.entity] # NoRow => entry'[row.entity].status = "pending"
<1>0. /\ entry \in [EntryIds -> EntryRow \cup {NoRow}] /\ NoRow \notin EntryRow
      /\ TypeOK
  BY LedgerAssumption DEF Inv, TypeOK
<1>1. PICK a \in Users : Handled(a)
  BY NextIsHandled
<1>2. \A action, es : audit(a, action, es) => row.actor = a /\ row.entity \in es
  BY DEF audit
<1>3. PICK e \in EntryIds : e = row.entity
  OBVIOUS
<1>4. ~requireAdmin(a)
  BY <1>1, <1>2 DEF Handled, Post, Patch, Delete, Review, BulkApprove, Import
<1>5. ASSUME NEW f \in EntryIds, NEW pr \in Projects,
             NEW u \in Users, NEW c \in Claimants, NEW d \in Dates,
             NEW b \in Bodies, Post(a, f, pr, u, c, d, b)
      PROVE  /\ requireAuth(a) /\ row.actor = a
             /\ r.user = a /\ att[r.user][r.claimant] = "active"
             /\ entry'[e].status = "pending"
  <2>1. PICK p \in findOpenPeriod(ClaimantOf[pr], d) :
          entry' = [entry EXCEPT ![f] = initialReview(a, NewRow(pr, u, c, p, d, b))]
    BY <1>5 DEF Post
  <2>2. requireAuth(a) /\ row.actor = a /\ f = e /\ entry[e] = NoRow
    BY <1>2, <1>3, <1>5 DEF Post
  <2>3. u = a /\ att[u][c] = "active" /\ role[a] # "admin"
    BY <1>4, <1>5, <2>2 DEF Post, resolveUserClaimant, requireAdmin
  <2> DEFINE s == initialReview(a, NewRow(pr, u, c, p, d, b))
  <2>4. s.user = u /\ s.claimant = c /\ s.status = "pending"
    BY <2>3 DEF initialReview, NewRow
  <2>5. entry'[e] = s /\ r = s
    BY <1>0, <1>3, <2>1, <2>2
  <2> HIDE DEF s
  <2> QED BY <2>2, <2>3, <2>4, <2>5
<1>6. ASSUME NEW f \in EntryIds, NEW d \in Dates, NEW b \in Bodies, Patch(a, f, d, b)
      PROVE  /\ requireAuth(a) /\ row.actor = a
             /\ r.user = a /\ att[r.user][r.claimant] = "active"
             /\ entry'[e].status = "pending"
  <2>1. requireAuth(a) /\ row.actor = a /\ f = e /\ entry[e] # NoRow /\ r = entry[e]
    BY <1>2, <1>3, <1>6 DEF Patch
  <2>2. role[a] # "admin" /\ r \in EntryRow
    BY <1>0, <1>4, <2>1 DEF requireAdmin
  <2>3. r.user = a /\ att[r.user][r.claimant] = "active"
    BY <1>6, <2>1, <2>2 DEF Patch, isOwnerOrAdmin
  <2>4. r.status \in {"pending", "rejected"}
    BY <1>6, <2>1, <2>2 DEF Patch, assertEditable, selfApproved, EntryRow
  <2> DEFINE n == clearReview(a, r)
  <2>5. n \in EntryRow /\ n.status = "pending"
    BY <2>2, <2>4, LedgerAssumption DEF clearReview, selfApproved, EntryRow
  <2>6. PICK p : entry' = [entry EXCEPT ![e] =
                             [n EXCEPT !.date = d, !.body = b, !.period = p]]
    BY <1>6, <2>1 DEF Patch
  <2>7. entry'[e] = [n EXCEPT !.date = d, !.body = b, !.period = p]
    BY <1>0, <2>6
  <2> HIDE DEF n
  <2>8. entry'[e].status = n.status
    BY <2>5, <2>7 DEF EntryRow
  <2> QED BY <2>1, <2>3, <2>5, <2>8
<1>7. ASSUME NEW f \in EntryIds, Delete(a, f)
      PROVE  /\ requireAuth(a) /\ row.actor = a
             /\ r.user = a /\ att[r.user][r.claimant] = "active"
             /\ entry'[e] = NoRow
  <2>1. requireAuth(a) /\ row.actor = a /\ f = e /\ entry[e] # NoRow /\ r = entry[e]
    BY <1>2, <1>3, <1>7 DEF Delete
  <2>2. role[a] # "admin"
    BY <1>4, <2>1 DEF requireAdmin
  <2> QED BY <1>0, <1>7, <2>1, <2>2 DEF Delete, isOwnerOrAdmin
<1>8. \E f \in EntryIds :
         \/ \E pr \in Projects, u \in Users, c \in Claimants, d \in Dates,
               b \in Bodies : Post(a, f, pr, u, c, d, b)
         \/ \E d \in Dates, b \in Bodies : Patch(a, f, d, b)
         \/ Delete(a, f)
  BY <1>1, <1>4 DEF Handled, Review, BulkApprove, Import
<1> QED BY <1>3, <1>5, <1>6, <1>7, <1>8

\* Whoever is not an admin at the time of the call reaches only entries of an
\* active attachment of their own, and no review.
THEOREM EmployeesStayWithTheirOwn == Spec => EmployeesKeepToTheirOwn
<1>1. Inv /\ [Next]_vars =>
        [\A row \in trail' : row.entity \in EntryIds /\ ~requireAdmin(row.actor) =>
           LET r == IF entry[row.entity] = NoRow THEN entry'[row.entity]
                                                 ELSE entry[row.entity] IN
           /\ requireAuth(row.actor)
           /\ r.user = row.actor
           /\ att[r.user][r.claimant] = "active"
           /\ entry'[row.entity] # NoRow => entry'[row.entity].status = "pending"]_vars
  BY OwnStep
<1> QED BY Invariance, <1>1, PTL DEF Spec, EmployeesKeepToTheirOwn

-----------------------------------------------------------------------------
(* Refinement: the ledger implements closable books. *)

\* The freshly seeded database is an empty set of books.
LEMMA BooksStart == Init => Books!BooksInit
BY DEF Init, Books!BooksInit, lockOf, bookOf, recordOf

\* Only the content and the period of a row are visible in the books.
LEMMA RecordOf ==
    ASSUME NEW r \in EntryRow, OpenPeriod(r.period)
    PROVE  Books!inOpenBook([period |-> r.period, content |-> Content(r)])
BY LedgerAssumption DEF EntryRow, Content, OpenPeriod, lockOf, Books!inOpenBook, Books!Record

\* Opening, closing and reopening a period is turning its lock.
LEMMA TurnStep ==
    ASSUME Inv, PeriodsTurned
    PROVE  Books!BooksNext
<1>1. bookOf' = bookOf
  BY DEF PeriodsTurned, bookOf, recordOf, Content
<1>2. PICK p \in Periods :
        /\ \A q \in Periods : q # p => period'[q] = period[q]
        /\ period'[p] \in PeriodRow
        /\ \/ period[p] = NoRow /\ period'[p].status = "open"
           \/ /\ period[p] \in PeriodRow
              /\ period'[p].status # period[p].status
              /\ period'[p] = [period[p] EXCEPT !.status = period'[p].status]
  BY DEF PeriodsTurned
<1>3. lockOf' = [lockOf EXCEPT ![p] = lockOf'[p]]
  BY <1>2 DEF lockOf
<1>4. period'[p] # NoRow /\ period'[p].status \in {"open", "closed"}
  BY <1>2, LedgerAssumption DEF PeriodRow
<1>5. lockOf'[p] = period'[p].status
  BY <1>4 DEF lockOf
<1>6. \/ lockOf[p] = "none" /\ lockOf'[p] = "open"
      \/ lockOf[p] = "open" /\ lockOf'[p] = "closed"
      \/ lockOf[p] = "closed" /\ lockOf'[p] = "open"
  <2>1. CASE period[p] = NoRow
    BY <1>2, <1>5, <2>1, LedgerAssumption DEF lockOf
  <2>2. CASE period[p] # NoRow
    <3>1. period[p] \in PeriodRow
      BY <2>2 DEF Inv, TypeOK
    <3> QED BY <1>2, <1>4, <1>5, <2>2, <3>1, LedgerAssumption DEF lockOf, PeriodRow
  <2> QED BY <2>1, <2>2
<1> QED BY <1>1, <1>3, <1>6 DEF Books!BooksNext, Books!Turn

\* A step that leaves accounts and periods alone writes, amends or strikes
\* records of open books, or shows nothing.
LEMMA EntryStep ==
    ASSUME Inv, Moved, Same
    PROVE  Books!BooksNext \/ (lockOf' = lockOf /\ bookOf' = bookOf)
<1>0. /\ entry \in [EntryIds -> EntryRow \cup {NoRow}]
      /\ lockOf' = lockOf /\ UNCHANGED period
  BY DEF Same, Inv, TypeOK, lockOf
<1>1. \A r \in EntryRow : /\ recordOf(r) = [period |-> r.period, content |-> Content(r)]
                          /\ OpenPeriod(r.period) => Books!inOpenBook(recordOf(r))
  <2>1. NoRow \notin EntryRow
    BY LedgerAssumption
  <2> QED BY <2>1, RecordOf DEF recordOf
<1>2. recordOf(NoRow) = NoRow
  BY DEF recordOf
<1>3. \A e \in EntryIds : bookOf[e] = recordOf(entry[e])
                          /\ bookOf'[e] = recordOf(entry'[e])
  BY DEF bookOf, recordOf, Content
<1>4. ASSUME NEW e \in EntryIds, Posted(e) PROVE Books!Write({e})
  <2>1. PICK s \in EntryRow : entry' = [entry EXCEPT ![e] = s] /\ OpenPeriod(s.period)
    BY <1>4 DEF Posted
  <2>2. entry[e] = NoRow /\ entry'[e] = s /\ \A f \in EntryIds : f # e => entry'[f] = entry[f]
    BY <1>0, <1>4, <2>1 DEF Posted
  <2>3. bookOf[e] = NoRow /\ Books!inOpenBook(bookOf'[e])
    BY <1>1, <1>2, <1>3, <2>1, <2>2
  <2>4. bookOf' = [f \in EntryIds |-> IF f \in {e} THEN bookOf'[f] ELSE bookOf[f]]
    BY <2>2 DEF bookOf, recordOf, Content
  <2> QED BY <1>0, <2>3, <2>4 DEF Books!Write
<1>5. ASSUME NEW e \in EntryIds, Patched(e) PROVE Books!Amend(e)
  <2>1. PICK s \in EntryRow : entry' = [entry EXCEPT ![e] = s] /\ OpenPeriod(s.period)
    BY <1>5 DEF Patched
  <2>2. /\ entry[e] \in EntryRow /\ OpenPeriod(entry[e].period)
        /\ entry'[e] = s /\ \A f \in EntryIds : f # e => entry'[f] = entry[f]
    BY <1>0, <1>5, <2>1 DEF Patched
  <2>3. Books!inOpenBook(bookOf[e]) /\ Books!inOpenBook(bookOf'[e])
    BY <1>1, <1>3, <2>1, <2>2
  <2>4. bookOf' = [bookOf EXCEPT ![e] = bookOf'[e]]
    BY <2>2 DEF bookOf, recordOf, Content
  <2> QED BY <1>0, <2>3, <2>4 DEF Books!Amend
<1>6. ASSUME NEW e \in EntryIds, Deleted(e) PROVE Books!Strike(e)
  <2>1. /\ entry[e] \in EntryRow /\ OpenPeriod(entry[e].period)
        /\ entry'[e] = NoRow /\ \A f \in EntryIds : f # e => entry'[f] = entry[f]
    BY <1>0, <1>6 DEF Deleted
  <2>2. Books!inOpenBook(bookOf[e])
    BY <1>1, <1>3, <2>1
  <2>3. bookOf' = [bookOf EXCEPT ![e] = NoRow]
    BY <1>2, <2>1 DEF bookOf, recordOf, Content
  <2> QED BY <1>0, <2>2, <2>3 DEF Books!Strike
<1>7. CASE Reviewed
  <2>1. ASSUME NEW e \in EntryIds PROVE bookOf'[e] = bookOf[e]
    BY <1>1, <1>3, <1>7 DEF Reviewed
  <2>2. bookOf' = bookOf
    BY <2>1 DEF bookOf
  <2> QED BY <1>0, <2>2
<1>8. CASE Imported
  <2> DEFINE S == {e \in EntryIds : entry'[e] # entry[e]}
  <2>1. ASSUME NEW e \in S
        PROVE  bookOf[e] = NoRow /\ Books!inOpenBook(bookOf'[e])
    <3>1. entry[e] = NoRow /\ entry'[e] \in EntryRow /\ OpenPeriod(entry'[e].period)
      BY <1>8 DEF Imported, OpenPeriod
    <3> QED BY <1>1, <1>2, <1>3, <3>1
  <2>2. bookOf' = [e \in EntryIds |-> IF e \in S THEN bookOf'[e] ELSE bookOf[e]]
    <3>1. \A e \in EntryIds : e \notin S => bookOf'[e] = bookOf[e]
      BY <1>3
    <3> QED BY <3>1 DEF bookOf
  <2>3. Books!Write(S)
    BY <1>0, <2>1, <2>2 DEF Books!Write
  <2>4. S \in SUBSET EntryIds
    OBVIOUS
  <2> QED BY <2>3, <2>4 DEF Books!BooksNext
<1>9. CASE UNCHANGED entry
  BY <1>0, <1>9 DEF bookOf, recordOf, Content
<1>10. \A e \in EntryIds : {e} \in SUBSET EntryIds
  OBVIOUS
<1> QED BY <1>4, <1>5, <1>6, <1>7, <1>8, <1>9, <1>10
        DEF Moved, AccountsMoved, PeriodsTurned, Books!BooksNext

\* Every step of the ledger is a step of the books or invisible there.
LEMMA BooksStep ==
    Inv /\ [Next]_vars => [Books!BooksNext]_<<lockOf, bookOf>>
<1> SUFFICES ASSUME Inv, [Next]_vars
             PROVE  Books!BooksNext \/ (lockOf' = lockOf /\ bookOf' = bookOf)
  OBVIOUS
<1>1. CASE UNCHANGED <<period, entry>>
  BY <1>1 DEF lockOf, bookOf, recordOf, Content
<1>2. CASE PeriodsTurned
  BY <1>2, TurnStep
<1>3. CASE Moved /\ Same
  BY <1>3, EntryStep
<1> QED BY <1>1, <1>2, <1>3, StepMoves
        DEF Moved, AccountsMoved, Posted, Patched, Deleted, Reviewed, Imported, Same, vars

\* The ledger implements closable books, for any constants.
THEOREM LedgerImplementsBooks == Spec => ImplementsBooks
<1> QED BY Invariance, BooksStart, BooksStep, PTL
        DEF Spec, ImplementsBooks, Books!BooksSpec, Books!bookVars
=============================================================================
