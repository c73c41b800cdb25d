---------------------------- MODULE ClaimsProofs ----------------------------
(***************************************************************************)
(* Proofs about claims, for any expenses, days, periods and bodies: the    *)
(* types, what can still change the figures of a closed period, what PATCH *)
(* makes of a body and of the editor saved untouched, that the formats of  *)
(* a T661 say the same, and that its figures add up.                       *)
(***************************************************************************)
EXTENDS Claims, FiniteSetTheorems, WellFoundedInduction, TLAPS

-----------------------------------------------------------------------------
(* What a step may do to the expenses *)

\* No row, or a row whose day belongs to an open period.
open(r) == r # NoRow => periodOf(r) \notin closed

\* Row x becomes r, in open periods alone.
Written(x, r) ==
    /\ expense' = [expense EXCEPT ![x] = r]
    /\ r \in ExpenseRow \cup {NoRow}
    /\ open(expense[x]) /\ open(r)
    /\ UNCHANGED <<closed, reporting, costVars>>

Reviewed(x, a) == Approve(a, x) \/ Reject(a, x)

\* Everything else leaves the expenses alone.
Settled ==
    /\ UNCHANGED expense
    /\ closed' \subseteq Periods /\ reporting' \in Currencies
    /\ pay' \in [Attachments -> Seq(PayRow)] /\ specified' \subseteq Attachments
    /\ type' \in [Projects -> ProjectTypes \cup {"none"}] /\ approvedLabour' \subseteq Labour

LEMMA PostWrites ==
    ASSUME ClaimsTypeOK, NEW a \in Users, NEW x \in Expenses, NEW body, Post(a, x, body)
    PROVE  \E r : Written(x, r)
<1> DEFINE m == inserted(body)
           r == [fields |-> m,
                 status |-> IF a \in Admins THEN "approved" ELSE "pending",
                 reviewer |-> IF a \in Admins THEN a ELSE Null]
<1>1. /\ expense[x] = NoRow /\ mayPost(body, reporting) /\ m \in Fields
      /\ PeriodOf[body.expense_date] \notin closed
      /\ expense' = [expense EXCEPT ![x] = r]
      /\ UNCHANGED <<closed, reporting, costVars>>
  BY DEF Post, columnsFit
<1>2. m.expense_date = body.expense_date
  BY DEF inserted, posted
<1> HIDE DEF m
<1>3. r \in ExpenseRow /\ r.fields = m
  BY <1>1 DEF ExpenseRow
<1>4. open(r)
  BY <1>1, <1>2, <1>3 DEF open, periodOf
<1> HIDE DEF r
<1> QED BY <1>1, <1>3, <1>4 DEF Written, open

LEMMA PatchWrites ==
    ASSUME ClaimsTypeOK, NEW a \in Users, NEW x \in Expenses, NEW body, Patch(a, x, body)
    PROVE  \E r : Written(x, r)
<1> DEFINE e == expense[x]
           u == updatesOf(e.fields, body)
           m == updated(e.fields, u)
           r == IF reviewCleared(a, e)
                  THEN [fields |-> m, status |-> "pending", reviewer |-> Null]
                  ELSE [e EXCEPT !.fields = m]
<1>1. /\ e # NoRow /\ editable(a, e) /\ m \in Fields
      /\ m.expense_date # e.fields.expense_date => PeriodOf[m.expense_date] \notin closed
      /\ expense' = [expense EXCEPT ![x] = r]
      /\ UNCHANGED <<closed, reporting, costVars>>
  BY DEF Patch, stands, columnsFit
<1>2. e \in ExpenseRow
  BY <1>1 DEF ClaimsTypeOK
<1> HIDE DEF m
<1>3. r \in ExpenseRow /\ r.fields = m
  BY <1>1, <1>2 DEF ExpenseRow
<1>4. open(e)
  BY <1>1 DEF open, editable
<1>5. open(r)
  BY <1>1, <1>3, <1>4 DEF open, periodOf
<1> HIDE DEF r
<1> QED BY <1>1, <1>3, <1>4, <1>5 DEF Written

LEMMA DeleteWrites ==
    ASSUME ClaimsTypeOK, NEW a \in Users, NEW x \in Expenses, Delete(a, x)
    PROVE  Written(x, NoRow)
BY DEF Delete, stands, editable, Written, open

LEMMA StepMoves ==
    ASSUME ClaimsTypeOK, [ClaimsNext]_claimVars
    PROVE  \/ \E x \in Expenses : \E r : Written(x, r)
           \/ \E x \in Expenses, a \in Admins : Reviewed(x, a)
           \/ Settled
<1> USE ClaimsAssumption DEF Users
<1>1. ASSUME NEW x \in Touched, NEW a \in Users,
             \/ \E body \in PostBodies : Post(a, x, body)
             \/ \E body \in PatchBodies : Patch(a, x, body)
             \/ SaveEdit(a, x)
             \/ Delete(a, x)
      PROVE  \E r : Written(x, r)
  <2>1. ASSUME NEW body, Post(a, x, body) PROVE \E r : Written(x, r)
    BY <2>1, PostWrites
  <2>2. ASSUME NEW body, Patch(a, x, body) PROVE \E r : Written(x, r)
    BY <2>2, PatchWrites
  <2>3. CASE SaveEdit(a, x)
    BY <2>2, <2>3 DEF SaveEdit
  <2> QED BY <1>1, <2>1, <2>2, <2>3, DeleteWrites
<1>2. ASSUME NEW x \in Touched, SubmitExpense(x) PROVE \E r : Written(x, r)
  <2>1. PICK body : Post(Employee, x, body)
    BY <1>2 DEF SubmitExpense
  <2> QED BY <2>1, PostWrites
<1>3. ASSUME NEW x \in Touched, NEW a \in Admins, PostOnBehalf(a, x)
      PROVE  \E r : Written(x, r)
  <2>1. PICK body : Post(a, x, body)
    BY <1>3 DEF PostOnBehalf
  <2> QED BY <2>1, PostWrites
<1>4. ASSUME NEW q \in Closing, ClosePeriod(q) \/ ReopenPeriod(q) PROVE Settled
  BY <1>4 DEF ClosePeriod, ReopenPeriod, Settled, ClaimsTypeOK, costVars
<1>5. ASSUME NEW c \in Currencies, PatchClaimant(c) PROVE Settled
  BY <1>5 DEF PatchClaimant, Settled, ClaimsTypeOK, costVars
<1>6. ASSUME NEW uc \in Attachments, NEW row \in NewPay, PostCompensation(uc, row)
      PROVE  Settled
  <2>1. pay[uc] \in Seq(PayRow) /\ row \in PayRow
    BY ClaimsAssumption DEF ClaimsTypeOK
  <2>2. Append(pay[uc], row) \in Seq(PayRow)
    BY <2>1
  <2> QED BY <1>6, <2>2 DEF PostCompensation, Settled, ClaimsTypeOK
<1>7. ASSUME NEW uc \in Attachments, NEW flag \in BOOLEAN, PatchAttachment(uc, flag)
      PROVE  Settled
  BY <1>7 DEF PatchAttachment, Settled, ClaimsTypeOK
<1>8. ASSUME NEW p \in Retyped, NEW t \in ProjectTypes, CreateProject(p, t) \/ Retype(p, t)
      PROVE  Settled
  BY <1>8 DEF CreateProject, Retype, Settled, ClaimsTypeOK
<1>9. ASSUME NEW ls \in SUBSET Contested, ApproveLabour(ls) PROVE Settled
  BY <1>9 DEF ApproveLabour, Settled, ClaimsTypeOK
<1>10. ASSUME NEW l \in Contested, RejectLabour(l) PROVE Settled
  BY <1>10 DEF RejectLabour, Settled, ClaimsTypeOK
<1>11. CASE UNCHANGED claimVars
  BY <1>11 DEF claimVars, costVars, Settled, ClaimsTypeOK
<1> QED BY <1>1, <1>2, <1>3, <1>4, <1>5, <1>6, <1>7, <1>8, <1>9, <1>10, <1>11
       DEF ClaimsNext, Reviewed

-----------------------------------------------------------------------------
(* Types *)

LEMMA InitTyped == ClaimsInit => ClaimsTypeOK
<1> SUFFICES ASSUME ClaimsInit PROVE ClaimsTypeOK
  OBVIOUS
<1>1. Seeds \subseteq [Expenses -> ExpenseRow \cup {NoRow}]
  BY ClaimsAssumption
<1>2. type \in [Projects -> ProjectTypes \cup {"none"}]
  BY DEF ClaimsInit, ProjectTypes
<1> QED BY <1>1, <1>2, ClaimsAssumption DEF ClaimsInit, ClaimsTypeOK

LEMMA StepTyped == ClaimsTypeOK /\ [ClaimsNext]_claimVars => ClaimsTypeOK'
<1> SUFFICES ASSUME ClaimsTypeOK, [ClaimsNext]_claimVars PROVE ClaimsTypeOK'
  OBVIOUS
<1>1. ASSUME NEW x \in Expenses, NEW r, Written(x, r) PROVE ClaimsTypeOK'
  BY <1>1 DEF Written, costVars, ClaimsTypeOK
<1>2. ASSUME NEW x \in Expenses, NEW a \in Admins, Reviewed(x, a) PROVE ClaimsTypeOK'
  <2>1. /\ expense[x] \in ExpenseRow
        /\ expense \in [Expenses -> ExpenseRow \cup {NoRow}]
        /\ UNCHANGED <<closed, reporting, costVars>>
    BY <1>2 DEF Reviewed, Approve, Reject, stands, costVars, ClaimsTypeOK
  <2>2. PICK s \in {"approved", "rejected"} :
          expense' = [expense EXCEPT ![x] = [@ EXCEPT !.status = s, !.reviewer = a]]
    <3>1. CASE Approve(a, x)
      BY <2>1, <3>1 DEF Approve
    <3>2. CASE Reject(a, x)
      BY <2>1, <3>2 DEF Reject
    <3> QED BY <1>2, <3>1, <3>2 DEF Reviewed
  <2>3. [expense[x] EXCEPT !.status = s, !.reviewer = a] \in ExpenseRow
    BY <2>1 DEF ExpenseRow
  <2>4. expense' \in [Expenses -> ExpenseRow \cup {NoRow}]
    BY <2>1, <2>2, <2>3
  <2> QED BY <2>1, <2>4 DEF ClaimsTypeOK, costVars
<1>3. CASE Settled
  BY <1>3 DEF Settled, ClaimsTypeOK
<1> QED BY <1>1, <1>2, <1>3, StepMoves

\* Whatever bodies the API and the forms are sent, every expense has the fields
\* of its columns (expenses.js:178-409).
THEOREM ClaimsTyped == ClaimsSpec => []ClaimsTypeOK
BY InitTyped, StepTyped, PTL DEF ClaimsSpec

-----------------------------------------------------------------------------
(* The figures of a closed period *)

\* What is written in open periods is not among the approved rows of a closed
\* one, before or after.
LEMMA ClosedRowsStand ==
    ASSUME ClaimsTypeOK, NEW x \in Expenses, NEW r, Written(x, r), NEW q \in closed
    PROVE  /\ approvedIn(q)' = approvedIn(q)
           /\ \A y \in approvedIn(q) : lineFor(y)' = lineFor(y)
<1>1. expense'[x] = r /\ \A y \in Expenses \ {x} : expense'[y] = expense[y]
  BY DEF Written, ClaimsTypeOK
<1>2. x \notin approvedIn(q)
  BY DEF approvedIn, stands, Written, open
<1>3. \A y \in approvedIn(q) : y \in Expenses \ {x}
  BY <1>2 DEF approvedIn
<1>4. ~(expense'[x] # NoRow /\ expense'[x].status = "approved" /\ periodOf(expense'[x]) = q)
  BY <1>1 DEF Written, open
<1>5. approvedIn(q)' = approvedIn(q)
  BY <1>1, <1>2, <1>4 DEF approvedIn, stands, periodOf
<1>6. \A y \in approvedIn(q) : lineFor(y)' = lineFor(y)
  BY <1>1, <1>3 DEF lineFor
<1> QED BY <1>5, <1>6

\* Nor is an expense of another period, when it is reviewed.
LEMMA OtherReviewsStand ==
    ASSUME ClaimsTypeOK, NEW x \in Expenses, NEW a \in Admins, Reviewed(x, a),
           NEW q, periodOf(expense[x]) # q
    PROVE  /\ approvedIn(q)' = approvedIn(q)
           /\ \A y \in approvedIn(q) : lineFor(y)' = lineFor(y)
<1>1. PICK s \in {"approved", "rejected"} :
        expense' = [expense EXCEPT ![x] = [@ EXCEPT !.status = s, !.reviewer = a]]
  <2>1. CASE Approve(a, x)
    BY <2>1 DEF Approve
  <2>2. CASE Reject(a, x)
    BY <2>2 DEF Reject
  <2> QED BY <2>1, <2>2 DEF Reviewed
<1>2. expense[x] \in ExpenseRow
  BY DEF Reviewed, Approve, Reject, stands, ClaimsTypeOK
<1>3. /\ expense'[x].fields = expense[x].fields
      /\ \A y \in Expenses \ {x} : expense'[y] = expense[y]
  BY <1>1, <1>2 DEF ClaimsTypeOK, ExpenseRow
<1>4. periodOf(expense'[x]) # q
  BY <1>3 DEF periodOf
<1>5. approvedIn(q)' = approvedIn(q)
  BY <1>3, <1>4 DEF approvedIn, stands, periodOf
<1>6. \A y \in approvedIn(q) : lineFor(y)' = lineFor(y)
  BY <1>3 DEF approvedIn, lineFor
<1> QED BY <1>5, <1>6

\* The approved labour of a period.
labourOf(q) == {l \in approvedLabour : PeriodOf[l.day] = q}

LEMMA BookStands ==
    ASSUME NEW q, NEW method, UNCHANGED <<pay, specified, type>>, labourOf(q)' = labourOf(q),
           approvedIn(q)' = approvedIn(q), \A y \in approvedIn(q) : lineFor(y)' = lineFor(y)
    PROVE  bookOf(q, method)' = bookOf(q, method)
<1> DEFINE counted == {y \in approvedIn(q) : ProjectOf[y] \in sred}
           worked == {l \in approvedLabour : PeriodOf[l.day] = q /\ l.project \in sred}
<1>1. pay' = pay /\ specified' = specified /\ sred' = sred
  BY DEF sred
<1>2. counted' = counted /\ \A y \in counted : lineFor(y)' = lineFor(y)
  BY <1>1
<1>3. {lineFor(y) : y \in counted}' = {lineFor(y) : y \in counted}
  BY <1>2
<1>4. worked' = worked
  <2>1. worked = {l \in labourOf(q) : l.project \in sred}
    BY DEF labourOf
  <2>2. worked' = {l \in labourOf(q)' : l.project \in sred'}
    BY DEF labourOf
  <2> QED BY <1>1, <2>1, <2>2
<1> QED BY <1>1, <1>3, <1>4 DEF bookOf

\* The handlers that reach the figures of any period.
Unbounded ==
    \/ \E uc \in Attachments, row \in NewPay : PostCompensation(uc, row)
    \/ \E uc \in Attachments, flag \in BOOLEAN : PatchAttachment(uc, flag)
    \/ \E p \in Projects, t \in ProjectTypes : CreateProject(p, t) \/ Retype(p, t)

LabourReviewed ==
    \E ls \in SUBSET Labour : \E l \in ls : ApproveLabour(ls) \/ RejectLabour(l)

\* What else they are computed from changes in no other step.
LEMMA CostsChange ==
    ASSUME [ClaimsNext]_claimVars
    PROVE  UNCHANGED costVars \/ Unbounded \/ LabourReviewed
<1> USE ClaimsAssumption
<1>1. ASSUME NEW a \in Users, NEW x, NEW body, Post(a, x, body) \/ Patch(a, x, body)
      PROVE  UNCHANGED costVars
  BY <1>1 DEF Post, Patch
<1>2. ASSUME NEW x \in Touched, NEW a \in Users,
             \/ \E body \in PostBodies : Post(a, x, body)
             \/ \E body \in PatchBodies : Patch(a, x, body)
             \/ SaveEdit(a, x)
             \/ Delete(a, x)
      PROVE  UNCHANGED costVars
  BY <1>1, <1>2 DEF SaveEdit, Delete
<1>3. ASSUME NEW x \in Touched, SubmitExpense(x) PROVE UNCHANGED costVars
  BY <1>1, <1>3 DEF SubmitExpense, Users
<1>4. ASSUME NEW x \in Touched, NEW a \in Admins,
             PostOnBehalf(a, x) \/ Approve(a, x) \/ Reject(a, x)
      PROVE  UNCHANGED costVars
  BY <1>1, <1>4 DEF PostOnBehalf, Approve, Reject, Users
<1>5. ASSUME NEW q \in Closing, ClosePeriod(q) \/ ReopenPeriod(q) PROVE UNCHANGED costVars
  BY <1>5 DEF ClosePeriod, ReopenPeriod
<1>6. ASSUME NEW c \in Currencies, PatchClaimant(c) PROVE UNCHANGED costVars
  BY <1>6 DEF PatchClaimant
<1>7. ASSUME NEW ls \in SUBSET Contested, ApproveLabour(ls)
      PROVE  UNCHANGED costVars \/ LabourReviewed
  <2>1. CASE ls = {}
    BY <1>7, <2>1 DEF ApproveLabour, costVars
  <2>2. CASE ls # {}
    BY <1>7, <2>2 DEF LabourReviewed
  <2> QED BY <2>1, <2>2
<1>8. ASSUME NEW l \in Contested, RejectLabour(l) PROVE LabourReviewed
  <2>1. {l} \in SUBSET Labour
    OBVIOUS
  <2> QED BY <1>8, <2>1 DEF LabourReviewed
<1>9. CASE UNCHANGED claimVars
  BY <1>9 DEF claimVars
<1> QED BY <1>2, <1>3, <1>4, <1>5, <1>6, <1>7, <1>8, <1>9 DEF ClaimsNext, Unbounded

LEMMA StepStands == ClaimsTypeOK /\ [ClaimsNext]_claimVars =>
    \A q \in closed, method \in Methods : bookOf(q, method)' # bookOf(q, method) =>
      \/ \E x \in Expenses, a \in Admins :
           (Approve(a, x) \/ Reject(a, x)) /\ periodOf(expense[x]) = q
      \/ \E ls \in SUBSET Labour : \E l \in ls :
           (ApproveLabour(ls) \/ RejectLabour(l)) /\ PeriodOf[l.day] = q
      \/ \E uc \in Attachments, row \in NewPay : PostCompensation(uc, row)
      \/ \E uc \in Attachments, flag \in BOOLEAN : PatchAttachment(uc, flag)
      \/ \E p \in Projects, t \in ProjectTypes : CreateProject(p, t) \/ Retype(p, t)
<1> SUFFICES ASSUME ClaimsTypeOK, [ClaimsNext]_claimVars,
                    NEW q \in closed, NEW method \in Methods, ~Unbounded,
                    ~\E x \in Expenses, a \in Admins :
                       Reviewed(x, a) /\ periodOf(expense[x]) = q,
                    ~\E ls \in SUBSET Labour : \E l \in ls :
                       (ApproveLabour(ls) \/ RejectLabour(l)) /\ PeriodOf[l.day] = q
             PROVE  bookOf(q, method)' = bookOf(q, method)
  BY DEF Reviewed, Unbounded
<1>1. UNCHANGED <<pay, specified, type>> /\ labourOf(q)' = labourOf(q)
  <2>1. CASE UNCHANGED costVars
    BY <2>1 DEF costVars, labourOf
  <2>2. ASSUME NEW ls \in SUBSET Labour, ApproveLabour(ls), ls # {}
        PROVE  UNCHANGED <<pay, specified, type>> /\ labourOf(q)' = labourOf(q)
    <3>1. \A l \in ls : PeriodOf[l.day] # q
      BY <2>2
    <3> QED BY <2>2, <3>1 DEF ApproveLabour, labourOf
  <2>3. ASSUME NEW l \in Labour, RejectLabour(l)
        PROVE  UNCHANGED <<pay, specified, type>> /\ labourOf(q)' = labourOf(q)
    <3>1. {l} \in SUBSET Labour /\ l \in {l}
      OBVIOUS
    <3>2. PeriodOf[l.day] # q
      BY <2>3, <3>1
    <3> QED BY <2>3, <3>2 DEF RejectLabour, labourOf
  <2> QED BY CostsChange, <2>1, <2>2, <2>3 DEF LabourReviewed
<1>2. /\ approvedIn(q)' = approvedIn(q)
      /\ \A y \in approvedIn(q) : lineFor(y)' = lineFor(y)
  <2>1. ASSUME NEW x \in Expenses, NEW r, Written(x, r) PROVE <1>2!:
    BY <2>1, ClosedRowsStand
  <2>2. ASSUME NEW x \in Expenses, NEW a \in Admins, Reviewed(x, a) PROVE <1>2!:
    BY <2>2, OtherReviewsStand
  <2>3. CASE Settled
    BY <2>3 DEF Settled, approvedIn, stands, periodOf, lineFor
  <2> QED BY <2>1, <2>2, <2>3, StepMoves
<1> QED BY <1>1, <1>2, BookStands

\* Closing a period settles what its T661 is computed from, for any number of
\* expenses, entries and periods and whatever bodies the API is sent, but for the
\* reviews of what is in it, the pay, the flag of a specified employee, and the
\* creation and the types of projects (expenses.js:210, :269, :384; t661.js:50-160).
THEOREM ClosedFiguresSettled == ClaimsSpec => ClosedFiguresStand
BY ClaimsTyped, StepStands, PTL DEF ClaimsSpec, ClosedFiguresStand

-----------------------------------------------------------------------------
(* The route and the CHECKs *)

\* An INSERT keeps a companion with its own category alone, whatever was sent.
LEMMA InsertsFit ==
    ASSUME NEW body, body = [f \in FieldNames |-> body[f]]
    PROVE  CompanionsFit(inserted(body))
<1> DEFINE e == posted(body)
<1>1. e = [f \in FieldNames |->
             CASE f = "currency" -> IF body[f] = Omitted THEN "CAD" ELSE body[f]
               [] f = "contract_arms_length" -> coerceArmsLengthFlag(body[f])
               [] f \in {"fx_rate", "fx_rate_source", "overhead_subcategory",
                         "allocation_basis", "material_disposition"} -> absent(body[f])
               [] OTHER -> body[f]]
  BY DEF posted, FieldNames
<1>2. e = [f \in FieldNames |-> e[f]]
  <2> HIDE DEF e
  <2> QED BY <1>1
<1> HIDE DEF e
<1>3. inserted(body) =
        [f \in FieldNames |->
           CASE f = "fx_rate_source" -> IF e.fx_rate = Null THEN Null ELSE e[f]
             [] f \in {"overhead_subcategory", "allocation_basis"} ->
                  IF e.category = "overhead" THEN e[f] ELSE Null
             [] f = "material_disposition" -> IF e.category = "material" THEN e[f] ELSE Null
             [] f = "contract_arms_length" -> IF e.category = "contract" THEN e[f] ELSE Null
             [] OTHER -> e[f]]
  BY <1>2 DEF inserted, FieldNames, e
<1> QED BY <1>3 DEF CompanionsFit, FieldNames

\* The waivers for rows older than migration 015 waive nothing that its CHECKs
\* ask for.
LEMMA PassingFits ==
    ASSUME NEW u, NEW m, NEW currency, passes(u, m, currency)
    PROVE  CompanionsFit(m)
<1>1. m.category # "overhead" => m.overhead_subcategory = Null /\ m.allocation_basis = Null
  BY DEF passes, validateOverheadFields
<1>2. m.category # "material" => m.material_disposition = Null
  BY DEF passes, validateMaterialDisposition
<1>3. m.category # "contract" => m.contract_arms_length = Null
  BY DEF passes, validateContractArmsLength
<1> QED BY <1>1, <1>2, <1>3 DEF CompanionsFit

LEMMA RouteKnows == RouteKnowsTheChecks
<1>1. ASSUME NEW body \in PostBodies PROVE CompanionsFit(inserted(body))
  BY ClaimsAssumption, InsertsFit
<1>2. ASSUME NEW x \in Expenses, NEW body \in PatchBodies,
             mayPatch(expense[x].fields, body, reporting)
      PROVE  CompanionsFit(merged(expense[x].fields, body))
  BY <1>2, PassingFits DEF mayPatch
<1> QED BY <1>1, <1>2 DEF RouteKnowsTheChecks

\* Whatever bodies the API is sent, what the route lets through the CHECKs over
\* two columns let through, old rows and their waivers included
\* (expenses.js:343-374, migrations/014:19-23).
THEOREM RouteAlwaysKnows == ClaimsSpec => []RouteKnowsTheChecks
BY RouteKnows, PTL

-----------------------------------------------------------------------------
(* What PATCH makes of a row *)

\* The updates of a body, field by field.
LEMMA UpdatesAre ==
    ASSUME NEW row, NEW body, body = [f \in FieldNames |-> body[f]]
    PROVE  LET u == updatesOf(row, body)
               flag == IF body.contract_arms_length = Omitted THEN Omitted
                       ELSE coerceArmsLengthFlag(body.contract_arms_length)
               left(category, v, old) == IF movesFrom(category, body) THEN dropped(v, old) ELSE v
           IN /\ DOMAIN u = FieldNames
              /\ u.expense_date = body.expense_date /\ u.category = body.category
              /\ u.amount_cents = body.amount_cents /\ u.currency = body.currency
              /\ u.fx_rate = body.fx_rate
              /\ u.fx_rate_source = IF given(body.fx_rate, row.fx_rate) = Null
                                      THEN dropped(body.fx_rate_source, row.fx_rate_source)
                                      ELSE body.fx_rate_source
              /\ u.overhead_subcategory =
                   left("overhead", body.overhead_subcategory, row.overhead_subcategory)
              /\ u.allocation_basis =
                   left("overhead", body.allocation_basis, row.allocation_basis)
              /\ u.material_disposition =
                   left("material", body.material_disposition, row.material_disposition)
              /\ u.contract_arms_length = left("contract", flag, row.contract_arms_length)
<1> DEFINE flag == IF body.contract_arms_length = Omitted THEN Omitted
                   ELSE coerceArmsLengthFlag(body.contract_arms_length)
<1>1. PICK b : b = [body EXCEPT !.contract_arms_length =
                      IF @ = Omitted THEN @ ELSE coerceArmsLengthFlag(@)]
  OBVIOUS
<1>2. /\ DOMAIN b = FieldNames
      /\ b.contract_arms_length = flag
      /\ b.expense_date = body.expense_date /\ b.category = body.category
      /\ b.amount_cents = body.amount_cents /\ b.currency = body.currency
      /\ b.fx_rate = body.fx_rate /\ b.fx_rate_source = body.fx_rate_source
      /\ b.overhead_subcategory = body.overhead_subcategory
      /\ b.allocation_basis = body.allocation_basis
      /\ b.material_disposition = body.material_disposition
  BY <1>1 DEF FieldNames
<1>3. updatesOf(row, body) = withoutLeftovers(row, b)
  BY <1>1 DEF updatesOf
<1> HIDE DEF flag
<1>4. b = [f \in FieldNames |-> b[f]]
  BY <1>1 DEF FieldNames
<1>5. PICK u : u = withoutLeftovers(row, b)
  OBVIOUS
<1>6. /\ DOMAIN u = FieldNames
      /\ u.expense_date = b.expense_date /\ u.category = b.category
      /\ u.amount_cents = b.amount_cents /\ u.currency = b.currency
      /\ u.fx_rate = b.fx_rate
      /\ u.fx_rate_source = IF given(b.fx_rate, row.fx_rate) = Null
                              THEN dropped(b.fx_rate_source, row.fx_rate_source)
                              ELSE b.fx_rate_source
      /\ u.overhead_subcategory =
           IF movesFrom("overhead", b) THEN dropped(b.overhead_subcategory, row.overhead_subcategory)
           ELSE b.overhead_subcategory
      /\ u.allocation_basis =
           IF movesFrom("overhead", b) THEN dropped(b.allocation_basis, row.allocation_basis)
           ELSE b.allocation_basis
      /\ u.material_disposition =
           IF movesFrom("material", b) THEN dropped(b.material_disposition, row.material_disposition)
           ELSE b.material_disposition
      /\ u.contract_arms_length =
           IF movesFrom("contract", b) THEN dropped(b.contract_arms_length, row.contract_arms_length)
           ELSE b.contract_arms_length
  BY <1>4, <1>5 DEF withoutLeftovers, FieldNames
<1>7. /\ movesFrom("overhead", b) <=> movesFrom("overhead", body)
      /\ movesFrom("material", b) <=> movesFrom("material", body)
      /\ movesFrom("contract", b) <=> movesFrom("contract", body)
  BY <1>2 DEF movesFrom
<1> QED BY <1>2, <1>3, <1>5, <1>6, <1>7 DEF flag

\* The row after the updates, field by field.
LEMMA UpdatedIs ==
    ASSUME NEW row, NEW u, row = [f \in FieldNames |-> row[f]]
    PROVE  LET m == updated(row, u)
           IN /\ DOMAIN m = FieldNames
              /\ m.expense_date = given(u.expense_date, row.expense_date)
              /\ m.category = given(u.category, row.category)
              /\ m.amount_cents = given(u.amount_cents, row.amount_cents)
              /\ m.currency = given(u.currency, row.currency)
              /\ m.fx_rate = given(u.fx_rate, row.fx_rate)
              /\ m.fx_rate_source = given(u.fx_rate_source, row.fx_rate_source)
              /\ m.overhead_subcategory =
                   given(u.overhead_subcategory, row.overhead_subcategory)
              /\ m.allocation_basis = given(u.allocation_basis, row.allocation_basis)
              /\ m.material_disposition =
                   given(u.material_disposition, row.material_disposition)
              /\ m.contract_arms_length =
                   given(u.contract_arms_length, row.contract_arms_length)
BY DEF updated, FieldNames

\* A stored row has these fields and no others.
LEMMA FieldsAre ==
    ASSUME NEW row \in Fields
    PROVE  row = [f \in FieldNames |-> row[f]]
BY DEF Fields, FieldNames

\* A body of none but the fields that name a category.
LEMMA NamedAre ==
    ASSUME NEW body \in namesCategory
    PROVE  /\ body = [f \in FieldNames |-> body[f]]
           /\ body.currency = Omitted /\ body.fx_rate = Omitted
           /\ body.fx_rate_source = Omitted /\ body.amount_cents = Omitted
           /\ body.category \in VALID_CATEGORIES
           /\ IF body.category = "overhead"
                THEN body.overhead_subcategory = "rent" /\ body.allocation_basis = "text"
                ELSE body.overhead_subcategory = Omitted /\ body.allocation_basis = Omitted
           /\ IF body.category = "material"
                THEN body.material_disposition = "transformed"
                ELSE body.material_disposition = Omitted
           /\ IF body.category = "contract"
                THEN body.contract_arms_length = 0 ELSE body.contract_arms_length = Omitted
<1> DEFINE none == [f \in FieldNames |-> Omitted]
<1>1. CASE body = [none EXCEPT !.category = "material", !.material_disposition = "transformed"]
  BY <1>1 DEF FieldNames, VALID_CATEGORIES
<1>2. CASE body = [none EXCEPT !.category = "contract", !.contract_arms_length = 0]
  BY <1>2 DEF FieldNames, VALID_CATEGORIES
<1>3. CASE body = [none EXCEPT !.category = "third_party_payment"]
  BY <1>3 DEF FieldNames, VALID_CATEGORIES
<1>4. CASE body = [none EXCEPT !.category = "overhead", !.overhead_subcategory = "rent",
                               !.allocation_basis = "text"]
  BY <1>4 DEF FieldNames, VALID_CATEGORIES
<1> QED BY <1>1, <1>2, <1>3, <1>4 DEF namesCategory

\* What is left of the old category is dropped whatever it was, so that only
\* the rate can be in the way.
LEMMA NamedPasses ==
    ASSUME NEW e \in Fields, NEW body \in namesCategory,
           validateFxAgainstClaimant(e.currency, e.fx_rate, reporting)
    PROVE  mayPatch(e, body, reporting)
<1>1. PICK u : u = updatesOf(e, body)
  OBVIOUS
<1>2. PICK m : m = merged(e, body)
  OBVIOUS
<1>3. Null # Omitted /\ Omitted \notin VALID_CATEGORIES
  BY FieldsAssumption
<1>4. /\ u.category = body.category /\ u.amount_cents = Omitted
      /\ u.fx_rate = Omitted
      /\ u.fx_rate_source = IF e.fx_rate = Null THEN dropped(Omitted, e.fx_rate_source)
                            ELSE Omitted
      /\ u.currency = Omitted
      /\ IF body.category = "overhead"
           THEN u.overhead_subcategory = "rent" /\ u.allocation_basis = "text"
           ELSE /\ u.overhead_subcategory = dropped(Omitted, e.overhead_subcategory)
                /\ u.allocation_basis = dropped(Omitted, e.allocation_basis)
      /\ IF body.category = "material" THEN u.material_disposition = "transformed"
         ELSE u.material_disposition = dropped(Omitted, e.material_disposition)
      /\ IF body.category = "contract" THEN u.contract_arms_length = 0
         ELSE u.contract_arms_length = dropped(Omitted, e.contract_arms_length)
  <2>1. 0 # Omitted
    BY FieldsAssumption
  <2> QED BY <1>1, <1>3, <2>1, NamedAre, UpdatesAre
          DEF movesFrom, given, coerceArmsLengthFlag
<1>5. m = updated(e, u)
  BY <1>1, <1>2 DEF merged
<1>6. /\ m.category = body.category
      /\ m.currency = e.currency /\ m.fx_rate = e.fx_rate
      /\ m.fx_rate = Null => m.fx_rate_source = Null
      /\ IF body.category = "overhead"
           THEN m.overhead_subcategory = "rent" /\ m.allocation_basis = "text"
           ELSE m.overhead_subcategory = Null /\ m.allocation_basis = Null
      /\ IF body.category = "material" THEN m.material_disposition = "transformed"
         ELSE m.material_disposition = Null
      /\ IF body.category = "contract" THEN m.contract_arms_length = 0
         ELSE m.contract_arms_length = Null
  <2>1. /\ m.category = given(u.category, e.category)
        /\ m.currency = given(u.currency, e.currency)
        /\ m.fx_rate = given(u.fx_rate, e.fx_rate)
        /\ m.fx_rate_source = given(u.fx_rate_source, e.fx_rate_source)
        /\ m.overhead_subcategory = given(u.overhead_subcategory, e.overhead_subcategory)
        /\ m.allocation_basis = given(u.allocation_basis, e.allocation_basis)
        /\ m.material_disposition = given(u.material_disposition, e.material_disposition)
        /\ m.contract_arms_length = given(u.contract_arms_length, e.contract_arms_length)
    BY <1>5, FieldsAre, UpdatedIs
  <2>2. \A old : given(dropped(Omitted, old), old) = Null
    BY <1>3 DEF given, dropped
  <2>3. body.category \in VALID_CATEGORIES
    BY NamedAre
  <2>4. "rent" # Omitted /\ "transformed" # Omitted /\ "text" # Omitted
    BY FieldsAssumption
       DEF Texts, VALID_OVERHEAD_SUBCATEGORIES, VALID_MATERIAL_DISPOSITIONS
  <2>5. 0 # Omitted
    BY FieldsAssumption
  <2> QED BY <1>3, <1>4, <2>1, <2>2, <2>3, <2>4, <2>5 DEF given
<1>7. passes(u, m, reporting)
  <2>1. body.category \in VALID_CATEGORIES
    BY NamedAre
  <2>2. validateOverheadFields(m.category, m.overhead_subcategory, m.allocation_basis)
    <3>1. "rent" \in VALID_OVERHEAD_SUBCATEGORIES /\ "text" \notin {Null, ""}
      BY FieldsAssumption DEF VALID_OVERHEAD_SUBCATEGORIES, Texts
    <3> QED BY <1>6, <3>1 DEF validateOverheadFields
  <2>3. /\ validateMaterialDisposition(m.category, m.material_disposition)
        /\ validateContractArmsLength(m.category, m.contract_arms_length)
    BY <1>6 DEF validateMaterialDisposition, validateContractArmsLength,
                VALID_MATERIAL_DISPOSITIONS
  <2>4. u.fx_rate_source # Omitted => validateFxRateSource(m.fx_rate, m.fx_rate_source)
    BY <1>4, <1>6 DEF validateFxRateSource
  <2> QED BY <1>4, <1>6, <2>1, <2>2, <2>3, <2>4
          DEF passes, validateMaterialDisposition, validateContractArmsLength
<1> QED BY <1>1, <1>2, <1>7 DEF mayPatch

\* However a stored expense came to be, rows older than the migrations included,
\* its category can be changed by naming the new one with its companions: the
\* route drops what is left of the old one itself (expenses.js:304-332).
THEOREM CategoryAlwaysChanges == ClaimsSpec => []CategoryMayChange
<1>1. ClaimsTypeOK => CategoryMayChange
  <2> SUFFICES ASSUME ClaimsTypeOK, NEW x \in Expenses, stands(x),
                      validateFxAgainstClaimant(expense[x].fields.currency,
                        expense[x].fields.fx_rate, reporting),
                      NEW body \in namesCategory
               PROVE  mayPatch(expense[x].fields, body, reporting)
    BY DEF CategoryMayChange
  <2>1. expense[x].fields \in Fields
    BY DEF ClaimsTypeOK, stands, ExpenseRow
  <2> QED BY <2>1, NamedPasses
<1> QED BY <1>1, ClaimsTyped, PTL

-----------------------------------------------------------------------------
(* The editor saved untouched *)

\* The controls for a stored row, field by field.
LEMMA FormIs ==
    ASSUME NEW e \in Fields
    PROVE  LET f == formOf(e) IN
           /\ DOMAIN f = FieldNames
           /\ f.expense_date = e.expense_date /\ f.category = e.category
           /\ f.amount_cents = e.amount_cents /\ f.currency = e.currency
           /\ f.fx_rate = e.fx_rate
           /\ f.material_disposition = orElse(e.material_disposition, "consumed")
           /\ f.contract_arms_length = orElse(e.contract_arms_length, 1)
<1>1. e = [f \in FieldNames |-> e[f]]
  BY FieldsAre
<1> QED BY <1>1 DEF formOf, firstDisposition, FieldNames

\* The body of an untouched form says again what the row says, with the
\* defaults that the editor shows for what the row lacks.
LEMMA SaysItAgain ==
    ASSUME NEW e \in Fields
    PROVE  LET body == bodyOf(formOf(e)) IN
           /\ body = [f \in FieldNames |-> body[f]]
           /\ body.category = e.category /\ body.amount_cents = e.amount_cents
           /\ body.fx_rate = e.fx_rate
           /\ e.category = "material" =>
                body.material_disposition = orElse(e.material_disposition, "consumed")
           /\ e.category = "contract" =>
                body.contract_arms_length = orElse(e.contract_arms_length, 1)
<1>1. PICK f : f = formOf(e)
  OBVIOUS
<1>2. PICK body : body = bodyOf(f)
  OBVIOUS
<1>3. /\ DOMAIN body = FieldNames /\ body = [g \in FieldNames |-> body[g]]
      /\ body.category = f.category /\ body.amount_cents = f.amount_cents
      /\ body.fx_rate = f.fx_rate
      /\ body.material_disposition =
           IF "material_disposition" \in shown(f) /\ f.material_disposition # ""
             THEN f.material_disposition ELSE Null
      /\ body.contract_arms_length =
           IF f.category = "contract" THEN f.contract_arms_length ELSE Null
  <2>1. f = [g \in FieldNames |-> f[g]]
    BY <1>1, FieldsAre DEF formOf, FieldNames
  <2> QED BY <1>2, <2>1 DEF bodyOf, FieldNames
<1>4. f.category = "material" => "material_disposition" \in shown(f)
  BY DEF shown
<1>5. f.material_disposition # ""
  <2>1. f.material_disposition \in VALID_MATERIAL_DISPOSITIONS
    BY <1>1, FormIs DEF Fields, orElse, VALID_MATERIAL_DISPOSITIONS
  <2> QED BY <2>1 DEF VALID_MATERIAL_DISPOSITIONS
<1> QED BY <1>1, <1>2, <1>3, <1>4, <1>5, FormIs

\* So the row keeps what its line of the form and its amount depend on.
LEMMA SavedAlike ==
    ASSUME NEW e \in Fields, NEW m, m = merged(e, bodyOf(formOf(e)))
    PROVE  /\ m.category = e.category /\ m.amount_cents = e.amount_cents
           /\ m.fx_rate = e.fx_rate
           /\ e.category = "material" =>
                m.material_disposition = orElse(e.material_disposition, "consumed")
           /\ e.category = "contract" =>
                m.contract_arms_length = orElse(e.contract_arms_length, 1)
<1>1. PICK body : body = bodyOf(formOf(e))
  OBVIOUS
<1>2. PICK u : u = updatesOf(e, body)
  OBVIOUS
<1>3. /\ body = [f \in FieldNames |-> body[f]]
      /\ body.category = e.category /\ body.amount_cents = e.amount_cents
      /\ body.fx_rate = e.fx_rate
      /\ e.category = "material" =>
           body.material_disposition = orElse(e.material_disposition, "consumed")
      /\ e.category = "contract" =>
           body.contract_arms_length = orElse(e.contract_arms_length, 1)
  BY <1>1, SaysItAgain
<1>4. /\ u.category = body.category /\ u.amount_cents = body.amount_cents
      /\ u.fx_rate = body.fx_rate
      /\ u.material_disposition =
           IF movesFrom("material", body)
             THEN dropped(body.material_disposition, e.material_disposition)
             ELSE body.material_disposition
      /\ u.contract_arms_length =
           IF movesFrom("contract", body)
             THEN dropped(IF body.contract_arms_length = Omitted THEN Omitted
                          ELSE coerceArmsLengthFlag(body.contract_arms_length),
                          e.contract_arms_length)
             ELSE IF body.contract_arms_length = Omitted THEN Omitted
                  ELSE coerceArmsLengthFlag(body.contract_arms_length)
  BY <1>2, <1>3, UpdatesAre
<1>5. /\ m.category = given(u.category, e.category)
      /\ m.amount_cents = given(u.amount_cents, e.amount_cents)
      /\ m.fx_rate = given(u.fx_rate, e.fx_rate)
      /\ m.material_disposition = given(u.material_disposition, e.material_disposition)
      /\ m.contract_arms_length = given(u.contract_arms_length, e.contract_arms_length)
  <2>1. m = updated(e, u)
    BY <1>1, <1>2 DEF merged
  <2> QED BY <2>1, FieldsAre, UpdatedIs
<1>6. m.category = e.category /\ m.amount_cents = e.amount_cents /\ m.fx_rate = e.fx_rate
  BY <1>3, <1>4, <1>5 DEF given
<1>7. ASSUME e.category = "material"
      PROVE  m.material_disposition = orElse(e.material_disposition, "consumed")
  <2>1. ~movesFrom("material", body)
    BY <1>3, <1>7 DEF movesFrom
  <2>2. orElse(e.material_disposition, "consumed") # Omitted
    BY FieldsAssumption DEF Fields, orElse, VALID_MATERIAL_DISPOSITIONS
  <2> QED BY <1>3, <1>4, <1>5, <1>7, <2>1, <2>2 DEF given
<1>8. ASSUME e.category = "contract"
      PROVE  m.contract_arms_length = orElse(e.contract_arms_length, 1)
  <2>1. ~movesFrom("contract", body)
    BY <1>3, <1>8 DEF movesFrom
  <2>2. PICK flag : flag = orElse(e.contract_arms_length, 1)
    OBVIOUS
  <2>3. flag \in {0, 1}
    BY <2>2 DEF Fields, orElse
  <2>4. flag # Omitted /\ coerceArmsLengthFlag(flag) = flag
    BY <2>3, FieldsAssumption DEF coerceArmsLengthFlag
  <2> QED BY <1>3, <1>4, <1>5, <1>8, <2>1, <2>2, <2>4 DEF given
<1> QED BY <1>6, <1>7, <1>8

\* Opening the inline editor of any stored expense and saving it untouched
\* leaves its line of the form and its amount as they were, also where the row
\* is older than the fields that the editor shows a default for
\* (features.js:191-220, format.js:66-92).
THEOREM UntouchedSavesKeepTheLine == ClaimsSpec => []UntouchedSaveKeepsLine
<1>1. ClaimsTypeOK => UntouchedSaveKeepsLine
  <2> SUFFICES ASSUME ClaimsTypeOK, NEW x \in Expenses, stands(x),
                      NEW e, e = expense[x].fields, NEW m, m = merged(e, bodyOf(formOf(e)))
               PROVE  /\ expenseT661Line(m) = expenseT661Line(e)
                      /\ reportingAmount(m) = reportingAmount(e)
    BY DEF UntouchedSaveKeepsLine
  <2>1. e \in Fields
    BY DEF ClaimsTypeOK, stands, ExpenseRow
  <2>2. reportingAmount(m) = reportingAmount(e)
    BY <2>1, SavedAlike DEF reportingAmount
  <2>3. m.category = e.category
        /\ (e.category = "material" =>
              (m.material_disposition = "transformed" <=> e.material_disposition = "transformed"))
        /\ (e.category = "contract" =>
              (m.contract_arms_length = 0 <=> e.contract_arms_length = 0))
    BY <2>1, SavedAlike, FieldsAssumption DEF orElse, VALID_MATERIAL_DISPOSITIONS
  <2>4. expenseT661Line(m) = expenseT661Line(e)
    BY <2>3 DEF expenseT661Line
  <2> QED BY <2>2, <2>4
<1> QED BY <1>1, ClaimsTyped, PTL

-----------------------------------------------------------------------------
(* The formats of a snapshot *)

\* A total has the same line in prose and as a number.
LEMMA TotalsPair ==
    ASSUME NEW f \in COMPARABLE_FIELDS
    PROVE  sameLine(T661_LINES[f], T661_LINE_NUMBERS[f])
<1>1. CASE f = "total"
  BY <1>1 DEF sameLine, T661_LINES, T661_LINE_NUMBERS
<1>2. CASE f # "total"
  <2>1. f \in Parts
    BY <1>2 DEF Parts
  <2> QED BY <2>1 DEF sameLine
<1> QED BY <1>1, <1>2

\* And so does an expense.
LEMMA LinesPair ==
    ASSUME NEW e
    PROVE  sameLine(expenseT661Line(e), expenseT661LineNumber(e))
<1>1. PICK line, number : line = expenseT661Line(e) /\ number = expenseT661LineNumber(e)
  OBVIOUS
<1> SUFFICES sameLine(line, number)
  BY <1>1
<1>2. CASE e.category = "material" /\ e.material_disposition = "transformed"
  <2>1. line = "line 325" /\ number = 325
    BY <1>1, <1>2 DEF expenseT661Line, expenseT661LineNumber
  <2> QED BY <2>1 DEF sameLine
<1>3. CASE e.category = "contract" /\ e.contract_arms_length = 0
  <2>1. line = "line 350" /\ number = 350
    BY <1>1, <1>3 DEF expenseT661Line, expenseT661LineNumber
  <2> QED BY <2>1 DEF sameLine
<1>4. CASE e.category = "material" /\ e.material_disposition # "transformed"
  <2>1. /\ "materials" \in COMPARABLE_FIELDS
        /\ line = T661_LINES["materials"] /\ number = T661_LINE_NUMBERS["materials"]
    BY <1>1, <1>4 DEF expenseT661Line, expenseT661LineNumber, COMPARABLE_FIELDS,
                    T661_LINES, T661_LINE_NUMBERS
  <2> QED BY <2>1, TotalsPair
<1>5. CASE e.category = "contract" /\ e.contract_arms_length # 0
  <2>1. /\ "contract" \in COMPARABLE_FIELDS
        /\ line = T661_LINES["contract"] /\ number = T661_LINE_NUMBERS["contract"]
    BY <1>1, <1>5 DEF expenseT661Line, expenseT661LineNumber, COMPARABLE_FIELDS,
                    T661_LINES, T661_LINE_NUMBERS
  <2> QED BY <2>1, TotalsPair
<1>6. CASE e.category = "third_party_payment"
  <2>1. /\ "third_party" \in COMPARABLE_FIELDS
        /\ line = T661_LINES["third_party"] /\ number = T661_LINE_NUMBERS["third_party"]
    BY <1>1, <1>6 DEF expenseT661Line, expenseT661LineNumber, COMPARABLE_FIELDS,
                    T661_LINES, T661_LINE_NUMBERS
  <2> QED BY <2>1, TotalsPair
<1>7. CASE e.category \notin {"material", "contract", "third_party_payment"}
  <2>1. /\ "overhead" \in COMPARABLE_FIELDS
        /\ line = T661_LINES["overhead"] /\ number = T661_LINE_NUMBERS["overhead"]
    BY <1>1, <1>7 DEF expenseT661Line, expenseT661LineNumber, COMPARABLE_FIELDS,
                    T661_LINES, T661_LINE_NUMBERS
  <2> QED BY <2>1, TotalsPair
<1> QED BY <1>2, <1>3, <1>4, <1>5, <1>6, <1>7

\* A snapshot lists expenses of its projects and of no others.
Listed(t) == DOMAIN t.lines = DOMAIN t.totals

\* The rows of the expenses differ in the lines alone, and those correspond.
LEMMA ExpenseRowsAgree ==
    ASSUME NEW t, Listed(t), NEW p \in DOMAIN t.totals,
           NEW md, md = expenseRows(t, [e \in allLines(t) |-> expenseT661Line(e)]),
           NEW csv, csv = expenseRows(t, [e \in allLines(t) |-> expenseT661LineNumber(e)])
    PROVE  /\ DOMAIN md[p] = DOMAIN csv[p]
           /\ \A i \in DOMAIN md[p] :
                md[p][i].cents = csv[p][i].cents /\ sameLine(md[p][i].line, csv[p][i].line)
<1>1. DOMAIN md[p] = {e.id : e \in t.lines[p]} /\ DOMAIN csv[p] = {e.id : e \in t.lines[p]}
  BY DEF expenseRows
<1>2. ASSUME NEW i \in {e.id : e \in t.lines[p]}
      PROVE  md[p][i].cents = csv[p][i].cents /\ sameLine(md[p][i].line, csv[p][i].line)
  <2>1. PICK l : l = CHOOSE e \in t.lines[p] : e.id = i
    OBVIOUS
  <2>2. l \in t.lines[p]
    BY <1>2, <2>1
  <2>3. l \in allLines(t)
    BY <2>2 DEF allLines, Listed
  <2>4. md[p][i] = expenseRow(expenseT661Line(l), l)
    BY <1>2, <2>1, <2>3 DEF expenseRows
  <2>5. csv[p][i] = expenseRow(expenseT661LineNumber(l), l)
    BY <1>2, <2>1, <2>3 DEF expenseRows
  <2>6. /\ md[p][i].cents = reportingAmount(l) /\ md[p][i].line = expenseT661Line(l)
        /\ csv[p][i].cents = reportingAmount(l)
        /\ csv[p][i].line = expenseT661LineNumber(l)
    BY <2>4, <2>5 DEF expenseRow
  <2> QED BY <2>6, LinesPair
<1> QED BY <1>1, <1>2

LEMMA SnapshotFormats ==
    ASSUME NEW t, Listed(t)
    PROVE  toMarkdown(t) = toPdf(t) /\ SnapshotsAgree(toMarkdown(t), toCsv(t))
<1>1. toMarkdown(t) = toPdf(t)
  BY DEF toMarkdown, toPdf
<1>2. PICK md : md = toMarkdown(t)
  OBVIOUS
<1>3. PICK csv : csv = toCsv(t)
  OBVIOUS
<1>4. /\ md.totals = [p \in DOMAIN t.totals |-> totalRows(T661_LINES, t.totals[p])]
      /\ md.expenses = expenseRows(t, [e \in allLines(t) |-> expenseT661Line(e)])
  BY <1>2 DEF toMarkdown
<1>5. /\ csv.totals = [p \in DOMAIN t.totals |-> totalRows(T661_LINE_NUMBERS, t.totals[p])]
      /\ csv.expenses = expenseRows(t, [e \in allLines(t) |-> expenseT661LineNumber(e)])
  BY <1>3 DEF toCsv
<1>6. ASSUME NEW p \in DOMAIN md.totals, NEW f \in COMPARABLE_FIELDS
      PROVE  /\ md.totals[p][f].cents = csv.totals[p][f].cents
             /\ sameLine(md.totals[p][f].line, csv.totals[p][f].line)
  <2>1. /\ md.totals[p][f] = tagged(T661_LINES[f], t.totals[p][f])
        /\ csv.totals[p][f] = tagged(T661_LINE_NUMBERS[f], t.totals[p][f])
    BY <1>4, <1>5, <1>6 DEF totalRows
  <2> QED BY <2>1, TotalsPair DEF tagged
<1>7. ASSUME NEW p \in DOMAIN md.totals
      PROVE  /\ DOMAIN md.expenses[p] = DOMAIN csv.expenses[p]
             /\ \A i \in DOMAIN md.expenses[p] :
                  /\ md.expenses[p][i].cents = csv.expenses[p][i].cents
                  /\ sameLine(md.expenses[p][i].line, csv.expenses[p][i].line)
  BY <1>4, <1>5, ExpenseRowsAgree
<1>8. SnapshotsAgree(md, csv)
  BY <1>6, <1>7 DEF SnapshotsAgree
<1> QED BY <1>1, <1>2, <1>3, <1>8

\* Two periods compared: the rows that the prose has, the CSV has.
LEMMA ComparisonFormats ==
    ASSUME NEW t, NEW u, NEW diff
    PROVE  /\ toMarkdownCompare(t, u, diff) = toPdfCompare(t, u, diff)
           /\ ComparisonsAgree(toMarkdownCompare(t, u, diff), toCsvCompare(t, u, diff))
<1>1. toMarkdownCompare(t, u, diff) = toPdfCompare(t, u, diff)
  BY DEF toMarkdownCompare, toPdfCompare
<1>2. PICK md : md = toMarkdownCompare(t, u, diff)
  OBVIOUS
<1>3. PICK csv : csv = toCsvCompare(t, u, diff)
  OBVIOUS
<1>4. /\ md.grand = grandRows(T661_LINES, t, u, diff)
      /\ md.projects = [p \in DOMAIN diff.projects |-> briefRows(diff.projects[p])]
  BY <1>2 DEF toMarkdownCompare
<1>5. /\ csv.grand = grandRows(T661_LINE_NUMBERS, t, u, diff)
      /\ csv.projects = [p \in DOMAIN diff.projects |->
                           projectRows(T661_LINE_NUMBERS, diff.projects[p])]
  BY <1>3 DEF toCsvCompare
<1> DEFINE same(a, b) == a.a = b.a /\ a.b = b.b /\ a.diff = b.diff /\ sameLine(a.line, b.line)
<1>6. ASSUME NEW f \in COMPARABLE_FIELDS, NEW a, NEW b, NEW d
      PROVE  same(compareRow(T661_LINES[f], a, b, d), compareRow(T661_LINE_NUMBERS[f], a, b, d))
  BY TotalsPair DEF compareRow
<1>7. ASSUME NEW f \in COMPARABLE_FIELDS PROVE same(md.grand[f], csv.grand[f])
  <2>1. PICK a, b, d : a = t.grand_total[f] /\ b = u.grand_total[f] /\ d = diff.grand_total[f]
    OBVIOUS
  <2>2. md.grand[f] = compareRow(T661_LINES[f], a, b, d)
        /\ csv.grand[f] = compareRow(T661_LINE_NUMBERS[f], a, b, d)
    BY <1>4, <1>5, <2>1 DEF grandRows
  <2> HIDE DEF same
  <2> QED BY <1>6, <2>2
<1>8. ASSUME NEW p \in DOMAIN md.projects, NEW f \in DOMAIN md.projects[p]
      PROVE  same(md.projects[p][f], csv.projects[p][f])
  <2>1. PICK q : q = diff.projects[p]
    OBVIOUS
  <2>2. md.projects[p] = briefRows(q) /\ csv.projects[p] = projectRows(T661_LINE_NUMBERS, q)
    BY <1>4, <1>5, <2>1
  <2>3. /\ f \in COMPARABLE_FIELDS
        /\ md.projects[p][f] = projectRows(T661_LINES, q)[f]
    <3>1. DOMAIN projectRows(T661_LINES, q) = COMPARABLE_FIELDS
      BY DEF projectRows
    <3>2. {"labour", "total"} \subseteq COMPARABLE_FIELDS
      BY DEF COMPARABLE_FIELDS, T661_LINES
    <3> QED BY <2>2, <3>1, <3>2 DEF briefRows
  <2>4. PICK a, b, d :
          /\ projectRows(T661_LINES, q)[f] = compareRow(T661_LINES[f], a, b, d)
          /\ projectRows(T661_LINE_NUMBERS, q)[f] = compareRow(T661_LINE_NUMBERS[f], a, b, d)
    <3>1. CASE q.missing_from = "a"
      BY <2>3, <3>1 DEF projectRows
    <3>2. CASE q.missing_from = "b"
      BY <2>3, <3>2 DEF projectRows
    <3>3. CASE q.missing_from \notin {"a", "b"}
      BY <2>3, <3>3 DEF projectRows
    <3> QED BY <3>1, <3>2, <3>3
  <2> HIDE DEF same
  <2> QED BY <1>6, <2>2, <2>3, <2>4
<1>9. ComparisonsAgree(md, csv)
  BY <1>7, <1>8 DEF ComparisonsAgree
<1> QED BY <1>1, <1>2, <1>3, <1>9

\* Whatever was posted and approved, the CSV, the Markdown and the PDF of a
\* T661, and of a comparison of two, have the same amounts under the same lines
\* of the form (format.js:34-57, 66-94).
THEOREM FormatsAlwaysAgree == ClaimsSpec => []FormatsAgree
<1>1. ASSUME NEW q, NEW method PROVE Listed(t661(q, method))
  BY DEF Listed, t661, computeT661
<1>2. FormatsAgree
  BY <1>1, SnapshotFormats, ComparisonFormats DEF FormatsAgree, snapshots
<1> QED BY <1>2, PTL

-----------------------------------------------------------------------------
(* Totals: what totalOf gives, by induction on the subsets of a finite     *)
(* domain, and how it splits, joins, renames and groups                    *)

\* A family of subsets of a finite set that has a set as soon as it has what is
\* left of it without any one of its elements.
LEMMA BySubsets ==
    ASSUME NEW D, IsFiniteSet(D), NEW F,
           \A T \in SUBSET D : (\A y \in T : T \ {y} \in F) => T \in F
    PROVE  \A T \in SUBSET D : T \in F
<1> DEFINE less == StrictSubsetOrdering(D)
           bad == {T \in SUBSET D : T \notin F}
<1> SUFFICES ASSUME bad # {} PROVE FALSE
  OBVIOUS
<1>1. bad \subseteq FiniteSubsetsOf(D)
  BY FS_Subset DEF FiniteSubsetsOf
<1>2. PICK T \in bad : \A U \in bad : <<U, T>> \notin less
  BY <1>1, WFMin, FS_StrictSubsetOrderingWellFounded
<1>3. ASSUME NEW y \in T PROVE T \ {y} \in F
  <2>1. <<T \ {y}, T>> \in (SUBSET D) \X (SUBSET D) /\ T \ {y} \subseteq T /\ T \ {y} # T
    OBVIOUS
  <2>2. <<T \ {y}, T>> \in less
    BY <2>1 DEF StrictSubsetOrdering
  <2>3. T \ {y} \notin bad
    BY <1>2, <2>2
  <2> QED BY <2>1, <2>3
<1> QED BY <1>2, <1>3

\* The element a total takes out first.
first(s) == CHOOSE x \in s : TRUE

\* How the total of c is counted on the sets in SS.
Counts(f, c, SS) ==
    f = [s \in SS |-> IF s = {} THEN 0 ELSE c[first(s)] + f[s \ {first(s)}]]

LEMMA TotalIsCounted ==
    ASSUME NEW c
    PROVE  totalOf(c) = (CHOOSE f : Counts(f, c, SUBSET (DOMAIN c)))[DOMAIN c]
BY DEF totalOf, MapThenSumSet, MapThenFoldSet, Counts, first

LEMMA Countable ==
    ASSUME NEW c, NEW D, IsFiniteSet(D)
    PROVE  \E f : Counts(f, c, SUBSET D)
<1> DEFINE UpTo(n) == {s \in SUBSET D : Cardinality(s) <= n}
           less == OpToRel(<, Nat)
           bad == {n \in Nat : ~\E f : Counts(f, c, UpTo(n))}
<1>1. \A s \in SUBSET D :
        IsFiniteSet(s) /\ Cardinality(s) \in Nat /\ Cardinality(s) <= Cardinality(D)
  BY FS_Subset, FS_CardinalityType
<1>2. \A s \in SUBSET D : s # {} =>
        first(s) \in s /\ s \ {first(s)} \in SUBSET D
          /\ Cardinality(s \ {first(s)}) = Cardinality(s) - 1
  BY <1>1, FS_RemoveElement DEF first
<1>3. Counts([s \in UpTo(0) |-> 0], c, UpTo(0))
  <2>1. \A s \in UpTo(0) : s = {}
    BY <1>1, FS_EmptySet
  <2> QED BY <2>1 DEF Counts
<1>4. ASSUME NEW n \in Nat, NEW f, Counts(f, c, UpTo(n))
      PROVE  \E g : Counts(g, c, UpTo(n + 1))
  <2> DEFINE val(h, s) == IF s = {} THEN 0 ELSE c[first(s)] + h[s \ {first(s)}]
             g == [s \in UpTo(n + 1) |-> val(f, s)]
  <2> HIDE DEF less, bad
  <2>0. \A s \in UpTo(n) : s \in UpTo(n + 1)
    BY <1>1
  <2>1. \A s \in UpTo(n) : s \in UpTo(n + 1) /\ f[s] = val(f, s)
    <3> HIDE DEF UpTo
    <3> QED BY <1>4, <2>0 DEF Counts
  <2>2. \A s \in UpTo(n) : g[s] = f[s]
    BY <2>1
  <2>3. \A s \in UpTo(n + 1) : s # {} => s \ {first(s)} \in UpTo(n)
    BY <1>1, <1>2
  <2> HIDE DEF UpTo
  <2>4. \A s \in UpTo(n + 1) : val(f, s) = val(g, s)
    BY <2>2, <2>3
  <2>5. g = [s \in UpTo(n + 1) |-> val(g, s)]
    <3>1. \A h : (h = [s \in UpTo(n + 1) |-> val(h, s)]) <=>
                 /\ DOMAIN h = UpTo(n + 1)
                 /\ h = [s \in DOMAIN h |-> h[s]]
                 /\ \A s \in UpTo(n + 1) : h[s] = val(h, s)
      OBVIOUS
    <3> HIDE DEF val
    <3>2. g = [s \in DOMAIN g |-> g[s]] /\ DOMAIN g = UpTo(n + 1)
            /\ \A s \in UpTo(n + 1) : g[s] = val(f, s)
      OBVIOUS
    <3> HIDE DEF g
    <3>3. \A s \in UpTo(n + 1) : g[s] = val(g, s)
      BY <2>4, <3>2
    <3> QED BY <3>1, <3>2, <3>3
  <2> QED BY <2>5 DEF Counts
<1>5. bad = {}
  <2> SUFFICES ASSUME bad # {} PROVE FALSE
    OBVIOUS
  <2>1. PICK n \in bad : \A m \in bad : <<m, n>> \notin less
    BY WFMin, NatLessThanWellFounded
  <2>2. n # 0
    BY <1>3
  <2>3. n - 1 \in Nat /\ <<n - 1, n>> \in less
    BY <2>1, <2>2 DEF OpToRel
  <2>4. PICK f : Counts(f, c, UpTo(n - 1))
    BY <2>1, <2>3
  <2> HIDE DEF less
  <2>5. (n - 1) + 1 = n
    BY <2>1
  <2> HIDE DEF UpTo
  <2>6. \E g : Counts(g, c, UpTo((n - 1) + 1))
    BY <1>4, <2>3, <2>4
  <2> QED BY <2>1, <2>5, <2>6
<1>6. UpTo(Cardinality(D)) = SUBSET D
  BY <1>1
<1>7. Cardinality(D) \in Nat
  BY FS_CardinalityType
<1> HIDE DEF UpTo, less
<1>8. PICK n \in Nat : n = Cardinality(D)
  BY <1>7
<1>9. \E f : Counts(f, c, UpTo(n))
  BY <1>5
<1> QED BY <1>6, <1>8, <1>9

LEMMA TotalFolds ==
    ASSUME NEW c, IsFiniteSet(DOMAIN c)
    PROVE  \E f : Counts(f, c, SUBSET (DOMAIN c)) /\ totalOf(c) = f[DOMAIN c]
BY TotalIsCounted, Countable

\* Two counts agree on the sets where the values do.
LEMMA CountsAgree ==
    ASSUME NEW c, NEW d, NEW D, IsFiniteSet(D), NEW SS, NEW TT,
           SUBSET D \subseteq SS, SUBSET D \subseteq TT,
           \A x \in D : c[x] = d[x],
           NEW f, Counts(f, c, SS), NEW g, Counts(g, d, TT)
    PROVE  f[D] = g[D]
<1> DEFINE F == {T \in SUBSET D : f[T] = g[T]}
<1>1. ASSUME NEW T \in SUBSET D, \A y \in T : T \ {y} \in F
      PROVE  T \in F
  <2>1. /\ f[T] = IF T = {} THEN 0 ELSE c[first(T)] + f[T \ {first(T)}]
        /\ g[T] = IF T = {} THEN 0 ELSE d[first(T)] + g[T \ {first(T)}]
    BY DEF Counts
  <2>2. T # {} => first(T) \in T
    BY DEF first
  <2>3. CASE T = {}
    BY <2>1, <2>3
  <2>4. CASE T # {}
    <3>1. f[T \ {first(T)}] = g[T \ {first(T)}] /\ c[first(T)] = d[first(T)]
      BY <1>1, <2>2, <2>4
    <3> QED BY <2>1, <2>4, <3>1
  <2> QED BY <2>3, <2>4
<1> HIDE DEF F
<1>2. D \in F
  <2>1. \A T \in SUBSET D : (\A y \in T : T \ {y} \in F) => T \in F
    BY <1>1
  <2>2. \A T \in SUBSET D : T \in F
    BY <2>1, BySubsets
  <2> QED BY <2>2
<1> QED BY <1>2 DEF F

LEMMA CountsAreIntegers ==
    ASSUME NEW c, NEW D, IsFiniteSet(D), \A x \in D : c[x] \in Int,
           NEW f, Counts(f, c, SUBSET D)
    PROVE  \A T \in SUBSET D : f[T] \in Int
<1> DEFINE F == {T \in SUBSET D : f[T] \in Int}
<1>1. ASSUME NEW T \in SUBSET D, \A y \in T : T \ {y} \in F
      PROVE  T \in F
  <2>1. f[T] = IF T = {} THEN 0 ELSE c[first(T)] + f[T \ {first(T)}]
    BY DEF Counts
  <2>2. CASE T = {}
    BY <2>1, <2>2
  <2>3. CASE T # {}
    <3>1. first(T) \in T
      BY <2>3 DEF first
    <3>2. f[T] = c[first(T)] + f[T \ {first(T)}]
      BY <2>1, <2>3
    <3>3. f[T \ {first(T)}] \in Int /\ c[first(T)] \in Int
      BY <1>1, <3>1
    <3> QED BY <3>2, <3>3
  <2> QED BY <2>2, <2>3
<1> HIDE DEF F
<1>2. \A T \in SUBSET D : (\A y \in T : T \ {y} \in F) => T \in F
  BY <1>1
<1>3. \A T \in SUBSET D : T \in F
  BY <1>2, BySubsets
<1> QED BY <1>3 DEF F

\* Of integers, the elements may be taken out in any order.
LEMMA CountsInAnyOrder ==
    ASSUME NEW c, NEW D, IsFiniteSet(D), \A x \in D : c[x] \in Int,
           NEW f, Counts(f, c, SUBSET D)
    PROVE  \A y \in D : f[D] = c[y] + f[D \ {y}]
<1> DEFINE F == {T \in SUBSET D : \A y \in T : f[T] = c[y] + f[T \ {y}]}
<1>0. \A T \in SUBSET D : f[T] \in Int
  BY CountsAreIntegers
<1>1. ASSUME NEW T \in SUBSET D, \A y \in T : T \ {y} \in F
      PROVE  T \in F
  <2>1. f[T] = IF T = {} THEN 0 ELSE c[first(T)] + f[T \ {first(T)}]
    BY DEF Counts
  <2> SUFFICES ASSUME NEW y \in T PROVE f[T] = c[y] + f[T \ {y}]
    OBVIOUS
  <2>2. PICK z \in T : z = first(T)
    BY DEF first
  <2>3. f[T] = c[z] + f[T \ {z}]
    BY <2>1, <2>2
  <2>4. CASE y = z
    BY <2>3, <2>4
  <2>5. CASE y # z
    <3>1. f[T \ {z}] = c[y] + f[(T \ {z}) \ {y}]
      BY <1>1, <2>5
    <3>2. f[T \ {y}] = c[z] + f[(T \ {y}) \ {z}]
      BY <1>1, <2>5
    <3>3. PICK r : r = (T \ {z}) \ {y}
      OBVIOUS
    <3>4. (T \ {y}) \ {z} = r /\ r \in SUBSET D
      BY <3>3
    <3>5. f[r] \in Int /\ c[y] \in Int /\ c[z] \in Int
      BY <1>0, <3>4
    <3>6. f[T] = c[z] + (c[y] + f[r]) /\ f[T \ {y}] = c[z] + f[r]
      BY <2>3, <3>1, <3>2, <3>3, <3>4
    <3> QED BY <3>5, <3>6
  <2> QED BY <2>4, <2>5
<1> HIDE DEF F
<1>2. \A T \in SUBSET D : (\A y \in T : T \ {y} \in F) => T \in F
  BY <1>1
<1>3. \A T \in SUBSET D : T \in F
  BY <1>2, BySubsets
<1> QED BY <1>3 DEF F

\* What totalOf does, of a finite set of integers.
Finitely(c) == IsFiniteSet(DOMAIN c) /\ \A x \in DOMAIN c : c[x] \in Int

only(c, D) == [x \in D |-> c[x]]

LEMMA TotalOfNone ==
    ASSUME NEW c, DOMAIN c = {}
    PROVE  totalOf(c) = 0
<1>1. PICK f : Counts(f, c, SUBSET (DOMAIN c)) /\ totalOf(c) = f[DOMAIN c]
  BY TotalFolds, FS_EmptySet
<1> QED BY <1>1 DEF Counts

LEMMA TotalIsInteger ==
    ASSUME NEW c, Finitely(c)
    PROVE  totalOf(c) \in Int
<1>1. PICK f : Counts(f, c, SUBSET (DOMAIN c)) /\ totalOf(c) = f[DOMAIN c]
  BY TotalFolds DEF Finitely
<1> QED BY <1>1, CountsAreIntegers DEF Finitely

LEMMA TotalOfSome ==
    ASSUME NEW c, Finitely(c), NEW D \in SUBSET (DOMAIN c)
    PROVE  /\ Finitely(only(c, D)) /\ DOMAIN only(c, D) = D
           /\ \A f : Counts(f, c, SUBSET (DOMAIN c)) => totalOf(only(c, D)) = f[D]
<1>1. Finitely(only(c, D)) /\ DOMAIN only(c, D) = D /\ IsFiniteSet(D)
  BY FS_Subset DEF Finitely, only
<1>2. PICK g : Counts(g, only(c, D), SUBSET D) /\ totalOf(only(c, D)) = g[D]
  BY <1>1, TotalFolds
<1>3. ASSUME NEW f, Counts(f, c, SUBSET (DOMAIN c)) PROVE f[D] = g[D]
  <2>1. \A x \in D : c[x] = only(c, D)[x]
    BY DEF only
  <2>2. SUBSET D \subseteq SUBSET (DOMAIN c) /\ SUBSET D \subseteq SUBSET D
    OBVIOUS
  <2> QED BY <1>1, <1>2, <1>3, <2>1, <2>2, CountsAgree
<1> QED BY <1>1, <1>2, <1>3

LEMMA TotalOfAllBut ==
    ASSUME NEW c, Finitely(c), NEW y \in DOMAIN c
    PROVE  totalOf(c) = c[y] + totalOf(only(c, DOMAIN c \ {y}))
<1>1. PICK f : Counts(f, c, SUBSET (DOMAIN c)) /\ totalOf(c) = f[DOMAIN c]
  BY TotalFolds DEF Finitely
<1>2. totalOf(only(c, DOMAIN c \ {y})) = f[DOMAIN c \ {y}]
  BY <1>1, TotalOfSome
<1>3. f[DOMAIN c] = c[y] + f[DOMAIN c \ {y}]
  <2>1. PICK D : D = DOMAIN c
    OBVIOUS
  <2>2. IsFiniteSet(D) /\ (\A x \in D : c[x] \in Int) /\ Counts(f, c, SUBSET D)
    BY <1>1, <2>1 DEF Finitely
  <2>3. \A z \in D : f[D] = c[z] + f[D \ {z}]
    BY <2>2, CountsInAnyOrder
  <2> QED BY <2>1, <2>3
<1> QED BY <1>1, <1>2, <1>3

LEMMA SameTotal ==
    ASSUME NEW c, Finitely(c), NEW d, DOMAIN d = DOMAIN c, \A x \in DOMAIN c : d[x] = c[x]
    PROVE  totalOf(d) = totalOf(c) /\ Finitely(d)
<1>1. PICK D : D = DOMAIN c
  OBVIOUS
<1>2. PICK f : Counts(f, c, SUBSET D) /\ totalOf(c) = f[D]
  BY <1>1, TotalFolds DEF Finitely
<1>3. PICK g : Counts(g, d, SUBSET D) /\ totalOf(d) = g[D]
  BY <1>1, TotalFolds DEF Finitely
<1>4. IsFiniteSet(D) /\ (\A x \in D : d[x] = c[x]) /\ SUBSET D \subseteq SUBSET D
  BY <1>1 DEF Finitely
<1>5. g[D] = f[D]
  BY <1>2, <1>3, <1>4, CountsAgree
<1> QED BY <1>2, <1>3, <1>5 DEF Finitely

\* The total of c over the set D.
over(c, D) == totalOf(only(c, D))

LEMMA OverAll ==
    ASSUME NEW c, Finitely(c)
    PROVE  over(c, DOMAIN c) = totalOf(c)
<1>1. DOMAIN only(c, DOMAIN c) = DOMAIN c /\ \A x \in DOMAIN c : only(c, DOMAIN c)[x] = c[x]
  BY DEF only
<1> QED BY <1>1, SameTotal DEF over

LEMMA OverSome ==
    ASSUME NEW c, Finitely(c), NEW D \in SUBSET (DOMAIN c)
    PROVE  /\ over(c, D) \in Int /\ IsFiniteSet(D)
           /\ D = {} => over(c, D) = 0
           /\ \A y \in D : over(c, D) = c[y] + over(c, D \ {y})
<1>1. Finitely(only(c, D)) /\ DOMAIN only(c, D) = D
  BY TotalOfSome
<1>2. over(c, D) \in Int
  BY <1>1, TotalIsInteger DEF over
<1>3. D = {} => over(c, D) = 0
  BY <1>1, TotalOfNone DEF over
<1>4. ASSUME NEW y \in D PROVE over(c, D) = c[y] + over(c, D \ {y})
  <2>1. totalOf(only(c, D)) = only(c, D)[y] + totalOf(only(only(c, D), D \ {y}))
    BY <1>1, TotalOfAllBut
  <2>2. only(c, D)[y] = c[y] /\ only(only(c, D), D \ {y}) = only(c, D \ {y})
    BY DEF only
  <2> QED BY <2>1, <2>2 DEF over
<1> QED BY <1>1, <1>2, <1>3, <1>4 DEF Finitely

\* Two disjoint sets.
LEMMA OverBoth ==
    ASSUME NEW c, Finitely(c),
           NEW A \in SUBSET (DOMAIN c), NEW B \in SUBSET (DOMAIN c), A \cap B = {}
    PROVE  over(c, A \cup B) = over(c, A) + over(c, B)
<1> DEFINE F == {T \in SUBSET A : over(c, T \cup B) = over(c, T) + over(c, B)}
<1>1. ASSUME NEW T \in SUBSET A, \A y \in T : T \ {y} \in F
      PROVE  T \in F
  <2>1. T \in SUBSET (DOMAIN c) /\ T \cup B \in SUBSET (DOMAIN c)
    OBVIOUS
  <2>2. CASE T = {}
    <3>1. T \cup B = B
      BY <2>2
    <3>2. over(c, T) = 0 /\ over(c, B) \in Int
      BY <2>1, <2>2, OverSome
    <3>3. over(c, T \cup B) = over(c, B)
      BY <3>1, Zenon
    <3>4. over(c, B) = over(c, T) + over(c, B)
      BY <3>2
    <3> QED BY <3>3, <3>4
  <2>3. CASE T # {}
    <3>1. PICK y \in T : TRUE
      BY <2>3
    <3>2. (T \cup B) \ {y} = (T \ {y}) \cup B
      BY <3>1
    <3>3. over(c, T \cup B) = c[y] + over(c, (T \cup B) \ {y})
      BY <2>1, <3>1, OverSome
    <3>4. over(c, T) = c[y] + over(c, T \ {y})
      BY <2>1, <3>1, OverSome
    <3>5. over(c, (T \ {y}) \cup B) = over(c, T \ {y}) + over(c, B)
      BY <1>1, <3>1
    <3>6. c[y] \in Int /\ over(c, B) \in Int
      BY <2>1, <3>1, OverSome DEF Finitely
    <3>7. T \ {y} \in SUBSET (DOMAIN c)
      BY <2>1
    <3>8. over(c, T \ {y}) \in Int
      BY <3>7, OverSome
    <3>9. over(c, T \cup B) = c[y] + (over(c, T \ {y}) + over(c, B))
      BY <3>2, <3>3, <3>5
    <3>10. over(c, T \cup B) = over(c, T) + over(c, B)
      BY <3>4, <3>6, <3>8, <3>9
    <3> QED BY <3>10
  <2> QED BY <2>2, <2>3
<1> HIDE DEF F
<1>2. \A T \in SUBSET A : (\A y \in T : T \ {y} \in F) => T \in F
  BY <1>1
<1>3. IsFiniteSet(A)
  BY OverSome
<1>4. \A T \in SUBSET A : T \in F
  BY <1>2, <1>3, BySubsets
<1> QED BY <1>4 DEF F

\* A sum of two values for each element.
LEMMA OverSums ==
    ASSUME NEW a, NEW b, NEW c, Finitely(a), Finitely(b),
           DOMAIN b = DOMAIN a, DOMAIN c = DOMAIN a,
           \A x \in DOMAIN a : c[x] = a[x] + b[x]
    PROVE  Finitely(c) /\ totalOf(c) = totalOf(a) + totalOf(b)
<1>0. PICK D : D = DOMAIN a
  OBVIOUS
<1>1. Finitely(c) /\ DOMAIN c = D /\ DOMAIN b = D /\ DOMAIN a = D
        /\ \A x \in D : a[x] \in Int /\ b[x] \in Int /\ c[x] = a[x] + b[x]
  BY <1>0 DEF Finitely
<1> DEFINE F == {T \in SUBSET D : over(c, T) = over(a, T) + over(b, T)}
<1>2. ASSUME NEW T \in SUBSET D, \A y \in T : T \ {y} \in F
      PROVE  T \in F
  <2>1. CASE T = {}
    <3>1. over(a, T) = 0 /\ over(b, T) = 0 /\ over(c, T) = 0
      BY <1>1, <2>1, OverSome
    <3> QED BY <3>1
  <2>2. CASE T # {}
    <3>1. PICK y \in T : TRUE
      BY <2>2
    <3>2. over(a, T) = a[y] + over(a, T \ {y}) /\ over(a, T \ {y}) \in Int
      BY <1>1, <3>1, OverSome
    <3>3. over(b, T) = b[y] + over(b, T \ {y}) /\ over(b, T \ {y}) \in Int
      BY <1>1, <3>1, OverSome
    <3>4. over(c, T) = c[y] + over(c, T \ {y}) /\ over(c, T \ {y}) \in Int
      BY <1>1, <3>1, OverSome
    <3>5. over(c, T \ {y}) = over(a, T \ {y}) + over(b, T \ {y})
      BY <1>2, <3>1
    <3>6. c[y] = a[y] + b[y] /\ a[y] \in Int /\ b[y] \in Int
      BY <1>1, <3>1
    <3> QED BY <3>2, <3>3, <3>4, <3>5, <3>6
  <2> QED BY <2>1, <2>2
<1> HIDE DEF F
<1>3. \A T \in SUBSET D : (\A y \in T : T \ {y} \in F) => T \in F
  BY <1>2
<1>4. \A T \in SUBSET D : T \in F
  BY <1>1, <1>3, BySubsets DEF Finitely
<1>5. over(c, D) = over(a, D) + over(b, D)
  BY <1>4 DEF F
<1> QED BY <1>1, <1>5, OverAll

\* The same values under other names.
LEMMA OverRenamed ==
    ASSUME NEW c, Finitely(c), NEW h, NEW k,
           \A x \in DOMAIN c, y \in DOMAIN c : h[x] = h[y] => x = y,
           DOMAIN k = {h[x] : x \in DOMAIN c},
           \A x \in DOMAIN c : k[h[x]] = c[x]
    PROVE  Finitely(k) /\ totalOf(k) = totalOf(c)
<1>0. PICK D : D = DOMAIN c
  OBVIOUS
<1> DEFINE named(T) == {h[x] : x \in T}
           F == {T \in SUBSET D : over(k, named(T)) = over(c, T)}
<1>1. Finitely(k)
  <2> DEFINE hh == [x \in D |-> h[x]]
  <2>1. hh \in Surjection(D, DOMAIN k)
    BY <1>0 DEF Surjection
  <2>2. IsFiniteSet(DOMAIN k)
    BY <1>0, <2>1, FS_Surjection DEF Finitely
  <2>3. \A i \in DOMAIN k : k[i] \in Int
    BY DEF Finitely
  <2> QED BY <2>2, <2>3 DEF Finitely
<1>2. ASSUME NEW T \in SUBSET D, \A y \in T : T \ {y} \in F
      PROVE  T \in F
  <2>1. CASE T = {}
    <3>1. named(T) = {}
      BY <2>1
    <3>2. over(k, {}) = 0 /\ over(c, T) = 0
      BY <1>0, <1>1, <2>1, OverSome
    <3> QED BY <3>1, <3>2
  <2>2. CASE T # {}
    <3>1. PICK y \in T : TRUE
      BY <2>2
    <3>2. named(T) \in SUBSET (DOMAIN k) /\ h[y] \in named(T) /\ k[h[y]] = c[y]
      BY <1>0, <3>1
    <3>3. named(T) \ {h[y]} = named(T \ {y})
      BY <1>0, <3>1
    <3>4. over(k, named(T)) = k[h[y]] + over(k, named(T) \ {h[y]})
      <4> HIDE DEF named
      <4> QED BY <1>1, <3>2, OverSome
    <3>5. over(c, T) = c[y] + over(c, T \ {y})
      BY <1>0, <3>1, OverSome
    <3>6. over(k, named(T \ {y})) = over(c, T \ {y})
      BY <1>2, <3>1
    <3> QED BY <3>2, <3>3, <3>4, <3>5, <3>6
  <2> QED BY <2>1, <2>2
<1> HIDE DEF F
<1>3. \A T \in SUBSET D : (\A y \in T : T \ {y} \in F) => T \in F
  BY <1>2
<1>4. \A T \in SUBSET D : T \in F
  BY <1>0, <1>3, BySubsets DEF Finitely
<1>5. over(k, DOMAIN k) = over(c, D)
  BY <1>0, <1>4 DEF F
<1> QED BY <1>0, <1>1, <1>5, OverAll

\* Group by group.
LEMMA OverGroups ==
    ASSUME NEW c, Finitely(c), NEW g, NEW t,
           DOMAIN t = {g[x] : x \in DOMAIN c},
           \A u \in DOMAIN t : t[u] = over(c, {x \in DOMAIN c : g[x] = u})
    PROVE  Finitely(t) /\ totalOf(t) = totalOf(c)
<1>0. PICK D : D = DOMAIN c
  OBVIOUS
<1> DEFINE of(U) == {x \in D : g[x] \in U}
           one(u) == {x \in D : g[x] = u}
           F == {U \in SUBSET (DOMAIN t) : over(t, U) = over(c, of(U))}
<1>1. Finitely(t)
  <2> DEFINE gg == [x \in D |-> g[x]]
  <2>1. gg \in Surjection(D, DOMAIN t)
    BY <1>0 DEF Surjection
  <2>2. IsFiniteSet(DOMAIN t)
    BY <1>0, <2>1, FS_Surjection DEF Finitely
  <2>3. ASSUME NEW u \in DOMAIN t PROVE t[u] \in Int
    <3>1. one(u) \in SUBSET (DOMAIN c) /\ t[u] = over(c, one(u))
      BY <1>0
    <3> HIDE DEF one
    <3> QED BY <3>1, OverSome
  <2> QED BY <2>2, <2>3 DEF Finitely
<1>2. ASSUME NEW U \in SUBSET (DOMAIN t), \A u \in U : U \ {u} \in F
      PROVE  U \in F
  <2>1. CASE U = {}
    <3>1. of(U) = {}
      BY <2>1
    <3>2. over(t, U) = 0 /\ over(c, {}) = 0
      BY <1>0, <1>1, <2>1, OverSome
    <3> QED BY <3>1, <3>2
  <2>2. CASE U # {}
    <3>1. PICK u \in U : TRUE
      BY <2>2
    <3>2. over(t, U) = t[u] + over(t, U \ {u})
      BY <1>1, <3>1, OverSome
    <3>3. over(t, U \ {u}) = over(c, of(U \ {u}))
      BY <1>2, <3>1
    <3>4. t[u] = over(c, one(u))
      BY <1>0, <3>1
    <3>5. of(U) = one(u) \cup of(U \ {u}) /\ one(u) \cap of(U \ {u}) = {}
      BY <3>1
    <3>6. one(u) \in SUBSET (DOMAIN c) /\ of(U \ {u}) \in SUBSET (DOMAIN c)
      BY <1>0
    <3>7. over(c, of(U)) = over(c, one(u)) + over(c, of(U \ {u}))
      <4>1. PICK A : A = one(u)
        OBVIOUS
      <4>2. PICK B : B = of(U \ {u})
        OBVIOUS
      <4>3. /\ A \in SUBSET (DOMAIN c) /\ B \in SUBSET (DOMAIN c) /\ A \cap B = {}
            /\ of(U) = A \cup B
        BY <3>5, <3>6, <4>1, <4>2
      <4> HIDE DEF one, of
      <4>4. over(c, A \cup B) = over(c, A) + over(c, B)
        BY <4>3, OverBoth
      <4> QED BY <4>1, <4>2, <4>3, <4>4
    <3> QED BY <3>2, <3>3, <3>4, <3>7
  <2> QED BY <2>1, <2>2
<1> HIDE DEF F
<1>3. PICK G : G = DOMAIN t
  OBVIOUS
<1>4. \A U \in SUBSET G : (\A u \in U : U \ {u} \in F) => U \in F
  BY <1>2, <1>3
<1>5. \A U \in SUBSET G : U \in F
  BY <1>1, <1>3, <1>4, BySubsets DEF Finitely
<1>6. over(t, DOMAIN t) = over(c, of(DOMAIN t))
  BY <1>3, <1>5 DEF F
<1>7. of(DOMAIN t) = DOMAIN c
  BY <1>0
<1> QED BY <1>1, <1>6, <1>7, OverAll

-----------------------------------------------------------------------------
(* Pay *)

\* One of the values is the greatest.
LEMMA HasGreatest ==
    ASSUME NEW S, IsFiniteSet(S), S # {}, NEW v, \A x \in S : v[x] \in Int
    PROVE  \E i \in S : \A j \in S : v[i] >= v[j]
<1> DEFINE F == {T \in SUBSET S : T # {} => \E i \in T : \A j \in T : v[i] >= v[j]}
<1>1. ASSUME NEW T \in SUBSET S, \A y \in T : T \ {y} \in F
      PROVE  T \in F
  <2> SUFFICES ASSUME T # {} PROVE \E i \in T : \A j \in T : v[i] >= v[j]
    OBVIOUS
  <2>1. PICK y \in T : TRUE
    OBVIOUS
  <2>2. CASE T \ {y} = {}
    <3>1. \A j \in T : j = y
      BY <2>2
    <3> QED BY <2>1, <3>1
  <2>3. CASE T \ {y} # {}
    <3>1. PICK i \in T \ {y} : \A j \in T \ {y} : v[i] >= v[j]
      BY <1>1, <2>1, <2>3
    <3>2. v[i] \in Int /\ \A j \in T : v[j] \in Int
      OBVIOUS
    <3>3. CASE v[i] >= v[y]
      BY <3>1, <3>3
    <3>4. CASE v[y] >= v[i]
      <4>1. \A j \in T : v[y] >= v[j]
        BY <3>1, <3>2, <3>4
      <4> QED BY <2>1, <4>1
    <3> QED BY <2>1, <3>2, <3>3, <3>4
  <2> QED BY <2>2, <2>3
<1> HIDE DEF F
<1>2. \A T \in SUBSET S : (\A y \in T : T \ {y} \in F) => T \in F
  BY <1>1
<1>3. \A T \in SUBSET S : T \in F
  BY <1>2, BySubsets
<1> QED BY <1>3 DEF F

LEMMA RoundedIsInteger ==
    ASSUME NEW n \in Int, NEW d \in Nat \ {0}
    PROVE  rounded(n, d) \in Int
BY DEF rounded

\* A year that wage-caps.js does not know has a cap all the same.
LEMMA CapIsKnown ==
    ASSUME NEW year
    PROVE  capOf(year) \in Nat
<1> DEFINE years == DOMAIN CapsByYear
<1>1. /\ years # {} /\ CapsByYear \in [years -> Nat]
      /\ IsFiniteSet(years) /\ years \subseteq Nat
  BY ClaimsAssumption
<1>2. PICK v : v = [x \in years |-> x]
  OBVIOUS
<1> HIDE DEF years
<1>3. \A x \in years : v[x] = x /\ v[x] \in Int
  BY <1>1, <1>2
<1>4. \E i \in years : \A j \in years : v[i] >= v[j]
  BY <1>1, <1>3, HasGreatest
<1>5. \E i \in years : \A j \in years : i >= j
  BY <1>3, <1>4
<1>6. Max(years) \in years
  BY <1>5 DEF Max
<1> QED BY <1>1, <1>6 DEF capOf, years

\* However the pay rows of an attachment overlap or leave gaps, a day that has a
\* price has it from a row in effect on it, and none in effect is later, or as
\* late with a higher id (t661.js:14-21).
THEOREM PricedByLatest ==
    ASSUME NEW rows \in Seq(PayRow), NEW day, findEffectiveComp(rows, day) # NoComp
    PROVE  \E i \in inEffect(rows, day) :
             /\ findEffectiveComp(rows, day) = rows[i] /\ rows[i] \in PayRow
             /\ \A j \in inEffect(rows, day) :
                  \/ rows[i].effective_from > rows[j].effective_from
                  \/ rows[i].effective_from = rows[j].effective_from /\ i >= j
<1> DEFINE found == inEffect(rows, day)
           wins(i) == \A j \in found :
                   \/ rows[i].effective_from > rows[j].effective_from
                   \/ rows[i].effective_from = rows[j].effective_from /\ i >= j
<1>1. /\ found # {} /\ found \subseteq 1..Len(rows)
      /\ findEffectiveComp(rows, day) = rows[CHOOSE i \in found : wins(i)]
  BY DEF findEffectiveComp, inEffect
<1>2. \A i \in found : rows[i] \in PayRow
  BY <1>1
<1>3. IsFiniteSet(found)
  BY <1>1, FS_Interval, FS_Subset
<1>4. PICK from : from = [i \in found |-> rows[i].effective_from]
  OBVIOUS
<1> HIDE DEF found
<1>5. \A i \in found : from[i] = rows[i].effective_from /\ from[i] \in Int /\ i \in Int
  BY <1>1, <1>2, <1>4 DEF PayRow
<1>6. PICK i \in found : \A j \in found : from[i] >= from[j]
  BY <1>1, <1>3, <1>5, HasGreatest
<1>7. PICK as : as = {j \in found : from[j] = from[i]}
  OBVIOUS
<1>8. PICK v : v = [j \in as |-> j]
  OBVIOUS
<1>9. IsFiniteSet(as) /\ as # {} /\ \A x \in as : v[x] = x /\ v[x] \in Int
  BY <1>3, <1>5, <1>6, <1>7, <1>8, FS_Subset
<1>10. PICK k \in as : \A j \in as : v[k] >= v[j]
  BY <1>9, HasGreatest
<1>11. k \in found /\ from[k] = from[i] /\ \A j \in found : from[j] = from[i] => k >= j
  BY <1>7, <1>9, <1>10
<1>12. ASSUME NEW j \in found PROVE from[k] > from[j] \/ (from[k] = from[j] /\ k >= j)
  BY <1>5, <1>6, <1>11
<1>13. wins(k)
  BY <1>5, <1>11, <1>12
<1> HIDE DEF wins
<1>14. PICK w : w = CHOOSE x \in found : wins(x)
  OBVIOUS
<1>15. w \in found /\ wins(w)
  BY <1>11, <1>13, <1>14
<1> QED BY <1>1, <1>2, <1>14, <1>15 DEF wins, found

-----------------------------------------------------------------------------
(* The figures of a book *)

\* What an entry costs is a whole number of cents.
LEMMA CostIsInteger ==
    ASSUME NEW quarters \in Nat, NEW comp \in PayRow, NEW isSpecified, NEW year
    PROVE  lineCents(quarters, comp, isSpecified, year) \in Int
<1>1. /\ comp.amount_cents \in Nat /\ comp.hours_per_year \in Nat \ {0}
  BY DEF PayRow
<1>2. annualBase(comp) \in Nat
  BY <1>1 DEF annualBase
<1>3. effectiveAnnual(comp, isSpecified, year) \in Nat
  BY <1>2, CapIsKnown DEF effectiveAnnual
<1>4. PICK n : n = effectiveAnnual(comp, isSpecified, year)
  OBVIOUS
<1>5. PICK h : h = comp.hours_per_year
  OBVIOUS
<1>6. quarters * n \in Int /\ 4 * h \in Nat \ {0}
  BY <1>1, <1>3, <1>4, <1>5
<1>7. rounded(quarters * n, 4 * h) \in Int
  BY <1>6, RoundedIsInteger
<1> QED BY <1>4, <1>5, <1>7 DEF lineCents

\* What computeT661 may count on: finite tables, costs and amounts in whole
\* cents, labour of its own projects, and one expense for each id.
Sound(book) ==
    /\ book.method \in Methods
    /\ IsFiniteSet(book.projects) /\ IsFiniteSet(book.labour) /\ IsFiniteSet(book.expenses)
    /\ \A l \in book.labour :
         costOf(book, l) \in Int /\ l.quarters \in Nat /\ l.overtime \in BOOLEAN
    /\ \A e \in book.expenses : e.category \in VALID_CATEGORIES /\ reportingAmount(e) \in Int
    /\ \A e \in book.expenses, f \in book.expenses : e.id = f.id => e = f

LEMMA LineIsSound ==
    ASSUME ClaimsTypeOK, NEW x \in Expenses, stands(x)
    PROVE  /\ lineFor(x).id = x /\ lineFor(x).category \in VALID_CATEGORIES
           /\ reportingAmount(lineFor(x)) \in Int
<1>1. expense[x].fields \in Fields
  BY DEF ClaimsTypeOK, stands, ExpenseRow
<1>2. PICK e : e = expense[x].fields
  OBVIOUS
<1>3. /\ lineFor(x).id = x /\ lineFor(x).category = e.category
      /\ lineFor(x).amount_cents = e.amount_cents /\ lineFor(x).fx_rate = e.fx_rate
  BY <1>2 DEF lineFor
<1>4. e.category \in VALID_CATEGORIES /\ e.amount_cents \in Nat /\ e.fx_rate \in Rates \cup {Null}
  BY <1>1, <1>2, FieldsAssumption DEF Fields
<1>5. PICK rate : rate = IF lineFor(x).fx_rate = Null THEN 100 ELSE lineFor(x).fx_rate
  OBVIOUS
<1>6. rate \in Nat
  <2>1. CASE e.fx_rate = Null
    BY <1>3, <1>5, <2>1
  <2>2. CASE e.fx_rate # Null
    BY <1>3, <1>4, <1>5, <2>2, FieldsAssumption
  <2> QED BY <2>1, <2>2
<1>7. rounded(e.amount_cents * rate, 100) \in Int
  <2>1. e.amount_cents * rate \in Int
    BY <1>4, <1>6
  <2> QED BY <2>1, RoundedIsInteger
<1>8. reportingAmount(lineFor(x)) = rounded(e.amount_cents * rate, 100)
  BY <1>3, <1>5 DEF reportingAmount
<1> QED BY <1>3, <1>4, <1>7, <1>8

LEMMA BookIsSound ==
    ASSUME ClaimsTypeOK, NEW q \in Periods, NEW method \in Methods,
           ~refused(bookOf(q, method))
    PROVE  Sound(bookOf(q, method))
<1> DEFINE book == bookOf(q, method)
           counted == {y \in approvedIn(q) : ProjectOf[y] \in sred}
<1>1. /\ book.method = method /\ book.projects = sred /\ book.comp = pay
      /\ book.labour = {l \in approvedLabour : PeriodOf[l.day] = q /\ l.project \in sred}
      /\ book.expenses = {lineFor(x) : x \in counted}
  BY DEF bookOf
<1> HIDE DEF book
<1>2. IsFiniteSet(book.projects) /\ IsFiniteSet(book.labour)
  <2>1. book.projects \subseteq Projects /\ book.labour \subseteq Labour
    BY <1>1 DEF ClaimsTypeOK, sred
  <2> QED BY <2>1, ClaimsAssumption, FS_Subset
<1>3. \A x \in counted : x \in Expenses /\ stands(x)
  BY DEF approvedIn
<1>4. IsFiniteSet(book.expenses)
  <2>1. PICK line : line = [x \in counted |-> lineFor(x)]
    OBVIOUS
  <2>2. line \in Surjection(counted, book.expenses)
    <3> HIDE DEF counted
    <3> QED BY <1>1, <2>1 DEF Surjection
  <2>3. IsFiniteSet(counted)
    BY <1>3, ClaimsAssumption, FS_Subset
  <2> HIDE DEF counted
  <2> QED BY <2>2, <2>3, FS_Surjection
<1>5. ASSUME NEW l \in book.labour
      PROVE  costOf(book, l) \in Int /\ l.quarters \in Nat /\ l.overtime \in BOOLEAN
  <2>1. /\ l \in Labour /\ l.project \in book.projects /\ l.of \in Attachments
        /\ l.quarters \in Nat /\ l.overtime \in BOOLEAN
    BY <1>1, ClaimsAssumption DEF ClaimsTypeOK
  <2>2. compFor(book, l) # NoComp
    BY <2>1 DEF refused, book
  <2>3. pay[l.of] \in Seq(PayRow)
    BY <2>1 DEF ClaimsTypeOK
  <2>4. compFor(book, l) \in PayRow
    BY <1>1, <2>2, <2>3, PricedByLatest DEF compFor
  <2> QED BY <2>1, <2>4, CostIsInteger DEF costOf
<1>6. ASSUME NEW e \in book.expenses
      PROVE  e.category \in VALID_CATEGORIES /\ reportingAmount(e) \in Int
  <2>1. PICK x \in counted : e = lineFor(x)
    BY <1>1
  <2> QED BY <1>3, <2>1, LineIsSound
<1>7. ASSUME NEW e \in book.expenses, NEW f \in book.expenses, e.id = f.id PROVE e = f
  <2>1. PICK x \in counted : e = lineFor(x)
    BY <1>1
  <2>2. PICK y \in counted : f = lineFor(y)
    BY <1>1
  <2>3. e.id = x /\ f.id = y
    BY <1>3, <2>1, <2>2, LineIsSound
  <2> QED BY <1>7, <2>1, <2>2, <2>3
<1> QED BY <1>1, <1>2, <1>4, <1>5, <1>6, <1>7 DEF Sound, book

\* The amounts of the expenses of a book, by expense.
amounts(book) == [e \in book.expenses |-> reportingAmount(e)]

LEMMA AmountsAreFinite ==
    ASSUME NEW book, Sound(book)
    PROVE  Finitely(amounts(book)) /\ DOMAIN amounts(book) = book.expenses
BY DEF Sound, amounts, Finitely

LEMMA AmountsOver ==
    ASSUME NEW book, NEW S \in SUBSET book.expenses
    PROVE  totalOf([e \in S |-> reportingAmount(e)]) = over(amounts(book), S)
<1>1. [e \in S |-> reportingAmount(e)] = only(amounts(book), S)
  BY DEF only, amounts
<1> QED BY <1>1 DEF over

\* The expenses of project p in some categories.
mineOf(book, p, categories) == {e \in book.expenses : e.project = p /\ e.category \in categories}

LEMMA SpentOver ==
    ASSUME NEW book, NEW p, NEW category
    PROVE  spent(book, p, category) = over(amounts(book), mineOf(book, p, {category}))
<1>1. mineOf(book, p, {category}) = {e \in book.expenses : e.project = p /\ e.category = category}
  BY DEF mineOf
<1>2. mineOf(book, p, {category}) \in SUBSET book.expenses
  BY DEF mineOf
<1> QED BY <1>1, <1>2, AmountsOver DEF spent

LEMMA MineSplits ==
    ASSUME NEW book, Sound(book), NEW p, NEW a, NEW b, a \cap b = {}
    PROVE  over(amounts(book), mineOf(book, p, a \cup b)) =
             over(amounts(book), mineOf(book, p, a)) + over(amounts(book), mineOf(book, p, b))
<1>1. PICK A : A = mineOf(book, p, a)
  OBVIOUS
<1>2. PICK B : B = mineOf(book, p, b)
  OBVIOUS
<1>3. /\ A \in SUBSET book.expenses /\ B \in SUBSET book.expenses /\ A \cap B = {}
      /\ mineOf(book, p, a \cup b) = A \cup B
  BY <1>1, <1>2 DEF mineOf
<1>4. over(amounts(book), A \cup B) = over(amounts(book), A) + over(amounts(book), B)
  BY <1>3, AmountsAreFinite, OverBoth
<1> QED BY <1>1, <1>2, <1>3, <1>4

\* The labour of a project is its worksheet, row by row.
LEMMA WorksheetAddsUp ==
    ASSUME NEW book, Sound(book), NEW p, NEW cost,
           cost = [uc \in DOMAIN labour_worksheet(book, p) |-> labour_worksheet(book, p)[uc].cost]
    PROVE  Finitely(cost) /\ totalOf(cost) = totalsOf(book, p).labour /\ totalOf(cost) \in Int
<1>1. PICK mine : mine = {l \in book.labour : l.project = p}
  OBVIOUS
<1>2. PICK c : c = [l \in mine |-> costOf(book, l)]
  OBVIOUS
<1>3. Finitely(c) /\ DOMAIN c = mine
  BY <1>1, <1>2, FS_Subset DEF Sound, Finitely
<1>4. totalsOf(book, p).labour = totalOf(c)
  BY <1>1, <1>2 DEF totalsOf
<1>5. PICK g : g = [l \in mine |-> l.of]
  OBVIOUS
<1>6. DOMAIN cost = {l.of : l \in mine}
  BY <1>1 DEF labour_worksheet
<1>7. DOMAIN cost = {g[l] : l \in DOMAIN c}
  BY <1>3, <1>5, <1>6
<1>8. ASSUME NEW uc \in DOMAIN cost
      PROVE  cost[uc] = over(c, {l \in DOMAIN c : g[l] = uc})
  <2>1. cost[uc] = totalOf([l \in {m \in mine : m.of = uc} |-> costOf(book, l)])
    BY <1>1, <1>6 DEF labour_worksheet
  <2>2. {m \in mine : m.of = uc} = {l \in DOMAIN c : g[l] = uc}
    BY <1>3, <1>5
  <2>3. PICK S : S = {m \in mine : m.of = uc}
    OBVIOUS
  <2>4. only(c, S) = [l \in S |-> costOf(book, l)]
    BY <1>2, <2>3 DEF only
  <2> QED BY <2>1, <2>2, <2>3, <2>4 DEF over
<1>9. Finitely(cost) /\ totalOf(cost) = totalOf(c)
  BY <1>3, <1>7, <1>8, OverGroups
<1> QED BY <1>4, <1>9, TotalIsInteger

\* The expenses listed for project p under the lines ns of the form.
listed(book, p, ns) == {e \in visible(book, p) : expenseT661LineNumber(e) \in ns}

\* The downloads count each of them once.
LEMMA FormCounts ==
    ASSUME NEW book, Sound(book), NEW p \in book.projects, NEW ns, NEW detail, NEW k,
           detail = toCsv(computeT661(book)).expenses[p],
           k = [i \in {j \in DOMAIN detail : detail[j].line \in ns} |-> detail[i].cents]
    PROVE  totalOf(k) = over(amounts(book), listed(book, p, ns))
<1>1. PICK t : t = computeT661(book)
  OBVIOUS
<1>2. p \in DOMAIN t.totals /\ t.lines[p] = visible(book, p) /\ p \in DOMAIN t.lines
  BY <1>1 DEF computeT661
<1>3. PICK lines : lines = visible(book, p)
  OBVIOUS
<1>4. lines \subseteq book.expenses /\ lines \subseteq allLines(t)
  BY <1>2, <1>3 DEF visible, allLines
<1>5. PICK number : number = [e \in allLines(t) |-> expenseT661LineNumber(e)]
  OBVIOUS
<1>6. toCsv(t).expenses = expenseRows(t, number)
  BY <1>5 DEF toCsv
<1>7. detail = [i \in {e.id : e \in lines} |->
                  LET l == CHOOSE e \in lines : e.id = i IN expenseRow(number[l], l)]
  <2>1. detail = expenseRows(t, number)[p]
    BY <1>1, <1>6
  <2>2. expenseRows(t, number)[p] =
          [i \in {e.id : e \in t.lines[p]} |->
             LET l == CHOOSE e \in t.lines[p] : e.id = i IN expenseRow(number[l], l)]
    BY <1>2 DEF expenseRows
  <2>3. t.lines[p] = lines
    BY <1>2, <1>3
  <2> QED BY <2>1, <2>2, <2>3
<1>8. ASSUME NEW e \in lines
      PROVE  /\ e.id \in DOMAIN detail
             /\ detail[e.id].line = expenseT661LineNumber(e)
             /\ detail[e.id].cents = reportingAmount(e)
  <2>1. (CHOOSE f \in lines : f.id = e.id) = e
    BY <1>4 DEF Sound
  <2>2. e.id \in {f.id : f \in lines}
    OBVIOUS
  <2>3. detail[e.id] = expenseRow(number[e], e)
    BY <1>7, <2>1, <2>2
  <2>4. number[e] = expenseT661LineNumber(e)
    BY <1>4, <1>5
  <2> QED BY <1>7, <2>2, <2>3, <2>4 DEF expenseRow
<1>9. PICK S : S = listed(book, p, ns)
  OBVIOUS
<1>10. S = {e \in lines : expenseT661LineNumber(e) \in ns} /\ S \subseteq book.expenses
  BY <1>3, <1>4, <1>9 DEF listed
<1>11. DOMAIN detail = {e.id : e \in lines}
  BY <1>7
<1>12. DOMAIN k = {e.id : e \in S}
  <2>1. DOMAIN k = {j \in DOMAIN detail : detail[j].line \in ns}
    OBVIOUS
  <2>2. ASSUME NEW j \in DOMAIN k PROVE \E e \in S : j = e.id
    BY <1>8, <1>10, <1>11, <2>1, <2>2
  <2>3. ASSUME NEW e \in S PROVE e.id \in DOMAIN k
    BY <1>8, <1>10, <2>1, <2>3
  <2> QED BY <2>2, <2>3
<1>13. PICK c : c = only(amounts(book), S)
  OBVIOUS
<1>14. Finitely(c) /\ DOMAIN c = S /\ \A e \in S : c[e] = reportingAmount(e)
  <2>1. PICK all : all = amounts(book)
    OBVIOUS
  <2>2. Finitely(all) /\ S \in SUBSET (DOMAIN all)
    BY <1>10, <2>1, AmountsAreFinite
  <2>3. Finitely(only(all, S)) /\ DOMAIN only(all, S) = S
    BY <2>2, TotalOfSome
  <2> QED BY <1>10, <1>13, <2>1, <2>3 DEF only, amounts
<1>15. PICK h : h = [e \in S |-> e.id]
  OBVIOUS
<1>16. \A x \in DOMAIN c, y \in DOMAIN c : h[x] = h[y] => x = y
  BY <1>10, <1>14, <1>15 DEF Sound
<1>17. DOMAIN k = {h[x] : x \in DOMAIN c}
  BY <1>12, <1>14, <1>15
<1>18. \A x \in DOMAIN c : k[h[x]] = c[x]
  <2> SUFFICES ASSUME NEW x \in S PROVE k[x.id] = reportingAmount(x)
    BY <1>14, <1>15
  <2>1. x.id \in DOMAIN k
    BY <1>12
  <2>2. k[x.id] = detail[x.id].cents
    BY <2>1
  <2> QED BY <1>8, <1>10, <2>2
<1>19. totalOf(k) = totalOf(c)
  <2>1. Finitely(c)
    BY <1>14
  <2>2. PICK m : m = k
    OBVIOUS
  <2>3. DOMAIN m = {h[x] : x \in DOMAIN c} /\ \A x \in DOMAIN c : m[h[x]] = c[x]
    BY <1>17, <1>18, <2>2
  <2>4. totalOf(m) = totalOf(c)
    BY <1>16, <2>1, <2>3, OverRenamed
  <2> QED BY <2>2, <2>4
<1> QED BY <1>9, <1>13, <1>19 DEF over

LEMMA ListedByCategory ==
    ASSUME NEW book, Sound(book), NEW p
    PROVE  /\ listed(book, p, {320, 325}) = mineOf(book, p, {"material"})
           /\ listed(book, p, {340, 350}) = mineOf(book, p, {"contract"})
           /\ listed(book, p, {345}) = mineOf(book, p, {"third_party_payment"})
<1> DEFINE n(e) == expenseT661LineNumber(e)
<1>1. ASSUME NEW e \in book.expenses
      PROVE  /\ n(e) \in {320, 325} <=> e.category = "material"
             /\ n(e) \in {340, 350} <=> e.category = "contract"
             /\ n(e) \in {345} <=> e.category = "third_party_payment"
  <2>1. e.category \in VALID_CATEGORIES
    BY DEF Sound
  <2> QED BY <2>1 DEF expenseT661LineNumber, VALID_CATEGORIES
<1>2. \A e \in visible(book, p) : e \in book.expenses /\ e.project = p
  BY DEF visible
<1>3. \A e \in book.expenses : e.project = p /\ e.category # "overhead" => e \in visible(book, p)
  BY DEF visible
<1> HIDE DEF n
<1> QED BY <1>1, <1>2, <1>3 DEF listed, mineOf, n

\* A book's totals of one project, by category.
LEMMA TotalsByCategory ==
    ASSUME NEW book, Sound(book), NEW p
    PROVE  /\ totalsOf(book, p).materials = over(amounts(book), mineOf(book, p, {"material"}))
           /\ totalsOf(book, p).contract = over(amounts(book), mineOf(book, p, {"contract"}))
           /\ totalsOf(book, p).third_party =
                over(amounts(book), mineOf(book, p, {"third_party_payment"}))
           /\ book.method # "proxy" => totalsOf(book, p).overhead =
                over(amounts(book), mineOf(book, p, {"overhead"}))
BY SpentOver DEF totalsOf, overheadOf

LEMMA TotalsAreIntegers ==
    ASSUME NEW book, Sound(book), NEW p
    PROVE  /\ \A f \in COMPARABLE_FIELDS : totalsOf(book, p)[f] \in Int
           /\ totalsOf(book, p).total =
                totalsOf(book, p).labour + totalsOf(book, p).materials
                  + totalsOf(book, p).contract + totalsOf(book, p).third_party
                  + totalsOf(book, p).overhead
<1>1. PICK cost : cost = [uc \in DOMAIN labour_worksheet(book, p) |->
                            labour_worksheet(book, p)[uc].cost]
  OBVIOUS
<1>2. PICK labour : labour = totalsOf(book, p).labour
  OBVIOUS
<1>3. labour \in Int
  BY <1>1, <1>2, WorksheetAddsUp
<1>4. ASSUME NEW category PROVE spent(book, p, category) \in Int
  <2>1. mineOf(book, p, {category}) \in SUBSET book.expenses
    BY DEF mineOf
  <2> QED BY <2>1, SpentOver, AmountsAreFinite, OverSome
<1>5. /\ totalsOf(book, p).materials = spent(book, p, "material")
      /\ totalsOf(book, p).contract = spent(book, p, "contract")
      /\ totalsOf(book, p).third_party = spent(book, p, "third_party_payment")
      /\ totalsOf(book, p).overhead = overheadOf(book, p, labour)
  BY <1>2 DEF totalsOf
<1>6. overheadOf(book, p, labour) \in Int
  <2>1. 55 * labour \in Int
    BY <1>3
  <2>2. rounded(55 * labour, 100) \in Int
    BY <2>1, RoundedIsInteger
  <2> QED BY <1>4, <2>2 DEF overheadOf
<1>7. totalsOf(book, p).total =
                totalsOf(book, p).labour + totalsOf(book, p).materials
                  + totalsOf(book, p).contract + totalsOf(book, p).third_party
                  + totalsOf(book, p).overhead
  BY DEF totalsOf
<1>8. /\ totalsOf(book, p).labour \in Int /\ totalsOf(book, p).materials \in Int
      /\ totalsOf(book, p).contract \in Int /\ totalsOf(book, p).third_party \in Int
      /\ totalsOf(book, p).overhead \in Int
  BY <1>2, <1>3, <1>4, <1>5, <1>6
<1>9. totalsOf(book, p).total \in Int
  BY <1>7, <1>8
<1>10. COMPARABLE_FIELDS = {"labour", "materials", "contract", "third_party", "overhead", "total"}
  BY DEF COMPARABLE_FIELDS, T661_LINES
<1> QED BY <1>7, <1>8, <1>9, <1>10

\* What is listed, and under the proxy method the overhead, is what is counted.
LEMMA ListedAddsUp ==
    ASSUME NEW book, Sound(book), NEW p
    PROVE  totalsOf(book, p).total =
             totalsOf(book, p).labour + sumOf(visible(book, p), VALID_CATEGORIES)
               + (IF book.method = "proxy" THEN totalsOf(book, p).overhead ELSE 0)
<1> DEFINE of(categories) == over(amounts(book), mineOf(book, p, categories))
           three == {"material"} \cup {"contract"} \cup {"third_party_payment"}
<1>1. /\ of({"material"}) \in Int /\ of({"contract"}) \in Int
      /\ of({"third_party_payment"}) \in Int /\ of({"overhead"}) \in Int
  <2>1. ASSUME NEW categories PROVE of(categories) \in Int
    <3>1. mineOf(book, p, categories) \in SUBSET book.expenses
      BY DEF mineOf
    <3> QED BY <3>1, AmountsAreFinite, OverSome
  <2> QED BY <2>1
<1>2. of(three) = of({"material"}) + of({"contract"}) + of({"third_party_payment"})
  <2>1. of({"material"} \cup {"contract"}) = of({"material"}) + of({"contract"})
    BY MineSplits
  <2>2. of(three) = of({"material"} \cup {"contract"}) + of({"third_party_payment"})
    BY MineSplits
  <2> QED BY <2>1, <2>2
<1>3. of(three \cup {"overhead"}) = of(three) + of({"overhead"})
  BY MineSplits
<1>4. visible(book, p) \in SUBSET book.expenses
        /\ {l \in visible(book, p) : l.category \in VALID_CATEGORIES} = visible(book, p)
  BY DEF visible, Sound
<1>5. sumOf(visible(book, p), VALID_CATEGORIES) = over(amounts(book), visible(book, p))
  BY <1>4, AmountsOver DEF sumOf
<1>6. visible(book, p) = mineOf(book, p, IF book.method = "proxy" THEN three
                                                                  ELSE three \cup {"overhead"})
  BY DEF visible, mineOf, Sound, VALID_CATEGORIES
<1>7. PICK listing : listing = sumOf(visible(book, p), VALID_CATEGORIES)
  OBVIOUS
<1>8. PICK t : t = totalsOf(book, p)
  OBVIOUS
<1>9. /\ t.materials = of({"material"}) /\ t.contract = of({"contract"})
      /\ t.third_party = of({"third_party_payment"})
      /\ book.method # "proxy" => t.overhead = of({"overhead"})
  BY <1>8, TotalsByCategory
<1>10. /\ t.total = t.labour + t.materials + t.contract + t.third_party + t.overhead
       /\ t.labour \in Int /\ t.overhead \in Int
  BY <1>8, TotalsAreIntegers DEF COMPARABLE_FIELDS, T661_LINES
<1> HIDE DEF of, three
<1>11. CASE book.method = "proxy"
  <2>1. listing = of(three)
    BY <1>5, <1>6, <1>7, <1>11 DEF of
  <2>2. t.total = t.labour + listing + t.overhead
    BY <1>1, <1>2, <1>9, <1>10, <2>1
  <2> QED BY <1>7, <1>8, <1>11, <2>2
<1>12. CASE book.method # "proxy"
  <2>1. listing = of(three \cup {"overhead"})
    BY <1>5, <1>6, <1>7, <1>12 DEF of
  <2>2. t.total = t.labour + listing + 0
    BY <1>1, <1>2, <1>3, <1>9, <1>10, <1>12, <2>1
  <2> QED BY <1>7, <1>8, <1>12, <2>2
<1> QED BY <1>11, <1>12

\* Each project's figures.
LEMMA LinesDoAddUp ==
    ASSUME NEW book, Sound(book), NEW t, t = computeT661(book)
    PROVE  LinesAddUp(t)
<1>1. /\ DOMAIN t.totals = book.projects /\ t.method = book.method
      /\ \A p \in book.projects : /\ t.totals[p] = totalsOf(book, p)
                                  /\ t.lines[p] = visible(book, p)
                                  /\ t.worksheet[p] = labour_worksheet(book, p)
  BY DEF computeT661
<1> SUFFICES ASSUME NEW p \in DOMAIN t.totals
             PROVE  LET lines == t.lines[p]
                        totals == t.totals[p]
                        detail == toCsv(t).expenses[p]
                        onForm(ns) ==
                          totalOf([i \in {j \in DOMAIN detail : detail[j].line \in ns} |->
                                     detail[i].cents])
                    IN /\ totals.materials = onForm({320, 325})
                       /\ totals.contract = onForm({340, 350})
                       /\ totals.third_party = onForm({345})
                       /\ totals.total = totals.labour + sumOf(lines, VALID_CATEGORIES)
                                           + (IF t.method = "proxy" THEN totals.overhead ELSE 0)
                       /\ totals.labour =
                            totalOf([uc \in DOMAIN t.worksheet[p] |-> t.worksheet[p][uc].cost])
  BY DEF LinesAddUp
<1> DEFINE detail == toCsv(t).expenses[p]
           onForm(ns) ==
             totalOf([i \in {j \in DOMAIN detail : detail[j].line \in ns} |-> detail[i].cents])
<1>2. p \in book.projects
  BY <1>1
<1>3. ASSUME NEW ns PROVE onForm(ns) = over(amounts(book), listed(book, p, ns))
  <2>1. PICK d : d = detail
    OBVIOUS
  <2>2. PICK k : k = [i \in {j \in DOMAIN d : d[j].line \in ns} |-> d[i].cents]
    OBVIOUS
  <2>3. totalOf(k) = over(amounts(book), listed(book, p, ns))
    BY <1>2, <2>1, <2>2, FormCounts
  <2> QED BY <2>1, <2>2, <2>3
<1> HIDE DEF onForm, detail
<1>4. /\ totalsOf(book, p).materials = onForm({320, 325})
      /\ totalsOf(book, p).contract = onForm({340, 350})
      /\ totalsOf(book, p).third_party = onForm({345})
  BY <1>3, ListedByCategory, TotalsByCategory
<1>5. totalsOf(book, p).labour =
        totalOf([uc \in DOMAIN t.worksheet[p] |-> t.worksheet[p][uc].cost])
  BY <1>1, <1>2, WorksheetAddsUp
<1>6. totalsOf(book, p).total =
        totalsOf(book, p).labour + sumOf(t.lines[p], VALID_CATEGORIES)
          + (IF t.method = "proxy" THEN totalsOf(book, p).overhead ELSE 0)
  BY <1>1, <1>2, ListedAddsUp
<1> QED BY <1>1, <1>2, <1>4, <1>5, <1>6 DEF onForm, detail

\* Numbers that are not negative add up to more than zero if one of them is.
LEMMA PositiveTotal ==
    ASSUME NEW c, Finitely(c), \A x \in DOMAIN c : c[x] \in Nat
    PROVE  totalOf(c) \in Nat /\ (totalOf(c) > 0 <=> \E x \in DOMAIN c : c[x] > 0)
<1>1. PICK D : D = DOMAIN c
  OBVIOUS
<1> DEFINE F == {T \in SUBSET D : /\ over(c, T) \in Nat
                                  /\ over(c, T) > 0 <=> \E x \in T : c[x] > 0}
<1>2. ASSUME NEW T \in SUBSET D, \A y \in T : T \ {y} \in F
      PROVE  T \in F
  <2>1. CASE T = {}
    <3>1. over(c, T) = 0
      BY <1>1, <2>1, OverSome
    <3> QED BY <2>1, <3>1
  <2>2. CASE T # {}
    <3>1. PICK y \in T : TRUE
      BY <2>2
    <3>2. over(c, T) = c[y] + over(c, T \ {y}) /\ c[y] \in Nat
      BY <1>1, <3>1, OverSome
    <3>3. /\ over(c, T \ {y}) \in Nat
          /\ over(c, T \ {y}) > 0 <=> \E x \in T \ {y} : c[x] > 0
      BY <1>2, <3>1
    <3>4. (\E x \in T : c[x] > 0) <=> c[y] > 0 \/ \E x \in T \ {y} : c[x] > 0
      BY <3>1
    <3>5. over(c, T) \in Nat /\ (over(c, T) > 0 <=> c[y] > 0 \/ over(c, T \ {y}) > 0)
      BY <3>2, <3>3
    <3> QED BY <3>3, <3>4, <3>5
  <2> QED BY <2>1, <2>2
<1> HIDE DEF F
<1>3. \A T \in SUBSET D : (\A y \in T : T \ {y} \in F) => T \in F
  BY <1>2
<1>4. \A T \in SUBSET D : T \in F
  BY <1>1, <1>3, BySubsets DEF Finitely
<1>5. over(c, D) \in Nat /\ (over(c, D) > 0 <=> \E x \in D : c[x] > 0)
  BY <1>4 DEF F
<1> QED BY <1>1, <1>5, OverAll

\* The hours of each row of a worksheet.
LEMMA RowHours ==
    ASSUME NEW book, Sound(book), NEW p, NEW sheet, sheet = labour_worksheet(book, p),
           NEW uc \in DOMAIN sheet
    PROVE  /\ sheet[uc].total \in Nat /\ sheet[uc].regular \in Nat /\ sheet[uc].overtime \in Nat
           /\ sheet[uc].total = sheet[uc].regular + sheet[uc].overtime
<1>1. PICK mine : mine = {l \in {k \in book.labour : k.project = p} : l.of = uc}
  OBVIOUS
<1>2. PICK c : c = [l \in mine |-> l.quarters]
  OBVIOUS
<1>3. PICK A : A = {m \in mine : ~m.overtime}
  OBVIOUS
<1>4. PICK B : B = {m \in mine : m.overtime}
  OBVIOUS
<1>5. /\ sheet[uc].total = totalOf([l \in mine |-> l.quarters])
      /\ sheet[uc].regular = totalOf([l \in {m \in mine : ~m.overtime} |-> l.quarters])
      /\ sheet[uc].overtime = totalOf([l \in {m \in mine : m.overtime} |-> l.quarters])
  BY <1>1 DEF labour_worksheet
<1>6. mine \subseteq book.labour /\ IsFiniteSet(mine)
  BY <1>1, FS_Subset DEF Sound
<1>7. Finitely(c) /\ DOMAIN c = mine /\ \A l \in mine : c[l] \in Nat
  BY <1>2, <1>6 DEF Sound, Finitely
<1>8. /\ A \in SUBSET (DOMAIN c) /\ B \in SUBSET (DOMAIN c)
      /\ A \cap B = {} /\ A \cup B = DOMAIN c
  BY <1>3, <1>4, <1>6, <1>7 DEF Sound
<1>9. only(c, A) = [l \in A |-> l.quarters] /\ only(c, B) = [l \in B |-> l.quarters]
  BY <1>2, <1>7, <1>8 DEF only
<1>10. sheet[uc].regular = over(c, A) /\ sheet[uc].overtime = over(c, B)
  BY <1>3, <1>4, <1>5, <1>9 DEF over
<1>11. over(c, A \cup B) = over(c, A) + over(c, B)
  BY <1>7, <1>8, OverBoth
<1>12. over(c, A \cup B) = totalOf(c) /\ sheet[uc].total = totalOf(c)
  BY <1>2, <1>5, <1>7, <1>8, OverAll
<1>13. ASSUME NEW T \in SUBSET (DOMAIN c) PROVE over(c, T) \in Nat
  <2>1. PICK d : d = only(c, T)
    OBVIOUS
  <2>2. Finitely(d) /\ DOMAIN d = T
    BY <1>7, <2>1, TotalOfSome
  <2>3. \A x \in DOMAIN d : d[x] \in Nat
    BY <1>7, <2>1, <2>2 DEF only
  <2> QED BY <2>1, <2>2, <2>3, PositiveTotal DEF over
<1> QED BY <1>8, <1>10, <1>11, <1>12, <1>13

LEMMA HoursDoAddUp ==
    ASSUME NEW book, Sound(book), NEW t, t = computeT661(book)
    PROVE  HoursAddUp(t)
<1> SUFFICES ASSUME NEW p \in DOMAIN t.totals
             PROVE  LET sheet == t.worksheet[p]
                        hours == toCsv(t).hours
                    IN /\ \A uc \in DOMAIN sheet :
                            sheet[uc].total = sheet[uc].regular + sheet[uc].overtime
                       /\ p \in DOMAIN hours <=> withOvertime(sheet)
                       /\ p \in DOMAIN hours => hours[p][1].cents + hours[p][2].cents =
                            totalOf([uc \in DOMAIN sheet |-> sheet[uc].total])
  BY DEF HoursAddUp
<1>1. p \in book.projects /\ t.worksheet[p] = labour_worksheet(book, p)
  BY DEF computeT661
<1>2. PICK sheet : sheet = t.worksheet[p]
  OBVIOUS
<1>3. sheet = labour_worksheet(book, p)
  BY <1>1, <1>2
<1>4. ASSUME NEW uc \in DOMAIN sheet
      PROVE  /\ sheet[uc].total \in Nat /\ sheet[uc].regular \in Nat
             /\ sheet[uc].overtime \in Nat
             /\ sheet[uc].total = sheet[uc].regular + sheet[uc].overtime
  BY <1>3, RowHours
<1>5. IsFiniteSet(DOMAIN sheet)
  <2>1. PICK cost : cost = [uc \in DOMAIN labour_worksheet(book, p) |->
                              labour_worksheet(book, p)[uc].cost]
    OBVIOUS
  <2> QED BY <1>3, <2>1, WorksheetAddsUp DEF Finitely
<1>6. PICK all : all = [uc \in DOMAIN sheet |-> sheet[uc].total]
  OBVIOUS
<1>7. PICK regular : regular = [uc \in DOMAIN sheet |-> sheet[uc].regular]
  OBVIOUS
<1>8. PICK overtime : overtime = [uc \in DOMAIN sheet |-> sheet[uc].overtime]
  OBVIOUS
<1>9. /\ DOMAIN all = DOMAIN sheet /\ DOMAIN regular = DOMAIN sheet
      /\ DOMAIN overtime = DOMAIN sheet
      /\ \A uc \in DOMAIN sheet : /\ regular[uc] \in Nat /\ overtime[uc] \in Nat
                                  /\ overtime[uc] = sheet[uc].overtime
                                  /\ all[uc] = regular[uc] + overtime[uc]
  BY <1>4, <1>6, <1>7, <1>8
<1>10. Finitely(regular) /\ Finitely(overtime)
  BY <1>5, <1>9 DEF Finitely
<1>11. totalOf(all) = totalOf(regular) + totalOf(overtime)
  BY <1>9, <1>10, OverSums
<1>12. totalOf(overtime) > 0 <=> withOvertime(sheet)
  <2>1. \A x \in DOMAIN overtime : overtime[x] \in Nat
    BY <1>9
  <2>2. totalOf(overtime) > 0 <=> \E x \in DOMAIN overtime : overtime[x] > 0
    BY <1>10, <2>1, PositiveTotal
  <2> QED BY <1>9, <2>2 DEF withOvertime
<1> DEFINE sum(q, kind) == totalOf([uc \in DOMAIN t.worksheet[q] |-> t.worksheet[q][uc][kind]])
<1>13. toCsv(t).hours =
         [q \in {r \in DOMAIN t.totals : sum(r, "overtime") > 0} |->
            <<tagged(305, sum(q, "regular")), tagged(306, sum(q, "overtime"))>>]
  BY DEF toCsv
<1>14. sum(p, "regular") = totalOf(regular) /\ sum(p, "overtime") = totalOf(overtime)
  BY <1>2, <1>7, <1>8
<1> HIDE DEF sum
<1>15. p \in DOMAIN toCsv(t).hours <=> totalOf(overtime) > 0
  BY <1>13, <1>14
<1>16. ASSUME p \in DOMAIN toCsv(t).hours
       PROVE  toCsv(t).hours[p] =
                <<tagged(305, totalOf(regular)), tagged(306, totalOf(overtime))>>
  BY <1>13, <1>14, <1>16
<1>17. \A line, cents : tagged(line, cents).cents = cents
  BY DEF tagged
<1>18. ASSUME p \in DOMAIN toCsv(t).hours
       PROVE  toCsv(t).hours[p][1].cents + toCsv(t).hours[p][2].cents = totalOf(all)
  BY <1>11, <1>16, <1>17, <1>18
<1> QED BY <1>2, <1>4, <1>6, <1>12, <1>15, <1>18

\* A figure of every project.
column(book, f) == [p \in book.projects |-> totalsOf(book, p)[f]]

LEMMA GrandTotalAddsUp ==
    ASSUME NEW book, Sound(book), NEW t, t = computeT661(book)
    PROVE  /\ t.grand_total.total = totalOf([p \in DOMAIN t.totals |-> t.totals[p].total])
           /\ t.grand_total.total = totalOf([f \in Parts |-> t.grand_total[f]])
<1>1. /\ DOMAIN t.totals = book.projects
      /\ \A p \in book.projects : t.totals[p] = totalsOf(book, p)
  BY DEF computeT661
<1>2. COMPARABLE_FIELDS = {"labour", "materials", "contract", "third_party", "overhead", "total"}
  BY DEF COMPARABLE_FIELDS, T661_LINES
<1>3. Parts = {"labour", "materials", "contract", "third_party", "overhead"}
  BY <1>2 DEF Parts
<1>4. ASSUME NEW f \in COMPARABLE_FIELDS
      PROVE  /\ t.grand_total[f] = totalOf(column(book, f))
             /\ Finitely(column(book, f)) /\ DOMAIN column(book, f) = book.projects
             /\ \A p \in book.projects : column(book, f)[p] = totalsOf(book, p)[f]
  <2>1. t.grand_total = [g \in COMPARABLE_FIELDS |->
                           totalOf([p \in book.projects |-> totalsOf(book, p)[g]])]
    BY DEF computeT661
  <2>2. t.grand_total[f] = totalOf(column(book, f))
    BY <2>1 DEF column
  <2>3. \A p \in book.projects : column(book, f)[p] \in Int
    BY TotalsAreIntegers DEF column
  <2> QED BY <2>2, <2>3 DEF Finitely, column, Sound
<1>5. t.grand_total.total = totalOf(column(book, "total"))
  BY <1>2, <1>4
<1>6. column(book, "total") = [p \in DOMAIN t.totals |-> t.totals[p].total]
  BY <1>1 DEF column
<1>7. totalOf(column(book, "total")) =
        totalOf(column(book, "labour")) + totalOf(column(book, "materials"))
          + totalOf(column(book, "contract")) + totalOf(column(book, "third_party"))
          + totalOf(column(book, "overhead"))
  <2> DEFINE both(a, b) == [p \in book.projects |-> a[p] + b[p]]
  <2>1. ASSUME NEW a, NEW b, Finitely(a), Finitely(b),
               DOMAIN a = book.projects, DOMAIN b = book.projects
        PROVE  /\ Finitely(both(a, b)) /\ DOMAIN both(a, b) = book.projects
               /\ \A p \in book.projects : both(a, b)[p] = a[p] + b[p]
               /\ totalOf(both(a, b)) = totalOf(a) + totalOf(b)
    <3>1. /\ DOMAIN both(a, b) = book.projects
          /\ \A p \in book.projects : both(a, b)[p] = a[p] + b[p]
      OBVIOUS
    <3>2. PICK c : c = both(a, b)
      OBVIOUS
    <3>3. Finitely(c) /\ totalOf(c) = totalOf(a) + totalOf(b)
      BY <2>1, <3>1, <3>2, OverSums
    <3> QED BY <3>1, <3>2, <3>3
  <2> HIDE DEF both
  <2>2. PICK c1 : c1 = column(book, "labour")
    OBVIOUS
  <2>3. PICK c2 : c2 = column(book, "materials")
    OBVIOUS
  <2>4. PICK c3 : c3 = column(book, "contract")
    OBVIOUS
  <2>5. PICK c4 : c4 = column(book, "third_party")
    OBVIOUS
  <2>6. PICK c5 : c5 = column(book, "overhead")
    OBVIOUS
  <2>7. /\ Finitely(c1) /\ Finitely(c2) /\ Finitely(c3) /\ Finitely(c4) /\ Finitely(c5)
        /\ DOMAIN c1 = book.projects /\ DOMAIN c2 = book.projects /\ DOMAIN c3 = book.projects
        /\ DOMAIN c4 = book.projects /\ DOMAIN c5 = book.projects
    BY <1>2, <1>4, <2>2, <2>3, <2>4, <2>5, <2>6
  <2>8. PICK s2 : s2 = both(c1, c2)
    OBVIOUS
  <2>9. /\ Finitely(s2) /\ DOMAIN s2 = book.projects
        /\ \A p \in book.projects : s2[p] = c1[p] + c2[p]
        /\ totalOf(s2) = totalOf(c1) + totalOf(c2)
    BY <2>1, <2>7, <2>8
  <2>10. PICK s3 : s3 = both(s2, c3)
    OBVIOUS
  <2>11. /\ Finitely(s3) /\ DOMAIN s3 = book.projects
         /\ \A p \in book.projects : s3[p] = s2[p] + c3[p]
         /\ totalOf(s3) = totalOf(s2) + totalOf(c3)
    BY <2>1, <2>7, <2>9, <2>10
  <2>12. PICK s4 : s4 = both(s3, c4)
    OBVIOUS
  <2>13. /\ Finitely(s4) /\ DOMAIN s4 = book.projects
         /\ \A p \in book.projects : s4[p] = s3[p] + c4[p]
         /\ totalOf(s4) = totalOf(s3) + totalOf(c4)
    BY <2>1, <2>7, <2>11, <2>12
  <2>14. PICK s5 : s5 = both(s4, c5)
    OBVIOUS
  <2>15. /\ Finitely(s5) /\ DOMAIN s5 = book.projects
         /\ \A p \in book.projects : s5[p] = s4[p] + c5[p]
         /\ totalOf(s5) = totalOf(s4) + totalOf(c5)
    BY <2>1, <2>7, <2>13, <2>14
  <2>16. PICK c : c = column(book, "total")
    OBVIOUS
  <2>17. DOMAIN c = DOMAIN s5 /\ \A p \in DOMAIN s5 : c[p] = s5[p]
    <3>1. DOMAIN c = book.projects
      BY <1>2, <1>4, <2>16
    <3>2. ASSUME NEW p \in book.projects PROVE c[p] = s5[p]
      <4>1. c[p] = totalsOf(book, p).labour + totalsOf(book, p).materials
                     + totalsOf(book, p).contract + totalsOf(book, p).third_party
                     + totalsOf(book, p).overhead
        BY <2>16, TotalsAreIntegers DEF column
      <4>2. /\ c1[p] = totalsOf(book, p).labour /\ c2[p] = totalsOf(book, p).materials
            /\ c3[p] = totalsOf(book, p).contract /\ c4[p] = totalsOf(book, p).third_party
            /\ c5[p] = totalsOf(book, p).overhead
        BY <2>2, <2>3, <2>4, <2>5, <2>6 DEF column
      <4>3. s5[p] = c1[p] + c2[p] + c3[p] + c4[p] + c5[p]
        BY <2>9, <2>11, <2>13, <2>15
      <4> QED BY <4>1, <4>2, <4>3
    <3> QED BY <2>15, <3>1, <3>2
  <2>18. totalOf(c) = totalOf(s5)
    BY <2>15, <2>17, SameTotal
  <2>19. totalOf(c) = totalOf(c1) + totalOf(c2) + totalOf(c3) + totalOf(c4) + totalOf(c5)
    BY <2>9, <2>11, <2>13, <2>15, <2>18
  <2> QED BY <2>2, <2>3, <2>4, <2>5, <2>6, <2>16, <2>19
<1>8. PICK g : g = [f \in Parts |-> t.grand_total[f]]
  OBVIOUS
<1>9. Finitely(g) /\ DOMAIN g = Parts /\ \A f \in Parts : g[f] = totalOf(column(book, f))
  <2>1. \A f \in Parts : g[f] = totalOf(column(book, f)) /\ g[f] \in Int
    <3> SUFFICES ASSUME NEW f \in Parts
                 PROVE  g[f] = totalOf(column(book, f)) /\ g[f] \in Int
      OBVIOUS
    <3>1. f \in COMPARABLE_FIELDS
      BY DEF Parts
    <3>2. g[f] = totalOf(column(book, f)) /\ Finitely(column(book, f))
      BY <1>4, <1>8, <3>1
    <3> QED BY <3>2, TotalIsInteger
  <2>2. IsFiniteSet(Parts)
    <3>1. IsFiniteSet({} \cup {"labour"})
      BY FS_EmptySet, FS_AddElement
    <3>2. IsFiniteSet({} \cup {"labour"} \cup {"materials"})
      BY <3>1, FS_AddElement
    <3>3. IsFiniteSet({} \cup {"labour"} \cup {"materials"} \cup {"contract"})
      BY <3>2, FS_AddElement
    <3>4. IsFiniteSet({} \cup {"labour"} \cup {"materials"} \cup {"contract"}
                         \cup {"third_party"})
      BY <3>3, FS_AddElement
    <3>5. IsFiniteSet({} \cup {"labour"} \cup {"materials"} \cup {"contract"}
                         \cup {"third_party"} \cup {"overhead"})
      BY <3>4, FS_AddElement
    <3>6. Parts = {} \cup {"labour"} \cup {"materials"} \cup {"contract"}
                     \cup {"third_party"} \cup {"overhead"}
      BY <1>3
    <3> QED BY <3>5, <3>6
  <2> QED BY <1>8, <2>1, <2>2 DEF Finitely
<1>10. totalOf(g) = g["labour"] + g["materials"] + g["contract"]
                      + g["third_party"] + g["overhead"]
  <2>1. over(g, {}) = 0
    BY <1>9, OverSome
  <2>2. ASSUME NEW f \in Parts, NEW T \in SUBSET Parts, f \notin T
        PROVE  over(g, T \cup {f}) = g[f] + over(g, T)
    <3>1. T \cup {f} \in SUBSET (DOMAIN g) /\ (T \cup {f}) \ {f} = T
      BY <1>9, <2>2
    <3> QED BY <1>9, <3>1, OverSome
  <2> DEFINE T1 == {} \cup {"overhead"}
             T2 == T1 \cup {"third_party"}
             T3 == T2 \cup {"contract"}
             T4 == T3 \cup {"materials"}
             T5 == T4 \cup {"labour"}
  <2>3. over(g, T1) = g["overhead"] + 0
    BY <1>3, <2>1, <2>2
  <2>4. over(g, T2) = g["third_party"] + over(g, T1)
    BY <1>3, <2>2
  <2>5. over(g, T3) = g["contract"] + over(g, T2)
    BY <1>3, <2>2
  <2>6. over(g, T4) = g["materials"] + over(g, T3)
    BY <1>3, <2>2
  <2>7. over(g, T5) = g["labour"] + over(g, T4)
    BY <1>3, <2>2
  <2>8. T5 = DOMAIN g
    BY <1>3, <1>9
  <2> HIDE DEF T1, T2, T3, T4, T5
  <2>9. over(g, T5) = totalOf(g)
    BY <1>9, <2>8, OverAll
  <2>10. /\ g["labour"] \in Int /\ g["materials"] \in Int /\ g["contract"] \in Int
         /\ g["third_party"] \in Int /\ g["overhead"] \in Int
    BY <1>3, <1>9 DEF Finitely
  <2> QED BY <2>3, <2>4, <2>5, <2>6, <2>7, <2>9, <2>10
<1>11. totalOf(g) = totalOf(column(book, "total"))
  BY <1>3, <1>7, <1>9, <1>10
<1> QED BY <1>5, <1>6, <1>8, <1>11

LEMMA StateAddsUp == ClaimsTypeOK => FiguresAddUp
<1> SUFFICES ASSUME ClaimsTypeOK, NEW q \in Periods, NEW method \in Methods, priceable(q)
             PROVE  LET t == t661(q, method) IN
                    /\ LinesAddUp(t) /\ HoursAddUp(t)
                    /\ t.grand_total.total = totalOf([p \in DOMAIN t.totals |-> t.totals[p].total])
                    /\ t.grand_total.total = totalOf([f \in Parts |-> t.grand_total[f]])
  BY DEF FiguresAddUp, snapshots
<1>1. PICK book : book = bookOf(q, method)
  OBVIOUS
<1>2. Sound(book)
  BY <1>1, BookIsSound DEF priceable
<1>3. PICK t : t = t661(q, method)
  OBVIOUS
<1>4. t = computeT661(book)
  BY <1>1, <1>3 DEF t661
<1> QED BY <1>2, <1>3, <1>4, LinesDoAddUp, HoursDoAddUp, GrandTotalAddsUp

\* For any expenses, labour, pay and projects, and either method, the T661 of a
\* period adds up: the lines of the form are the totals, what is listed is what
\* is counted, the worksheet is the labour, and the grand total is the sum of
\* the projects and of its parts, and the hours of the CSV are those worked
\* (t661.js:80-250, format.js:225-258).
THEOREM T661AddsUp == ClaimsSpec => []FiguresAddUp
BY ClaimsTyped, StateAddsUp, PTL
=============================================================================
