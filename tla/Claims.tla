------------------------------- MODULE Claims -------------------------------
(***************************************************************************)
(* What a claimant claims: the expenses with their fields, the claimant's  *)
(* settings, and the pay, the attachments, the projects and the reviews of *)
(* labour that the T661 of a period is computed from (routes/expenses.js,  *)
(* claimants.js, user-claimants.js, projects.js, labour.js, exports.js     *)
(* over modules ExpenseFields and T661).                                   *)
(*                                                                         *)
(* One claimant and one employee.  Who may post to which project, how      *)
(* labour is posted, edited and deleted, and how dates fall into periods   *)
(* are module Ledger's: here everybody named has access, the entries of    *)
(* labour stand and are reviewed, and a day belongs to one period for      *)
(* good.                                                                   *)
(*                                                                         *)
(* A definition whose name ends in _Something is the one before the        *)
(* underscore with a plausible mistake in it; no action uses it.           *)
(***************************************************************************)
EXTENDS ExpenseFields, Sequences, FiniteSets

CONSTANTS Expenses,       \* ids of expenses
          Touched,        \* bound: the expenses that requests are about
          Seeds,          \* the rows there may be when the upgrade is done
          Employee, Admins,
          Projects, Periods, PeriodOf,
          ProjectOf,      \* the project each expense would be posted to
          Labour,         \* entries, as module T661 reads them
          Contested,      \* bound: the entries that are reviewed again
          Attachments, FirstPay, NewPay,   \* the pay rows there are, and to come
          MaxPay,         \* bound: pay rows of one attachment
          Retyped,        \* bound: the projects that are created or change their type
          Closing,        \* bound: the periods that are closed and reopened
          PatchBodies, PostBodies,         \* what clients of the API send
          NoRow, NoComp, NoLine, CapsByYear

VARIABLES expense,    \* expenses
          closed,     \* the fiscal_periods with status 'closed'
          reporting,  \* claimants.reporting_currency
          pay,        \* compensation_rows of each attachment, by id
          specified,  \* the attachments with is_specified_employee
          type,       \* projects.type, "none" before the row exists
          approvedLabour   \* the labour_entries with status 'approved'

\* What the T661 reads that no period closes.
costVars == <<pay, specified, type, approvedLabour>>
claimVars == <<expense, closed, reporting, costVars>>

INSTANCE T661 WITH NullField <- Null

ExpenseRow == [fields: Fields,
               status: {"pending", "approved", "rejected"},
               reviewer: Admins \cup {Null}]

\* A row of compensation_rows; dates are numbered in their order.
PayRow == [comp_type: {"salary", "hourly"}, amount_cents: Nat \ {0},
           hours_per_year: Nat \ {0}, effective_from: Int, effective_until: Int \cup {Null}]

ProjectTypes == {"sred", "internal"}

\* What a body may speak of.
FieldNames == {"expense_date", "category", "amount_cents", "currency", "fx_rate",
               "fx_rate_source", "overhead_subcategory", "allocation_basis",
               "material_disposition", "contract_arms_length"}

ASSUME ClaimsAssumption ==
    /\ Touched \subseteq Expenses /\ Retyped \subseteq Projects /\ Contested \subseteq Labour
    /\ Closing \subseteq Periods
    /\ "CAD" \in Currencies
    /\ PeriodOf \in [Days -> Periods]
    /\ NoRow \notin ExpenseRow
    /\ \A body \in PostBodies \cup PatchBodies : body = [f \in FieldNames |-> body[f]]
    /\ IsFiniteSet(Expenses) /\ IsFiniteSet(Projects) /\ IsFiniteSet(Labour)
    /\ \A l \in Labour : l.of \in Attachments /\ l.quarters \in Nat /\ l.overtime \in BOOLEAN
    /\ FirstPay \in [Attachments -> Seq(PayRow)] /\ NewPay \subseteq PayRow
    /\ DOMAIN CapsByYear # {} /\ CapsByYear \in [DOMAIN CapsByYear -> Nat]
    /\ IsFiniteSet(DOMAIN CapsByYear) /\ DOMAIN CapsByYear \subseteq Nat
    /\ Seeds \subseteq [Expenses -> {r \in ExpenseRow : CompanionsFit(r.fields)} \cup {NoRow}]

ClaimsTypeOK ==
    /\ expense \in [Expenses -> ExpenseRow \cup {NoRow}]
    /\ closed \subseteq Periods
    /\ reporting \in Currencies
    /\ pay \in [Attachments -> Seq(PayRow)]
    /\ specified \subseteq Attachments
    /\ type \in [Projects -> ProjectTypes \cup {"none"}]
    /\ approvedLabour \subseteq Labour

stands(x) == expense[x] # NoRow

\* Labour and expenses are of projects there are (foreign keys).
ClaimsInit ==
    /\ expense \in Seeds
    /\ closed = {}
    /\ reporting = "CAD"
    /\ pay = FirstPay
    /\ specified \in SUBSET Attachments
    /\ approvedLabour = Labour
    /\ type \in [Projects -> {"sred", "none"}]
    /\ \A x \in Expenses : stands(x) => type[ProjectOf[x]] # "none"
    /\ \A l \in Labour : type[l.project] # "none"

-----------------------------------------------------------------------------
(* routes/expenses.js *)

Users == Admins \cup {Employee}

periodOf(e) == PeriodOf[e.fields.expense_date]

editable_ButNotItsPeriod(a, e) == e.status = "approved" => a \in Admins /\ e.reviewer = a

\* assertEditable: an approved entry is open to the admin who approved it.
editable(a, e) ==
    /\ e.status = "approved" => a \in Admins /\ e.reviewer = a
    /\ periodOf(e) \notin closed

\* POST /api/expenses: an admin's own entry is approved at once.
Post(a, x, body) ==
    /\ expense[x] = NoRow
    /\ type[ProjectOf[x]] # "none"
    /\ mayPost(body, reporting)
    /\ columnsFit(inserted(body))
    /\ PeriodOf[body.expense_date] \notin closed
    /\ expense' = [expense EXCEPT ![x] =
         [fields |-> inserted(body),
          status |-> IF a \in Admins THEN "approved" ELSE "pending",
          reviewer |-> IF a \in Admins THEN a ELSE Null]]
    /\ UNCHANGED <<closed, reporting, costVars>>

\* What was rejected, or approved by the admin who edits it, is pending again.
reviewCleared(a, e) ==
    e.status = "rejected" \/ (e.status = "approved" /\ a \in Admins /\ e.reviewer = a)

\* PATCH /api/expenses/:id; a new date must lie in an open period.
Patch(a, x, body) ==
    /\ stands(x)
    /\ editable(a, expense[x])
    /\ LET e == expense[x]
           u == updatesOf(e.fields, body)
           m == updated(e.fields, u)
       IN /\ {field \in DOMAIN u : u[field] # Omitted} # {}
          /\ passes(u, m, reporting)
          /\ columnsFit(m)
          /\ m.expense_date # e.fields.expense_date => PeriodOf[m.expense_date] \notin closed
          /\ expense' = [expense EXCEPT ![x] =
               IF reviewCleared(a, e)
                 THEN [fields |-> m, status |-> "pending", reviewer |-> Null]
                 ELSE [e EXCEPT !.fields = m]]
    /\ UNCHANGED <<closed, reporting, costVars>>

Delete(a, x) ==
    /\ stands(x)
    /\ editable(a, expense[x])
    /\ expense' = [expense EXCEPT ![x] = NoRow]
    /\ UNCHANGED <<closed, reporting, costVars>>

Approve(a, x) ==
    /\ stands(x)
    /\ expense' = [expense EXCEPT ![x].status = "approved", ![x].reviewer = a]
    /\ UNCHANGED <<closed, reporting, costVars>>

Reject(a, x) ==
    /\ stands(x)
    /\ expense' = [expense EXCEPT ![x].status = "rejected", ![x].reviewer = a]
    /\ UNCHANGED <<closed, reporting, costVars>>

-----------------------------------------------------------------------------
(* The forms *)

\* The controls that describe the expense, as a user may set those he sees.
described(f) ==
    {[f EXCEPT !.category = "material", !.material_disposition = d] :
        d \in VALID_MATERIAL_DISPOSITIONS}
      \cup {[f EXCEPT !.category = "contract", !.contract_arms_length = n] : n \in {0, 1}}
      \cup {[f EXCEPT !.category = "third_party_payment"]}
      \cup {[f EXCEPT !.category = "overhead", !.allocation_basis = "text"]}

\* And those that say what it cost.
priced(f) ==
    {[f EXCEPT !.currency = c, !.fx_rate = Null] : c \in Currencies}
      \cup {[f EXCEPT !.currency = c, !.fx_rate = r, !.fx_rate_source = "text"] :
              c \in Currencies, r \in Rates}

lockReason(e) ==
    IF e.status = "approved" THEN "approved"
    ELSE IF periodOf(e) \in closed THEN "period closed" ELSE Null

canAdminEdit(a, e) ==
    /\ periodOf(e) \notin closed
    /\ e.status = "approved" => e.reviewer = a

\* The inline editor of the employee's and of the admin's page, where it is
\* offered: it fills in the row as it is and sends everything it shows.
SaveEdit(a, x) ==
    /\ stands(x)
    /\ IF a \in Admins THEN canAdminEdit(a, expense[x]) ELSE lockReason(expense[x]) = Null
    /\ LET f == formOf(expense[x].fields)
       IN \E g \in described(f) \cup priced(f) : Patch(a, x, bodyOf(g))

\* The controls of "Submit expense" before anybody touches them.
newForm(day, amount, currency) ==
    [expense_date |-> day, category |-> "material", amount_cents |-> amount,
     currency |-> currency, fx_rate |-> Null, fx_rate_source |-> "",
     overhead_subcategory |-> "rent", allocation_basis |-> "",
     material_disposition |-> "consumed", contract_arms_length |-> 1]

\* The employee's form.
SubmitExpense(x) ==
    \E day \in Days, amount \in Amounts :
      LET f == newForm(day, amount, "CAD")
      IN \E g \in described(f) \cup priced(f) : Post(Employee, x, bodyOf(g))

\* The admin's form on behalf of the employee, in the claimant's currency.
PostOnBehalf(a, x) ==
    \E day \in Days, amount \in Amounts :
      LET f == newForm(day, amount, reporting)
      IN \E g \in described(f) \cup priced(f) : Post(a, x, bodyOf(g))

-----------------------------------------------------------------------------
(* The claimant, the pay, the projects and the labour *)

ClosePeriod(q) ==
    /\ q \notin closed
    /\ closed' = closed \cup {q}
    /\ UNCHANGED <<expense, reporting, costVars>>

ReopenPeriod(q) ==
    /\ q \in closed
    /\ closed' = closed \ {q}
    /\ UNCHANGED <<expense, reporting, costVars>>

\* PATCH /api/claimants/:id; another sred_method is refused.
PatchClaimant(currency) ==
    /\ reporting' = currency
    /\ UNCHANGED <<expense, closed, costVars>>

\* None of what follows asks for a period.

\* POST /api/user-claimants/:id/compensation
PostCompensation(uc, row) ==
    /\ Len(pay[uc]) < MaxPay
    /\ pay' = [pay EXCEPT ![uc] = Append(@, row)]
    /\ UNCHANGED <<expense, closed, reporting, specified, type, approvedLabour>>

\* PATCH /api/user-claimants/:id, as far as the T661 reads the row: its status,
\* which computeT661 does not ask for, is module Accounts'.
PatchAttachment(uc, is_specified_employee) ==
    /\ specified' = IF is_specified_employee THEN specified \cup {uc} ELSE specified \ {uc}
    /\ UNCHANGED <<expense, closed, reporting, pay, type, approvedLabour>>

\* POST /api/claimants/:id/projects
CreateProject(p, t) ==
    /\ type[p] = "none"
    /\ type' = [type EXCEPT ![p] = t]
    /\ UNCHANGED <<expense, closed, reporting, pay, specified, approvedLabour>>

\* PATCH /api/projects/:id with a type.
Retype(p, t) ==
    /\ type[p] # "none"
    /\ type' = [type EXCEPT ![p] = t]
    /\ UNCHANGED <<expense, closed, reporting, pay, specified, approvedLabour>>

\* POST /api/labour/bulk-approve, or .../:id/approve for one entry.
ApproveLabour(ls) ==
    /\ ls # {}
    /\ approvedLabour' = approvedLabour \cup ls
    /\ UNCHANGED <<expense, closed, reporting, pay, specified, type>>

\* POST /api/labour/:id/reject
RejectLabour(l) ==
    /\ approvedLabour' = approvedLabour \ {l}
    /\ UNCHANGED <<expense, closed, reporting, pay, specified, type>>

ClaimsNext ==
    \/ \E x \in Touched, a \in Users :
         \/ \E body \in PostBodies : Post(a, x, body)
         \/ \E body \in PatchBodies : Patch(a, x, body)
         \/ SaveEdit(a, x)
         \/ Delete(a, x)
    \/ \E x \in Touched : SubmitExpense(x)
    \/ \E x \in Touched, a \in Admins : PostOnBehalf(a, x) \/ Approve(a, x) \/ Reject(a, x)
    \/ \E q \in Closing : ClosePeriod(q) \/ ReopenPeriod(q)
    \/ \E c \in Currencies : PatchClaimant(c)
    \/ \E uc \in Attachments, row \in NewPay : PostCompensation(uc, row)
    \/ \E uc \in Attachments, flag \in BOOLEAN : PatchAttachment(uc, flag)
    \/ \E p \in Retyped, t \in ProjectTypes : CreateProject(p, t) \/ Retype(p, t)
    \/ \E ls \in SUBSET Contested : ApproveLabour(ls)
    \/ \E l \in Contested : RejectLabour(l)

ClaimsSpec == ClaimsInit /\ [][ClaimsNext]_claimVars

-----------------------------------------------------------------------------
(* The T661 *)

approvedIn(q) ==
    {x \in Expenses : stands(x) /\ expense[x].status = "approved" /\ periodOf(expense[x]) = q}

lineFor(x) ==
    LET e == expense[x].fields IN
    [id |-> x, project |-> ProjectOf[x], category |-> e.category,
     amount_cents |-> e.amount_cents, currency |-> e.currency,
     fx_rate |-> e.fx_rate, fx_rate_source |-> e.fx_rate_source,
     overhead_subcategory |-> e.overhead_subcategory, allocation_basis |-> e.allocation_basis,
     material_disposition |-> e.material_disposition,
     contract_arms_length |-> e.contract_arms_length]

\* claimants.sred_method: nothing changes it once the claimant exists.
Methods == {"proxy", "traditional"}

\* The projects of a T661.
sred == {p \in Projects : type[p] = "sred"}

\* What computeT661 reads for period q of a claimant with that method.
bookOf(q, method) ==
    [method |-> method, projects |-> sred, comp |-> pay, specified |-> specified,
     labour |-> {l \in approvedLabour : PeriodOf[l.day] = q /\ l.project \in sred},
     expenses |-> {lineFor(x) : x \in {y \in approvedIn(q) : ProjectOf[y] \in sred}}]

priceable(q) == \A method \in Methods : ~refused(bookOf(q, method))

\* POST /api/exports/t661, and both sides of a comparison.
t661(q, method) == computeT661(bookOf(q, method))

snapshots(method) == {t661(q, method) : q \in {r \in Periods : priceable(r)}}

-----------------------------------------------------------------------------
(* Properties *)

\* A body that names a new category with what that category asks for is never
\* refused for what is left of the old one (expenses.js:304-332).  The rate is
\* another matter: it must fit the claimant's currency.
namesCategory ==
    LET none == [f \in FieldNames |-> Omitted]
    IN {[none EXCEPT !.category = "material", !.material_disposition = "transformed"],
        [none EXCEPT !.category = "contract", !.contract_arms_length = 0],
        [none EXCEPT !.category = "third_party_payment"],
        [none EXCEPT !.category = "overhead", !.overhead_subcategory = "rent",
                     !.allocation_basis = "text"]}

CategoryMayChange ==
    \A x \in Expenses : stands(x) =>
      LET e == expense[x].fields IN
      validateFxAgainstClaimant(e.currency, e.fx_rate, reporting)
        => \A body \in namesCategory : mayPatch(e, body, reporting)

\* What the route lets through, the CHECKs over two columns let through: such
\* an error is a 400, not a constraint of SQLite (migrations/014:19-23).
RouteKnowsTheChecks ==
    /\ \A body \in PostBodies : mayPost(body, reporting) => CompanionsFit(inserted(body))
    /\ \A x \in Expenses, body \in PatchBodies :
         stands(x) /\ mayPatch(expense[x].fields, body, reporting)
           => CompanionsFit(merged(expense[x].fields, body))

\* Saving the editor untouched moves no expense to another line of the form and
\* changes no amount, even if the row is older than the fields that the editor
\* shows a default for (features.js:191-220, format.js:66-92).
UntouchedSaveKeepsLine ==
    \A x \in Expenses : stands(x) =>
      LET e == expense[x].fields
          body == bodyOf(formOf(e))
          m == merged(e, body)
      IN mayPatch(e, body, reporting) =>
           /\ expenseT661Line(m) = expenseT661Line(e)
           /\ reportingAmount(m) = reportingAmount(e)

\* What the T661 of a closed period is computed from changes in these ways only:
\* one of its own expenses or entries of labour is reviewed, pay is added, an
\* attachment is made a specified employee's or no longer is, a project is
\* created or changes its type.  No expense is created in it, edited, deleted or
\* moved in or out, and no handler reaches it that is about another period
\* (t661.js:50-160, expenses.js:210, :269, :384; of labour, see
\* ClosedPeriodFrozen of module Ledger).
ClosedFiguresStand ==
    [][\A q \in closed, method \in Methods : bookOf(q, method)' # bookOf(q, method) =>
         \/ \E x \in Expenses, a \in Admins :
              (Approve(a, x) \/ Reject(a, x)) /\ periodOf(expense[x]) = q
         \/ \E ls \in SUBSET Labour : \E l \in ls :
              (ApproveLabour(ls) \/ RejectLabour(l)) /\ PeriodOf[l.day] = q
         \/ \E uc \in Attachments, row \in NewPay : PostCompensation(uc, row)
         \/ \E uc \in Attachments, flag \in BOOLEAN : PatchAttachment(uc, flag)
         \/ \E p \in Projects, t \in ProjectTypes : CreateProject(p, t) \/ Retype(p, t)]_claimVars

\* The expenses listed are the expenses counted: each total is the sum of the
\* lines of its category, under the proxy method but for overhead, and the
\* lines of the form split the materials and the contracts (t661.js:128-134,
\* 177-183, format.js:80-92).
sumOf(lines, categories) ==
    totalOf([e \in {l \in lines : l.category \in categories} |-> reportingAmount(e)])

LinesAddUp(t) ==
    \A p \in DOMAIN t.totals :
      LET lines == t.lines[p]
          totals == t.totals[p]
          detail == toCsv(t).expenses[p]
          onForm(ns) ==
            totalOf([i \in {j \in DOMAIN detail : detail[j].line \in ns} |-> detail[i].cents])
      IN /\ totals.materials = onForm({320, 325}) /\ totals.contract = onForm({340, 350})
         /\ totals.third_party = onForm({345})
         /\ totals.total = totals.labour + sumOf(lines, VALID_CATEGORIES)
                             + (IF t.method = "proxy" THEN totals.overhead ELSE 0)
         /\ totals.labour = totalOf([uc \in DOMAIN t.worksheet[p] |-> t.worksheet[p][uc].cost])

\* The hours of an employee are his regular hours and his overtime, and the CSV,
\* which looks at the project's sums, tells them apart where the worksheet, which
\* looks at its rows, does (format.js:194, :240).
HoursAddUp(t) ==
    \A p \in DOMAIN t.totals :
      LET sheet == t.worksheet[p]
          hours == toCsv(t).hours
      IN /\ \A uc \in DOMAIN sheet : sheet[uc].total = sheet[uc].regular + sheet[uc].overtime
         /\ p \in DOMAIN hours <=> withOvertime(sheet)
         /\ p \in DOMAIN hours => hours[p][1].cents + hours[p][2].cents =
              totalOf([uc \in DOMAIN sheet |-> sheet[uc].total])

\* The T661 of a period adds up under either method: each project line by line,
\* and the grand total over the projects and over its parts (t661.js:203-250).
FiguresAddUp ==
    \A method \in Methods : \A t \in snapshots(method) :
      /\ LinesAddUp(t) /\ HoursAddUp(t)
      /\ t.grand_total.total = totalOf([p \in DOMAIN t.totals |-> t.totals[p].total])
      /\ t.grand_total.total = totalOf([f \in Parts |-> t.grand_total[f]])

\* The formats say the same: the totals and the expenses have the same amounts
\* under the same lines in the CSV, the Markdown and the PDF, and so do the two
\* sides and the differences of a comparison (format.js:34-57, 66-94).
sameLine(prose, number) ==
    \/ prose = NoLine /\ number = NoLine
    \/ <<prose, number>> \in {<<"line 325", 325>>, <<"line 350", 350>>}
    \/ \E f \in Parts : T661_LINES[f] = prose /\ T661_LINE_NUMBERS[f] = number

SnapshotsAgree(md, csv) ==
    LET same(a, b) == a.cents = b.cents /\ sameLine(a.line, b.line) IN
    \A p \in DOMAIN md.totals :
      /\ \A f \in COMPARABLE_FIELDS : same(md.totals[p][f], csv.totals[p][f])
      /\ DOMAIN md.expenses[p] = DOMAIN csv.expenses[p]
      /\ \A i \in DOMAIN md.expenses[p] : same(md.expenses[p][i], csv.expenses[p][i])

ComparisonsAgree(md, csv) ==
    LET same(a, b) == a.a = b.a /\ a.b = b.b /\ a.diff = b.diff /\ sameLine(a.line, b.line) IN
    /\ \A f \in COMPARABLE_FIELDS : same(md.grand[f], csv.grand[f])
    /\ \A p \in DOMAIN md.projects : \A f \in DOMAIN md.projects[p] :
         same(md.projects[p][f], csv.projects[p][f])

FormatsAgree ==
    \A method \in Methods : \A t \in snapshots(method) :
      /\ toMarkdown(t) = toPdf(t) /\ SnapshotsAgree(toMarkdown(t), toCsv(t))
      /\ \A u \in snapshots(method) \ {t} :
           LET diff == buildCompareDiff(t, u)
               md == toMarkdownCompare(t, u, diff)
           IN md = toPdfCompare(t, u, diff) /\ ComparisonsAgree(md, toCsvCompare(t, u, diff))
=============================================================================
