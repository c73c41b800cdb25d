-------------------------------- MODULE T661 --------------------------------
(***************************************************************************)
(* The T661 of a period as a function of the approved rows (lib/t661.js,   *)
(* lib/wage-caps.js), the four formats it is downloaded in, and the        *)
(* comparison of two of them (lib/format.js).  Nothing here has state.     *)
(*                                                                         *)
(* Money is in cents, hours in quarters of an hour, rates in hundredths;   *)
(* Math.round of a quotient is exact here, where the code divides floats.  *)
(* Of a rendering the model keeps the figures and the form lines they are  *)
(* printed under, not the wording or the layout.                           *)
(*                                                                         *)
(* A definition whose name ends in _Something is the one before the        *)
(* underscore with a plausible mistake in it; nothing uses it.             *)
(***************************************************************************)
EXTENDS Integers, FiniteSets, FiniteSetsExt

CONSTANTS NoComp,         \* no compensation row is in effect
          NullField,      \* null
          NoLine,         \* '' in the column of the form line
          CapsByYear      \* CAPS_BY_YEAR of wage-caps.js: the caps of some years

\* Math.round(n / d) of a quotient that is not negative.
rounded(n, d) == (2 * n + d) \div (2 * d)

-----------------------------------------------------------------------------
(* Labour *)

\* specifiedEmployeeCapCents: a year that is missing has the latest one's cap.
capOf(year) ==
    IF year \in DOMAIN CapsByYear THEN CapsByYear[year] ELSE CapsByYear[Max(DOMAIN CapsByYear)]

\* findEffectiveComp: rows is the attachment's compensation by id.  The latest
\* effective_from that is not after the day wins, then the latest id.
inEffect(rows, day) ==
    {i \in DOMAIN rows : /\ rows[i].effective_from <= day
                         /\ rows[i].effective_until # NullField
                              => rows[i].effective_until >= day}

findEffectiveComp(rows, day) ==
    LET found == inEffect(rows, day)
    IN IF found = {} THEN NoComp
       ELSE rows[CHOOSE i \in found : \A j \in found :
                   \/ rows[i].effective_from > rows[j].effective_from
                   \/ rows[i].effective_from = rows[j].effective_from /\ i >= j]

annualBase(comp) ==
    IF comp.comp_type = "salary" THEN comp.amount_cents ELSE comp.amount_cents * comp.hours_per_year

capApplies(comp, isSpecified, year) == isSpecified /\ annualBase(comp) > capOf(year)

\* effectiveHourly, as the yearly amount that is divided by hours_per_year.
effectiveAnnual(comp, isSpecified, year) ==
    IF capApplies(comp, isSpecified, year) THEN capOf(year) ELSE annualBase(comp)

lineCents(quarters, comp, isSpecified, year) ==
    rounded(quarters * effectiveAnnual(comp, isSpecified, year), 4 * comp.hours_per_year)

-----------------------------------------------------------------------------
(* Expenses *)

reportingAmount(e) == rounded(e.amount_cents * (IF e.fx_rate = NullField THEN 100 ELSE e.fx_rate), 100)

expenseT661Line(e) ==
    CASE e.category = "material" ->
           IF e.material_disposition = "transformed" THEN "line 325" ELSE "line 320"
      [] e.category = "contract" ->
           IF e.contract_arms_length = 0 THEN "line 350" ELSE "line 340"
      [] e.category = "third_party_payment" -> "line 345"
      [] OTHER -> "line 360"

expenseT661LineNumber_Unsplit(e) ==
    CASE e.category = "material" -> 320
      [] e.category = "contract" -> 340
      [] e.category = "third_party_payment" -> 345
      [] OTHER -> 360

\* T661_LINE_NUMBERS, for the CSV.
expenseT661LineNumber(e) ==
    CASE e.category = "material" ->
           IF e.material_disposition = "transformed" THEN 325 ELSE 320
      [] e.category = "contract" ->
           IF e.contract_arms_length = 0 THEN 350 ELSE 340
      [] e.category = "third_party_payment" -> 345
      [] OTHER -> 360

\* The form line of each total, in prose and, for the CSV, as a number.
T661_LINES ==
    [labour |-> "line 305", materials |-> "line 320", contract |-> "line 340",
     third_party |-> "line 345", overhead |-> "line 360", total |-> NoLine]

T661_LINE_NUMBERS ==
    [labour |-> 305, materials |-> 320, contract |-> 340,
     third_party |-> 345, overhead |-> 360, total |-> NoLine]

COMPARABLE_FIELDS == DOMAIN T661_LINES

Parts == COMPARABLE_FIELDS \ {"total"}

-----------------------------------------------------------------------------
(* computeT661.  book is what it reads of the database: the claimant's     *)
(* method, its projects of type sred, the approved labour and expenses of  *)
(* the period, and who is paid what: [method, projects, labour, expenses,  *)
(* comp, specified].  An entry is [id, project, of, day, year, quarters,   *)
(* overtime], an expense its fields with id and project.                   *)

\* The sum of the values of a function.
totalOf(cents) == MapThenSumSet(LAMBDA x : cents[x], DOMAIN cents)

compFor(book, l) == findEffectiveComp(book.comp[l.of], l.day)

\* 422: an approved entry that nothing prices.
refused(book) ==
    \E l \in book.labour : l.project \in book.projects /\ compFor(book, l) = NoComp

costOf(book, l) ==
    lineCents(l.quarters, compFor(book, l), l.of \in book.specified, l.year)

\* One row for each attachment that worked on project p.
labour_worksheet(book, p) ==
    LET entries == {l \in book.labour : l.project = p}
        row(uc) ==
          LET mine == {l \in entries : l.of = uc} IN
          [total |-> totalOf([l \in mine |-> l.quarters]),
           regular |-> totalOf([l \in {m \in mine : ~m.overtime} |-> l.quarters]),
           overtime |-> totalOf([l \in {m \in mine : m.overtime} |-> l.quarters]),
           cost |-> totalOf([l \in mine |-> costOf(book, l)]),
           cap_applied |-> \E l \in mine :
             capApplies(compFor(book, l), l.of \in book.specified, l.year)]
    IN [uc \in {l.of : l \in entries} |-> row(uc)]

\* What project p spent on one category.
spent(book, p, category) ==
    LET mine == {e \in book.expenses : e.project = p /\ e.category = category}
    IN totalOf([e \in mine |-> reportingAmount(e)])

\* PROXY_OVERHEAD_RATE of the labour, or the expenses.
overheadOf(book, p, labour) ==
    IF book.method = "proxy" THEN rounded(55 * labour, 100) ELSE spent(book, p, "overhead")

totalsOf(book, p) ==
    LET mine == {l \in book.labour : l.project = p}
        labour == totalOf([l \in mine |-> costOf(book, l)])
        materials == spent(book, p, "material")
        contract == spent(book, p, "contract")
        third == spent(book, p, "third_party_payment")
        overhead == overheadOf(book, p, labour)
    IN [labour |-> labour, materials |-> materials, contract |-> contract,
        third_party |-> third, overhead |-> overhead,
        total |-> labour + materials + contract + third + overhead]

visible_All(book, p) == {e \in book.expenses : e.project = p}

\* expense_lines: under the proxy method the expenses that do not count are
\* not listed.
visible(book, p) ==
    {e \in book.expenses : e.project = p /\ (book.method = "proxy" => e.category # "overhead")}

\* The snapshot that POST /api/exports/t661 stores.
computeT661(book) ==
    LET totals == [p \in book.projects |-> totalsOf(book, p)] IN
    [method |-> book.method,
     totals |-> totals,
     worksheet |-> [p \in book.projects |-> labour_worksheet(book, p)],
     lines |-> [p \in book.projects |-> visible(book, p)],
     grand_total |-> [f \in COMPARABLE_FIELDS |->
                        totalOf([p \in book.projects |-> totals[p][f]])]]

-----------------------------------------------------------------------------
(* The downloads.  tagged pairs a form line with an amount in cents.       *)

tagged(line, cents) == [line |-> line, cents |-> cents]

withOvertime(sheet) == \E uc \in DOMAIN sheet : sheet[uc].overtime > 0

\* The category with its classification: "overhead · rent · 30% of the floor".
categoryLabel(e) ==
    {e.category}
      \cup (CASE e.category = "overhead" -> {e.overhead_subcategory, e.allocation_basis} \ {NullField}
              [] e.category = "material" -> {e.material_disposition} \ {NullField}
              [] e.category = "contract" /\ e.contract_arms_length # NullField ->
                   IF e.contract_arms_length = 1 THEN {"arms-length"} ELSE {"non-arms-length"}
              [] OTHER -> {})

expenseRow(line, e) == [label |-> categoryLabel(e), line |-> line, cents |-> reportingAmount(e)]

allLines(t) == UNION {t.lines[p] : p \in DOMAIN t.lines}

\* expense_lines[p] by id, each under its line of the form.
expenseRows(t, lineFor) ==
    [p \in DOMAIN t.totals |->
       [i \in {e.id : e \in t.lines[p]} |->
          LET l == CHOOSE e \in t.lines[p] : e.id = i IN expenseRow(lineFor[l], l)]]

\* Two hours columns more where somebody worked overtime.
hoursRow(sheet, uc) ==
    IF withOvertime(sheet) THEN <<sheet[uc].total, sheet[uc].regular, sheet[uc].overtime>>
                           ELSE <<sheet[uc].total>>

worksheetRows(sheet) ==
    [uc \in DOMAIN sheet |->
       [hours |-> hoursRow(sheet, uc), cents |-> sheet[uc].cost, flag |-> sheet[uc].cap_applied]]

totalRows(lineFor, totals) == [f \in COMPARABLE_FIELDS |-> tagged(lineFor[f], totals[f])]

toMarkdown(t) ==
    [grand |-> totalRows(T661_LINES, t.grand_total),
     totals |-> [p \in DOMAIN t.totals |-> totalRows(T661_LINES, t.totals[p])],
     worksheet |-> [p \in DOMAIN t.totals |-> worksheetRows(t.worksheet[p])],
     expenses |-> expenseRows(t, [e \in allLines(t) |-> expenseT661Line(e)])]

toPdf(t) ==
    [grand |-> totalRows(T661_LINES, t.grand_total),
     totals |-> [p \in DOMAIN t.totals |-> totalRows(T661_LINES, t.totals[p])],
     worksheet |-> [p \in DOMAIN t.totals |-> worksheetRows(t.worksheet[p])],
     expenses |-> expenseRows(t, [e \in allLines(t) |-> expenseT661Line(e)])]

\* The hours are the project's here, if any is overtime; of the grand total
\* there is one row.
toCsv(t) ==
    LET hours(p, kind) ==
          totalOf([uc \in DOMAIN t.worksheet[p] |-> t.worksheet[p][uc][kind]])
    IN [grand |-> tagged(NoLine, t.grand_total.total),
        totals |-> [p \in DOMAIN t.totals |-> totalRows(T661_LINE_NUMBERS, t.totals[p])],
        hours |-> [p \in {q \in DOMAIN t.totals : hours(q, "overtime") > 0} |->
                     <<tagged(305, hours(p, "regular")),
                       tagged(306, hours(p, "overtime"))>>],
        expenses |-> expenseRows(t, [e \in allLines(t) |-> expenseT661LineNumber(e)])]

-----------------------------------------------------------------------------
(* Two periods compared *)

\* delta_pct is null where the base is zero, or else this fraction.
diffPair(a, b) ==
    [delta_cents |-> b - a, delta_pct |-> IF a = 0 THEN NullField ELSE <<b - a, a>>]

diffTotals(a, b) == [f \in COMPARABLE_FIELDS |-> diffPair(a[f], b[f])]

\* A project that only one side has keeps that side's totals.
buildCompareDiff(a, b) ==
    LET here(t, p) == p \in DOMAIN t.totals
        side(t, p) == IF here(t, p) THEN t.totals[p] ELSE NullField
    IN [grand_total |-> diffTotals(a.grand_total, b.grand_total),
        projects |-> [p \in DOMAIN a.totals \cup DOMAIN b.totals |->
           [missing_from |-> CASE ~here(a, p) -> "a" [] ~here(b, p) -> "b" [] OTHER -> "none",
            a |-> side(a, p), b |-> side(b, p),
            diff |-> IF here(a, p) /\ here(b, p)
                       THEN diffTotals(a.totals[p], b.totals[p]) ELSE NullField]]]

\* One row of a comparison: the line, both sides and the difference.
compareRow(line, a, b, d) == [line |-> line, a |-> a, b |-> b, diff |-> d]

grandRows(lineFor, a, b, diff) ==
    [f \in COMPARABLE_FIELDS |->
       compareRow(lineFor[f], a.grand_total[f], b.grand_total[f], diff.grand_total[f])]

projectRows(lineFor, q) ==
    [f \in COMPARABLE_FIELDS |->
       CASE q.missing_from = "a" -> compareRow(lineFor[f], NullField, q.b[f], NullField)
         [] q.missing_from = "b" -> compareRow(lineFor[f], q.a[f], NullField, NullField)
         [] OTHER -> compareRow(lineFor[f], q.a[f], q.b[f], q.diff[f])]

\* Of a project that one side lacks only labour and total are printed.
briefRows(q) ==
    LET rows == projectRows(T661_LINES, q)
    IN IF q.missing_from = "none" THEN rows ELSE [f \in {"labour", "total"} |-> rows[f]]

toMarkdownCompare(a, b, diff) ==
    [grand |-> grandRows(T661_LINES, a, b, diff),
     projects |-> [p \in DOMAIN diff.projects |-> briefRows(diff.projects[p])]]

toPdfCompare(a, b, diff) ==
    [grand |-> grandRows(T661_LINES, a, b, diff),
     projects |-> [p \in DOMAIN diff.projects |-> briefRows(diff.projects[p])]]

toCsvCompare(a, b, diff) ==
    [grand |-> grandRows(T661_LINE_NUMBERS, a, b, diff),
     projects |-> [p \in DOMAIN diff.projects |->
                     projectRows(T661_LINE_NUMBERS, diff.projects[p])]]
=============================================================================
