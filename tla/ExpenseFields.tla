--------------------------- MODULE ExpenseFields ----------------------------
(***************************************************************************)
(* The fields of an expense that depend on one another: the category and   *)
(* its companions (migrations 014 and 015), and the currency, its rate and *)
(* the source of the rate.  What POST and PATCH /api/expenses make of a    *)
(* body, and what body the forms of the single-page application send.      *)
(*                                                                         *)
(* Null is a field that is null, Omitted one that the body does not have;  *)
(* "" stands for any blank text, "text" for any other.  Rates are in       *)
(* hundredths.  The description has no part in this.                       *)
(*                                                                         *)
(* A definition whose name ends in _Something is the one before the        *)
(* underscore with a plausible mistake in it; nothing uses it.             *)
(***************************************************************************)
EXTENDS Integers

CONSTANTS Null, Omitted, Days, Currencies, Amounts, Rates

VALID_CATEGORIES == {"material", "contract", "third_party_payment", "overhead"}
VALID_OVERHEAD_SUBCATEGORIES == {"rent", "other"}   \* two of the five
VALID_MATERIAL_DISPOSITIONS == {"consumed", "transformed"}
Texts == {"", "text"}

ASSUME FieldsAssumption ==
    /\ Null # Omitted
    /\ \A v \in {Null, Omitted} :
         /\ v \notin Int /\ v \notin Days /\ v \notin Currencies
         /\ v \notin Texts \cup VALID_CATEGORIES
                      \cup VALID_OVERHEAD_SUBCATEGORIES \cup VALID_MATERIAL_DISPOSITIONS
    /\ Amounts \subseteq Nat \ {0} /\ Rates \subseteq Nat \ {0}

Fields == [expense_date: Days, category: VALID_CATEGORIES, amount_cents: Amounts,
           currency: Currencies,
           fx_rate: Rates \cup {Null}, fx_rate_source: Texts \cup {Null},
           overhead_subcategory: VALID_OVERHEAD_SUBCATEGORIES \cup {Null},
           allocation_basis: Texts \cup {Null},
           material_disposition: VALID_MATERIAL_DISPOSITIONS \cup {Null},
           contract_arms_length: {0, 1, Null}]

\* The CHECKs of migration 015 over two columns, 014's included.
CompanionsFit(e) ==
    /\ e.category # "overhead" => e.overhead_subcategory = Null /\ e.allocation_basis = Null
    /\ e.category # "material" => e.material_disposition = Null
    /\ e.category # "contract" => e.contract_arms_length = Null

-----------------------------------------------------------------------------
(* The validators of routes/expenses.js: TRUE for what they let through. *)

validateAmount(amount) == amount \in Int /\ amount > 0

validateFxAgainstClaimant(currency, fx_rate, reporting) ==
    currency \notin {Null, reporting} => fx_rate # Null /\ fx_rate > 0

validateFxRateSource(fx_rate, source) ==
    IF fx_rate = Null THEN source \in {Null, ""} ELSE source \notin {Null, ""}

validateMaterialDisposition(category, disposition) ==
    IF category = "material" THEN disposition \in VALID_MATERIAL_DISPOSITIONS
                             ELSE disposition = Null

coerceArmsLengthFlag(v) == IF v \in {0, 1} THEN v ELSE Null

validateContractArmsLength(category, flag) ==
    IF category = "contract" THEN flag \in {0, 1} ELSE flag = Null

validateOverheadFields_Lenient(category, subcategory, basis) ==
    category = "overhead" =>
        subcategory \in VALID_OVERHEAD_SUBCATEGORIES /\ basis \notin {Null, ""}

validateOverheadFields(category, subcategory, basis) ==
    IF category = "overhead"
      THEN subcategory \in VALID_OVERHEAD_SUBCATEGORIES /\ basis \notin {Null, ""}
      ELSE subcategory = Null /\ basis = Null

-----------------------------------------------------------------------------
(* POST *)

\* An omitted field reads as null, an omitted currency as "CAD".
absent(v) == IF v = Omitted THEN Null ELSE v

posted(body) ==
    [body EXCEPT !.currency = IF @ = Omitted THEN "CAD" ELSE @,
                 !.fx_rate = absent(@), !.fx_rate_source = absent(@),
                 !.overhead_subcategory = absent(@), !.allocation_basis = absent(@),
                 !.material_disposition = absent(@),
                 !.contract_arms_length = coerceArmsLengthFlag(@)]

mayPost(body, reporting) ==
    LET e == posted(body) IN
    /\ e.expense_date \notin {Null, Omitted}
    /\ e.category \in VALID_CATEGORIES
    /\ validateAmount(e.amount_cents)
    /\ validateOverheadFields(e.category, e.overhead_subcategory, e.allocation_basis)
    /\ validateMaterialDisposition(e.category, e.material_disposition)
    /\ validateContractArmsLength(e.category, e.contract_arms_length)
    /\ validateFxRateSource(e.fx_rate, e.fx_rate_source)
    /\ validateFxAgainstClaimant(e.currency, e.fx_rate, reporting)

\* The row of the INSERT: a source without a rate is not kept, nor a companion
\* of another category.
inserted(body) ==
    LET e == posted(body)
        onlyOf(category, v) == IF e.category = category THEN v ELSE Null
    IN [e EXCEPT !.fx_rate_source = IF e.fx_rate = Null THEN Null ELSE @,
                 !.overhead_subcategory = onlyOf("overhead", @),
                 !.allocation_basis = onlyOf("overhead", @),
                 !.material_disposition = onlyOf("material", @),
                 !.contract_arms_length = onlyOf("contract", @)]

-----------------------------------------------------------------------------
(* PATCH *)

given(v, old) == IF v = Omitted THEN old ELSE v

\* What is left of a field the body does not speak of.
dropped(v, old) == IF v = Omitted /\ old # Null THEN Null ELSE v

movesFrom(category, body) == body.category \notin {Omitted, category}

withoutLeftovers_ButDisposition(row, body) ==
    [body EXCEPT
       !.overhead_subcategory = IF movesFrom("overhead", body)
                                  THEN dropped(@, row.overhead_subcategory) ELSE @,
       !.allocation_basis = IF movesFrom("overhead", body)
                              THEN dropped(@, row.allocation_basis) ELSE @,
       !.contract_arms_length = IF movesFrom("contract", body)
                                  THEN dropped(@, row.contract_arms_length) ELSE @,
       !.fx_rate_source = IF given(body.fx_rate, row.fx_rate) = Null
                            THEN dropped(@, row.fx_rate_source) ELSE @]

\* The auto-null part: the updates that the body asks for, and those it implies.
withoutLeftovers(row, body) ==
    [body EXCEPT
       !.overhead_subcategory = IF movesFrom("overhead", body)
                                  THEN dropped(@, row.overhead_subcategory) ELSE @,
       !.allocation_basis = IF movesFrom("overhead", body)
                              THEN dropped(@, row.allocation_basis) ELSE @,
       !.material_disposition = IF movesFrom("material", body)
                                  THEN dropped(@, row.material_disposition) ELSE @,
       !.contract_arms_length = IF movesFrom("contract", body)
                                  THEN dropped(@, row.contract_arms_length) ELSE @,
       !.fx_rate_source = IF given(body.fx_rate, row.fx_rate) = Null
                            THEN dropped(@, row.fx_rate_source) ELSE @]

\* The updates of a body: the flag is read as 0, 1 or null.
updatesOf(row, body) ==
    withoutLeftovers(row, [body EXCEPT !.contract_arms_length =
                             IF @ = Omitted THEN @ ELSE coerceArmsLengthFlag(@)])

\* The row after updates u.
updated(row, u) ==
    [row EXCEPT
       !.expense_date = given(u.expense_date, @),
       !.category = given(u.category, @),
       !.amount_cents = given(u.amount_cents, @),
       !.currency = given(u.currency, @),
       !.fx_rate = given(u.fx_rate, @),
       !.fx_rate_source = given(u.fx_rate_source, @),
       !.overhead_subcategory = given(u.overhead_subcategory, @),
       !.allocation_basis = given(u.allocation_basis, @),
       !.material_disposition = given(u.material_disposition, @),
       !.contract_arms_length = given(u.contract_arms_length, @)]

merged(row, body) == updated(row, updatesOf(row, body))

\* Updates u, and row m as they leave it, pass.  The rules of 015 that ask for
\* a field are waived where neither the category nor the field is touched: rows
\* older than the migration lack it.
passes(u, m, reporting) ==
    /\ u.category \in VALID_CATEGORIES \cup {Omitted}
    /\ u.amount_cents # Omitted => validateAmount(u.amount_cents)
    /\ validateFxAgainstClaimant(m.currency, m.fx_rate, reporting)
    /\ validateOverheadFields(m.category, m.overhead_subcategory, m.allocation_basis)
    /\ IF u.category # Omitted \/ u.material_disposition # Omitted
         THEN validateMaterialDisposition(m.category, m.material_disposition)
         ELSE m.category # "material" => m.material_disposition = Null
    /\ IF u.category # Omitted \/ u.contract_arms_length # Omitted
         THEN validateContractArmsLength(m.category, m.contract_arms_length)
         ELSE m.category # "contract" => m.contract_arms_length = Null
    /\ IF u.fx_rate # Omitted \/ u.fx_rate_source # Omitted
         THEN validateFxRateSource(m.fx_rate, m.fx_rate_source)
         ELSE m.fx_rate = Null => m.fx_rate_source = Null

mayPatch(row, body, reporting) ==
    passes(updatesOf(row, body), merged(row, body), reporting)

\* NOT NULL and the CHECKs over one column: an UPDATE that fails them answers
\* 500 and changes nothing.
columnsFit(m) == m \in Fields

-----------------------------------------------------------------------------
(* The forms of the single-page application *)

orElse(v, default) == IF v = Null THEN default ELSE v

firstDisposition_Transformed == "transformed"

\* A <select> without a selected option shows its first one.
firstDisposition == "consumed"

\* expenseEditFormHtml: what the controls show for a row.
formOf(row) ==
    [row EXCEPT !.fx_rate_source = orElse(@, ""),
                !.overhead_subcategory = orElse(@, "rent"),
                !.allocation_basis = orElse(@, ""),
                !.material_disposition = orElse(@, firstDisposition),
                !.contract_arms_length = orElse(@, 1)]

\* bindExpenseOverheadToggle: which of them the user sees.
shown(f) ==
    {"expense_date", "category", "amount_cents", "currency", "fx_rate"}
      \cup (IF f.fx_rate # Null THEN {"fx_rate_source"} ELSE {})
      \cup (CASE f.category = "overhead" -> {"overhead_subcategory", "allocation_basis"}
              [] f.category = "material" -> {"material_disposition"}
              [] f.category = "contract" -> {"contract_arms_length"}
              [] OTHER -> {})

\* submitExpenseEdit: a control that is not shown is sent as null, a blank too.
bodyOf(f) ==
    LET sent(field) == IF field \in shown(f) /\ f[field] # "" THEN f[field] ELSE Null
    IN [f EXCEPT !.fx_rate_source = sent("fx_rate_source"),
                 !.overhead_subcategory = sent("overhead_subcategory"),
                 !.allocation_basis = sent("allocation_basis"),
                 !.material_disposition = sent("material_disposition"),
                 !.contract_arms_length =
                   IF f.category = "contract" THEN f.contract_arms_length ELSE Null]
=============================================================================
