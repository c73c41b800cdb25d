------------------------------ MODULE MCClaims ------------------------------
(***************************************************************************)
(* Two expenses, one of them standing, two periods of a day each, for TLC. *)
(* The days lie in a year whose wage cap is known and in one whose is not. *)
(***************************************************************************)
EXTENDS Claims, TLC

CONSTANTS x1, x2, adm, ivy, p1, p2, fy1, fy2, u1, l1, l2, l3

MCProjectOf == (x1 :> p2) @@ (x2 :> p1)
MCPeriodOf == (1 :> fy1) @@ (2 :> fy2)
MCYearOf == (1 :> 2023) @@ (2 :> 2024)
MCCaps == (2023 :> 9000)

MCLabour ==
    {[id |-> l1, project |-> p1, of |-> u1, day |-> 1, year |-> MCYearOf[1],
      quarters |-> 3, overtime |-> FALSE],
     [id |-> l2, project |-> p1, of |-> u1, day |-> 2, year |-> MCYearOf[2],
      quarters |-> 5, overtime |-> TRUE],
     [id |-> l3, project |-> p1, of |-> u1, day |-> 2, year |-> MCYearOf[2],
      quarters |-> 6, overtime |-> FALSE]}

\* The entry of the period that is closed.
MCContested == {l \in MCLabour : l.day = 1}

Pay(kind, amount, from) ==
    [comp_type |-> kind, amount_cents |-> amount, hours_per_year |-> 10,
     effective_from |-> from, effective_until |-> Null]

\* Nothing prices the first day before a compensation row is back-dated to it.
MCFirstPay == [u \in {u1} |-> <<Pay("hourly", 1001, 2)>>]
MCNewPay == {Pay("salary", 7007, 1)}

\* A row with nothing but the fields of before migrations 014 and 015.
Plain(day, category, currency, rate) ==
    [expense_date |-> day, category |-> category, amount_cents |-> 333, currency |-> currency,
     fx_rate |-> rate, fx_rate_source |-> Null, overhead_subcategory |-> Null,
     allocation_basis |-> Null, material_disposition |-> Null, contract_arms_length |-> Null]

Row(fields, status) ==
    [fields |-> fields, status |-> status,
     reviewer |-> IF status = "pending" THEN Null ELSE adm]

MCStanding == Row([Plain(1, "contract", "USD", 135) EXCEPT !.contract_arms_length = 0], "approved")

MCSeeds ==
    {[x \in {x1, x2} |-> IF x = x2 THEN MCStanding ELSE r] :
       r \in {NoRow, Row(Plain(1, "material", "CAD", Null), "pending"),
              Row(Plain(1, "contract", "USD", 135), "approved"),
              Row(Plain(2, "overhead", "CAD", Null), "rejected")}}

None == [f \in FieldNames |-> Omitted]

\* Bodies of one field, or of a category with a companion or two.
MCPatchBodies ==
    {[None EXCEPT !.expense_date = d] : d \in {1, 2, Null}}
      \cup {[None EXCEPT !.fx_rate_source = "text"]}
      \cup {[None EXCEPT !.currency = c, !.fx_rate = r, !.fx_rate_source = "text"] :
              c \in {"CAD", "USD"}, r \in {Omitted, 0, 135}}
      \cup {[None EXCEPT !.fx_rate = Null]}
      \cup {[None EXCEPT !.category = c] : c \in VALID_CATEGORIES \cup {"travel"}}
      \cup {[None EXCEPT !.material_disposition = d] : d \in {Null, "transformed", "sold"}}
      \cup {[None EXCEPT !.category = "material", !.material_disposition = d] :
              d \in {"consumed", "transformed"}}
      \cup {[None EXCEPT !.category = c, !.contract_arms_length = n] :
              c \in {"contract", Omitted}, n \in {0, 2}}
      \cup {[None EXCEPT !.category = c, !.overhead_subcategory = s, !.allocation_basis = "text"] :
              c \in {Omitted, "overhead"}, s \in {"rent", "attic"}}

MCPostBodies ==
    {[Plain(2, c, "CAD", Null) EXCEPT !.material_disposition = d, !.overhead_subcategory = s] :
       c \in {"material", "overhead"}, d \in {Omitted, "transformed"}, s \in {Omitted, "rent"}}
      \cup {[None EXCEPT !.expense_date = 1, !.category = "third_party_payment",
                         !.amount_cents = 333, !.currency = c, !.fx_rate_source = s] :
              c \in {Omitted, "USD"}, s \in {Omitted, "", "text"}}
=============================================================================
