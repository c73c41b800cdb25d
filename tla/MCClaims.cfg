CONSTANTS
    x1 = x1
    x2 = x2
    adm = adm
    ivy = ivy
    p1 = p1
    p2 = p2
    fy1 = fy1
    fy2 = fy2
    u1 = u1
    l1 = l1
    l2 = l2
    l3 = l3
    Null = Null
    Omitted = Omitted
    NoRow = NoRow
    NoComp = NoComp
    NoLine = NoLine
    Days = {1, 2}
    Currencies = {"CAD", "USD"}
    Amounts = {333}
    Rates = {135}
    Expenses = {x1, x2}
    Touched = {x1}
    Seeds <- MCSeeds
    Employee = ivy
    Admins = {adm}
    Projects = {p1, p2}
    Periods = {fy1, fy2}
    PeriodOf <- MCPeriodOf
    ProjectOf <- MCProjectOf
    Contested <- MCContested
    Retyped = {p2}
    Closing = {fy1}
    Labour <- MCLabour
    Attachments = {u1}
    FirstPay <- MCFirstPay
    NewPay <- MCNewPay
    MaxPay = 2
    PatchBodies <- MCPatchBodies
    PostBodies <- MCPostBodies
    CapsByYear <- MCCaps
SPECIFICATION ClaimsSpec
INVARIANTS
    CategoryMayChange
    RouteKnowsTheChecks
    UntouchedSaveKeepsLine
    FiguresAddUp
    FormatsAgree
PROPERTIES
    ClosedFiguresStand
