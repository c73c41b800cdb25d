CONSTANTS
    Users = {eve}
    Keys = {k1, k2}
    Counting = {k1}
    Links = {l1}
    Ceremonies = {n1, n2}
    Requests = {q1, q2}
    MaxChallenge = 2
    MaxCount = 1
    NoRow = NoRow
    NoUser = NoUser
    NoLink = NoLink
SPECIFICATION EnrolmentSpec
INVARIANTS
    LinkOpensOnce
    ResponseAcceptedOnce
    EnrolledHasKey
PROPERTIES
    InviteIsAnswered
