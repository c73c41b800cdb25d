CONSTANTS
    Users = {eve}
    Keys = {k1}
    Counting = {k1}
    Links = {l1}
    Ceremonies = {n1, n2}
    Requests = {q1, q2}
    MaxChallenge = 3
    MaxCount = 2
    NoRow = NoRow
    NoUser = NoUser
    NoLink = NoLink
SPECIFICATION EnrolmentSpec
PROPERTIES
    CounterNeverFalls
