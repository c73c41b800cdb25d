-------------------------- MODULE EnrolmentProofs ---------------------------
(***************************************************************************)
(* Proofs about enrolment, for any users, passkeys, links, browsers and    *)
(* requests: the types, one session per link, one acceptance per signature *)
(* and a passkey for everybody a link let in.                              *)
(***************************************************************************)
EXTENDS Enrolment, FiniteSetTheorems, WellFoundedInduction, TLAPS

-----------------------------------------------------------------------------
(* The newest of some challenges *)

LEMMA HasNewest ==
    ASSUME NEW cs \in SUBSET (1..MaxChallenge), cs # {}
    PROVE  newest(cs) \in cs
<1> DEFINE less == OpToRel(<, Nat)
           down == {MaxChallenge - c : c \in cs}
<1>1. MaxChallenge \in Nat
  BY EnrolmentAssumption
<1>2. down \subseteq Nat /\ down # {}
  <2>1. \A c \in cs : MaxChallenge - c \in Nat
    BY <1>1
  <2>2. PICK c \in cs : TRUE
    OBVIOUS
  <2>3. MaxChallenge - c \in down
    OBVIOUS
  <2> QED BY <2>1, <2>3
<1>3. IsWellFoundedOn(less, Nat)
  BY NatLessThanWellFounded
<1> HIDE DEF less, down
<1>4. PICK m \in down : \A y \in down : ~(<<y, m>> \in less)
  BY <1>2, <1>3, WFMin
<1>5. \A y \in down : ~(y < m)
  <2>1. \A y \in down : <<y, m>> \in Nat \X Nat
    BY <1>2
  <2> QED BY <1>4, <2>1 DEF less, OpToRel
<1>6. PICK c \in cs : m = MaxChallenge - c
  BY DEF down
<1>7. ASSUME NEW d \in cs PROVE d <= c
  <2>1. MaxChallenge - d \in down
    BY DEF down
  <2>2. ~(MaxChallenge - d < MaxChallenge - c)
    BY <1>5, <1>6, <2>1
  <2> QED BY <1>1, <2>2
<1> QED BY <1>7 DEF newest

-----------------------------------------------------------------------------
(* The invariant *)

live(q) == request[q] # NoRow

\* What a ceremony knows, and what a request knows of its ceremony.
CeremoniesFit ==
    /\ \A n \in Ceremonies : ceremony[n] # NoRow =>
         /\ ceremony[n].kind = "register" => ceremony[n].user \in Users
         /\ ceremony[n].signed => ceremony[n].key \in Keys
         /\ ceremony[n].via # NoLink =>
              link[ceremony[n].via] # NoRow /\ link[ceremony[n].via].user = ceremony[n].user
    /\ \A q \in Requests : live(q) =>
         /\ ceremony[request[q].of] # NoRow /\ ceremony[request[q].of].signed
         /\ request[q].stored => ceremony[request[q].of].kind = "register"

\* A link is spent with the first session that it opens.
LinksSpent ==
    \A l \in Links : opened[l] <= 1 /\ (opened[l] > 0 => link[l] # NoRow /\ link[l].consumed)

\* Who is let in has a passkey, and so has who is about to be.
KeysKept ==
    /\ EnrolledHasKey
    /\ \A q \in Requests : live(q) /\ request[q].stored
                             => keysOf(ceremony[request[q].of].user) # {}

taken(c) == challenge[c] # NoRow /\ challenge[c].consumed

\* A challenge is taken by one request; once that has accepted its signature,
\* no request that waits holds the challenge.
ChallengesTaken ==
    /\ \A q \in Requests : live(q) => taken(request[q].expected)
    /\ \A q, r \in Requests : live(q) /\ live(r) /\ request[q].expected = request[r].expected
                                => q = r
    /\ \A n \in Ceremonies : accepted[n] > 0 =>
         /\ accepted[n] = 1 /\ ceremony[n] # NoRow /\ ceremony[n].signed
         /\ taken(ceremony[n].chal)
         /\ \A q \in Requests : live(q) /\ request[q].of = n
                                  /\ request[q].expected = ceremony[n].chal => request[q].stored

Inv == EnrolmentTypeOK /\ CeremoniesFit /\ LinksSpent /\ KeysKept /\ ChallengesTaken

LEMMA InitInv == EnrolmentInit => Inv
<1> SUFFICES ASSUME EnrolmentInit PROVE Inv
  OBVIOUS
<1>1. EnrolmentTypeOK
  BY EnrolmentAssumption DEF EnrolmentInit, EnrolmentTypeOK
<1>2. CeremoniesFit /\ LinksSpent /\ ChallengesTaken
  BY DEF EnrolmentInit, CeremoniesFit, LinksSpent, ChallengesTaken, live
<1>3. KeysKept
  BY DEF EnrolmentInit, KeysKept, EnrolledHasKey, live
<1> QED BY <1>1, <1>2, <1>3 DEF Inv

-----------------------------------------------------------------------------
(* Types *)

LEMMA CeremonyType ==
    ASSUME Inv, NEW n \in Ceremonies, ceremony[n] # NoRow
    PROVE  /\ ceremony[n] \in Ceremony
           /\ ceremony[n].kind = "register" => ceremony[n].user \in Users
           /\ ceremony[n].signed => ceremony[n].key \in Keys
BY DEF Inv, EnrolmentTypeOK, CeremoniesFit

LEMMA RequestType ==
    ASSUME Inv, NEW q \in Requests, live(q)
    PROVE  /\ request[q] \in Request
           /\ request[q].of \in Ceremonies
           /\ ceremony[request[q].of] \in Ceremony
           /\ ceremony[request[q].of] # NoRow
           /\ ceremony[request[q].of].signed
           /\ ceremony[request[q].of].key \in Keys
           /\ ceremony[request[q].of].kind = "register"
                => ceremony[request[q].of].user \in Users
<1>1. request[q] \in Request /\ request[q].of \in Ceremonies
  BY DEF Inv, EnrolmentTypeOK, live, Request
<1>2. ceremony[request[q].of] # NoRow /\ ceremony[request[q].of].signed
  BY DEF Inv, CeremoniesFit
<1> QED BY <1>1, <1>2, CeremonyType

LEMMA KeyLookups ==
    ASSUME Inv, NEW k \in Keys, cred[k] # NoRow
    PROVE  cred[k] \in Credential /\ cred[k].user \in Users /\ cred[k].counter \in 0..MaxCount
BY DEF Inv, EnrolmentTypeOK, Credential

\* Row r takes the place of row i of a table.
LEMMA Replaced ==
    ASSUME NEW I, NEW R, NEW t \in [I -> R], NEW i \in I, NEW r \in R
    PROVE  LET w == [t EXCEPT ![i] = r]
           IN  w \in [I -> R] /\ w[i] = r /\ \A j \in I \ {i} : w[j] = t[j]
OBVIOUS

-----------------------------------------------------------------------------
(* What most steps leave alone *)

LinksStay ==
    \A l \in Links : link[l] # NoRow =>
      /\ link'[l] # NoRow /\ link'[l].user = link[l].user
      /\ link[l].consumed => link'[l].consumed

KeysStay == \A u \in Users : keysOf(u) # {} => keysOf(u)' # {}

TakenStay == \A c \in 1..MaxChallenge : taken(c) => taken(c)'

FewerRequests == \A q \in Requests : live(q)' => live(q) /\ request'[q] = request[q]

LEMMA CeremoniesFrame ==
    ASSUME Inv, LinksStay, UNCHANGED ceremony, FewerRequests
    PROVE  CeremoniesFit'
<1>1. CeremoniesFit /\ \A n \in Ceremonies : ceremony[n] # NoRow =>
                         ceremony[n].via \in Links \cup {NoLink}
  BY DEF Inv, EnrolmentTypeOK, Ceremony
<1>2. ASSUME NEW n \in Ceremonies, ceremony'[n] # NoRow
      PROVE  /\ ceremony'[n].kind = "register" => ceremony'[n].user \in Users
             /\ ceremony'[n].signed => ceremony'[n].key \in Keys
             /\ ceremony'[n].via # NoLink => /\ link'[ceremony'[n].via] # NoRow
                                             /\ link'[ceremony'[n].via].user = ceremony'[n].user
  BY <1>1, <1>2 DEF CeremoniesFit, LinksStay
<1>3. ASSUME NEW q \in Requests, live(q)'
      PROVE  /\ ceremony'[request'[q].of] # NoRow /\ ceremony'[request'[q].of].signed
             /\ request'[q].stored => ceremony'[request'[q].of].kind = "register"
  BY <1>1, <1>3 DEF CeremoniesFit, FewerRequests
<1> QED BY <1>2, <1>3 DEF CeremoniesFit

LEMMA LinksFrame ==
    ASSUME Inv, LinksStay, UNCHANGED opened
    PROVE  LinksSpent'
BY DEF Inv, LinksSpent, LinksStay

LEMMA EnrolledFrame ==
    ASSUME Inv, LinksStay, KeysStay, UNCHANGED opened
    PROVE  EnrolledHasKey'
<1> SUFFICES ASSUME NEW l \in Links, opened[l] > 0
             PROVE  keysOf(link[l].user)' # {}
  BY DEF EnrolledHasKey
<1>1. link[l] # NoRow /\ link'[l].user = link[l].user /\ keysOf(link[l].user) # {}
  BY DEF Inv, LinksSpent, LinksStay, KeysKept, EnrolledHasKey
<1>2. link[l].user \in Users
  BY <1>1 DEF Inv, EnrolmentTypeOK, Link
<1>3. \E k \in Keys : cred'[k] # NoRow /\ cred'[k].user = link[l].user
  BY <1>1, <1>2 DEF KeysStay, keysOf
<1> QED BY <1>1, <1>3 DEF keysOf

LEMMA WaitingFrame ==
    ASSUME Inv, KeysStay, UNCHANGED ceremony, FewerRequests,
           NEW q \in Requests, live(q)', request'[q].stored
    PROVE  \E k \in Keys : cred'[k] # NoRow /\ cred'[k].user = ceremony'[request'[q].of].user
<1>1. live(q) /\ request'[q] = request[q] /\ request[q].stored
  BY DEF FewerRequests
<1>2. keysOf(ceremony[request[q].of].user) # {}
  BY <1>1 DEF Inv, KeysKept
<1>3. ceremony[request[q].of].user \in Users
  BY <1>1, RequestType DEF Inv, CeremoniesFit
<1> QED BY <1>1, <1>2, <1>3 DEF KeysStay, keysOf

LEMMA KeysFrame ==
    ASSUME Inv, LinksStay, KeysStay, UNCHANGED <<opened, ceremony>>, FewerRequests
    PROVE  KeysKept'
<1>1. EnrolledHasKey'
  BY EnrolledFrame
<1> QED BY <1>1, WaitingFrame DEF KeysKept, keysOf

LEMMA ChallengesFrame ==
    ASSUME Inv, TakenStay, UNCHANGED <<ceremony, accepted>>, FewerRequests
    PROVE  ChallengesTaken'
<1>1. /\ \A q \in Requests : live(q) => request[q].expected \in 1..MaxChallenge
      /\ \A n \in Ceremonies : ceremony[n] # NoRow => ceremony[n].chal \in 1..MaxChallenge
  BY DEF Inv, EnrolmentTypeOK, live, Request, Ceremony
<1>2. ChallengesTaken
  BY DEF Inv
<1>3. \A q \in Requests : live(q)' => taken(request[q].expected)' /\ request'[q] = request[q]
  BY <1>1, <1>2 DEF ChallengesTaken, TakenStay, FewerRequests
<1>4. \A n \in Ceremonies : ceremony[n] # NoRow /\ taken(ceremony[n].chal)
                              => taken(ceremony[n].chal)'
  BY <1>1 DEF TakenStay
<1> QED BY <1>2, <1>3, <1>4 DEF ChallengesTaken, FewerRequests, taken

LEMMA QuietStep ==
    ASSUME Inv, EnrolmentTypeOK', LinksStay, KeysStay, TakenStay, FewerRequests,
           UNCHANGED <<ceremony, opened, accepted>>
    PROVE  Inv'
BY CeremoniesFrame, LinksFrame, KeysFrame, ChallengesFrame DEF Inv

LEMMA Unmoved ==
    /\ UNCHANGED link => LinksStay
    /\ UNCHANGED cred => KeysStay
    /\ UNCHANGED challenge => TakenStay
    /\ UNCHANGED request => FewerRequests
BY DEF LinksStay, KeysStay, keysOf, TakenStay, taken, FewerRequests, live

-----------------------------------------------------------------------------
(* Links and accounts *)

LEMMA MintedStays ==
    ASSUME Inv, NEW l \in Links, NEW u \in Users, NEW p \in Purposes, Minted(l, u, p)
    PROVE  LinksStay /\ link' \in [Links -> Link \cup {NoRow}]
<1> DEFINE n == [user |-> u, purpose |-> p, consumed |-> FALSE, expired |-> FALSE]
<1>1. n \in Link
  BY DEF Link
<1>2. link' = [link EXCEPT ![l] = n] /\ link[l] = NoRow
  BY DEF Minted
<1> HIDE DEF n
<1>3. link \in [Links -> Link \cup {NoRow}]
  BY DEF Inv, EnrolmentTypeOK
<1> QED BY <1>1, <1>2, <1>3, Replaced DEF LinksStay

LEMMA LinkSteps ==
    ASSUME Inv, NEW l \in Links,
           \/ \E u \in Users : Invite(l, u) \/ Recover(l, u)
           \/ MailSettles(l) \/ MailTimesOut(l) \/ ExpireLink(l)
    PROVE  Inv'
<1>1. ASSUME NEW u \in Users, Invite(l, u) \/ Recover(l, u) PROVE Inv'
  <2>1. \E p \in Purposes : Minted(l, u, p)
    BY <1>1 DEF Invite, Recover, Purposes
  <2>2. LinksStay /\ link' \in [Links -> Link \cup {NoRow}]
    BY <2>1, MintedStays
  <2>3. UNCHANGED <<status, cred, challenge, ceremony, request, clock, opened, accepted>>
        /\ sending' \subseteq Links
    BY <1>1 DEF Invite, Recover, Inv, EnrolmentTypeOK
  <2>4. EnrolmentTypeOK'
    BY <2>2, <2>3 DEF Inv, EnrolmentTypeOK
  <2> QED BY <2>2, <2>3, <2>4, Unmoved, QuietStep
<1>2. ASSUME MailSettles(l) \/ MailTimesOut(l) PROVE Inv'
  <2>1. UNCHANGED <<status, cred, challenge, link, ceremony, request, clock, opened, accepted>>
        /\ sending' \subseteq Links
    BY <1>2 DEF MailSettles, MailTimesOut, answered, Inv, EnrolmentTypeOK
  <2>2. EnrolmentTypeOK'
    BY <2>1 DEF Inv, EnrolmentTypeOK
  <2> QED BY <2>1, <2>2, Unmoved, QuietStep
<1>3. ASSUME ExpireLink(l) PROVE Inv'
  <2> DEFINE n == [link[l] EXCEPT !.expired = TRUE]
  <2>1. link[l] \in Link /\ link \in [Links -> Link \cup {NoRow}] /\ NoRow \notin Link
    BY <1>3, EnrolmentAssumption DEF ExpireLink, Inv, EnrolmentTypeOK
  <2>2. n \in Link /\ n.user = link[l].user /\ n.consumed = link[l].consumed
    BY <2>1 DEF Link
  <2>3. link' = [link EXCEPT ![l] = n]
        /\ UNCHANGED <<status, cred, challenge, ceremony, request, clock, sending, opened, accepted>>
    BY <1>3 DEF ExpireLink
  <2> HIDE DEF n
  <2>4. link' \in [Links -> Link \cup {NoRow}] /\ LinksStay
    BY <2>1, <2>2, <2>3, Replaced DEF LinksStay
  <2>5. EnrolmentTypeOK'
    BY <2>3, <2>4 DEF Inv, EnrolmentTypeOK
  <2> QED BY <2>3, <2>4, <2>5, Unmoved, QuietStep
<1> QED BY <1>1, <1>2, <1>3

LEMMA ChallengeExpires ==
    ASSUME Inv, NEW c \in 1..MaxChallenge, ExpireChallenge(c)
    PROVE  Inv'
<1> DEFINE n == [challenge[c] EXCEPT !.expired = TRUE]
<1>1. /\ challenge[c] \in Challenge /\ NoRow \notin Challenge
      /\ challenge \in [1..MaxChallenge -> Challenge \cup {NoRow}]
  BY EnrolmentAssumption DEF ExpireChallenge, Inv, EnrolmentTypeOK
<1>2. n \in Challenge
  BY <1>1 DEF Challenge
<1>3. /\ challenge' = [challenge EXCEPT ![c] = n] /\ ~taken(c)
      /\ UNCHANGED <<status, cred, link, ceremony, request, clock, sending, opened, accepted>>
  BY DEF ExpireChallenge, taken
<1> HIDE DEF n
<1>4. challenge' \in [1..MaxChallenge -> Challenge \cup {NoRow}] /\ TakenStay
  BY <1>1, <1>2, <1>3, Replaced DEF TakenStay, taken
<1>5. EnrolmentTypeOK'
  BY <1>3, <1>4 DEF Inv, EnrolmentTypeOK
<1> QED BY <1>3, <1>4, <1>5, Unmoved, QuietStep

LEMMA KeyRemoved ==
    ASSUME Inv, NEW k \in Keys, RemoveKey(k)
    PROVE  Inv'
<1>1. cred \in [Keys -> Credential \cup {NoRow}] /\ cred[k] # NoRow
  BY DEF RemoveKey, Inv, EnrolmentTypeOK
<1>2. /\ cred' = [cred EXCEPT ![k] = NoRow] /\ mayRemove(k)
      /\ UNCHANGED <<status, link, challenge, ceremony, request, clock, sending, opened, accepted>>
  BY DEF RemoveKey
<1>3. EnrolmentTypeOK'
  BY <1>1, <1>2 DEF Inv, EnrolmentTypeOK
<1>4. ASSUME NEW u \in Users, keysOf(u) # {} PROVE keysOf(u)' # {}
  <2>1. PICK j \in keysOf(u) : j # k
    <3>1. CASE cred[k].user = u
      <4>1. keysOf(u) # {k}
        <5>1. Cardinality({k}) = 1
          BY FS_Singleton
        <5> QED BY <1>2, <3>1, <5>1 DEF mayRemove
      <4> QED BY <1>4, <4>1
    <3>2. CASE cred[k].user # u
      BY <1>4, <3>2 DEF keysOf
    <3> QED BY <3>1, <3>2
  <2>2. cred'[j] = cred[j] /\ j \in Keys
    BY <1>1, <1>2, <2>1 DEF keysOf
  <2> QED BY <2>1, <2>2 DEF keysOf
<1> QED BY <1>2, <1>3, <1>4, Unmoved, QuietStep DEF KeysStay

LEMMA StatusSet ==
    ASSUME Inv, NEW u \in Users, NEW s \in {"pending", "active", "disabled"}, SetStatus(u, s)
    PROVE  Inv'
<1>1. /\ status' \in [Users -> {"pending", "active", "disabled"}]
      /\ UNCHANGED <<cred, link, challenge, ceremony, request, clock, sending, opened, accepted>>
  BY DEF SetStatus, Inv, EnrolmentTypeOK
<1>2. EnrolmentTypeOK'
  BY <1>1 DEF Inv, EnrolmentTypeOK
<1> QED BY <1>1, <1>2, Unmoved, QuietStep

-----------------------------------------------------------------------------
(* The browser's half *)

\* Ceremony n is new, or another one, or gone; nothing else is.
LEMMA CeremonyMoves ==
    ASSUME Inv, EnrolmentTypeOK', NEW n \in Ceremonies,
           \A m \in Ceremonies \ {n} : ceremony'[m] = ceremony[m] /\ accepted'[m] = accepted[m],
           UNCHANGED <<link, opened, cred, request>>, TakenStay,
           accepted'[n] = 0,
           \A q \in Requests : live(q) => request[q].of # n,
           ceremony'[n] # NoRow =>
             /\ ceremony'[n].kind = "register" => ceremony'[n].user \in Users
             /\ ceremony'[n].signed => ceremony'[n].key \in Keys
             /\ ceremony'[n].via # NoLink => /\ link[ceremony'[n].via] # NoRow
                                             /\ link[ceremony'[n].via].user = ceremony'[n].user
    PROVE  Inv'
<1>1. LinksStay /\ KeysStay /\ FewerRequests
  BY Unmoved
<1>2. \A q \in Requests : live(q) => /\ request[q].of \in Ceremonies
                                     /\ ceremony'[request[q].of] = ceremony[request[q].of]
  BY RequestType
<1>3. CeremoniesFit'
  <2>1. CeremoniesFit
    BY DEF Inv
  <2>2. ASSUME NEW m \in Ceremonies, ceremony'[m] # NoRow
        PROVE  /\ ceremony'[m].kind = "register" => ceremony'[m].user \in Users
               /\ ceremony'[m].signed => ceremony'[m].key \in Keys
               /\ ceremony'[m].via # NoLink => /\ link'[ceremony'[m].via] # NoRow
                                               /\ link'[ceremony'[m].via].user = ceremony'[m].user
    BY <2>1, <2>2 DEF CeremoniesFit
  <2>3. ASSUME NEW q \in Requests, live(q)'
        PROVE  /\ ceremony'[request'[q].of] # NoRow /\ ceremony'[request'[q].of].signed
               /\ request'[q].stored => ceremony'[request'[q].of].kind = "register"
    BY <1>2, <2>1, <2>3 DEF CeremoniesFit, live
  <2> QED BY <2>2, <2>3 DEF CeremoniesFit
<1>4. LinksSpent'
  BY <1>1, LinksFrame
<1>5. KeysKept'
  <2>1. EnrolledHasKey'
    BY <1>1, EnrolledFrame
  <2>2. ASSUME NEW q \in Requests, live(q)', request'[q].stored
        PROVE  \E k \in Keys : /\ cred'[k] # NoRow
                               /\ cred'[k].user = ceremony'[request'[q].of].user
    <3>1. keysOf(ceremony[request[q].of].user) # {}
      BY <2>2 DEF Inv, KeysKept, live
    <3> QED BY <1>2, <2>2, <3>1 DEF keysOf, live
  <2> QED BY <2>1, <2>2 DEF KeysKept, keysOf
<1>6. ChallengesTaken'
  <2>1. ChallengesTaken
    BY DEF Inv
  <2>2. \A q \in Requests : live(q) => request[q].expected \in 1..MaxChallenge
    BY DEF Inv, EnrolmentTypeOK, live, Request
  <2>3. \A m \in Ceremonies : ceremony[m] # NoRow => ceremony[m].chal \in 1..MaxChallenge
    BY DEF Inv, EnrolmentTypeOK, Ceremony
  <2>4. \A q \in Requests : live(q)' => /\ challenge'[request'[q].expected] # NoRow
                                         /\ challenge'[request'[q].expected].consumed
    BY <2>1, <2>2 DEF ChallengesTaken, TakenStay, live, taken
  <2>5. ASSUME NEW m \in Ceremonies, accepted'[m] > 0
        PROVE  /\ accepted'[m] = 1 /\ ceremony'[m] # NoRow /\ ceremony'[m].signed
               /\ challenge'[ceremony'[m].chal] # NoRow
               /\ challenge'[ceremony'[m].chal].consumed
               /\ \A q \in Requests : live(q)' /\ request'[q].of = m
                                        /\ request'[q].expected = ceremony'[m].chal
                                        => request'[q].stored
    <3>1. m # n /\ ceremony'[m] = ceremony[m] /\ accepted[m] > 0
      BY <2>5
    <3>2. /\ accepted[m] = 1 /\ ceremony[m] # NoRow /\ ceremony[m].signed
          /\ taken(ceremony[m].chal)
      BY <2>1, <3>1 DEF ChallengesTaken
    <3>3. taken(ceremony[m].chal)'
      BY <2>3, <3>1, <3>2 DEF TakenStay, taken
    <3> QED BY <2>1, <3>1, <3>2, <3>3 DEF ChallengesTaken, live, taken
  <2> QED BY <2>1, <2>4, <2>5 DEF ChallengesTaken, live, taken
<1> QED BY <1>3, <1>4, <1>5, <1>6 DEF Inv

LEMMA NoRequestOf ==
    ASSUME Inv, NEW n \in Ceremonies, ceremony[n] = NoRow \/ ~ceremony[n].signed
    PROVE  \A q \in Requests : live(q) => request[q].of # n
BY DEF Inv, CeremoniesFit

LEMMA NoneAccepted ==
    ASSUME Inv, NEW n \in Ceremonies, ceremony[n] = NoRow \/ ~ceremony[n].signed
    PROVE  accepted[n] = 0
BY DEF Inv, ChallengesTaken, EnrolmentTypeOK

LEMMA ChallengedStep ==
    ASSUME Inv, NEW n \in Ceremonies, NEW kind \in Kinds, NEW u \in Users \cup {NoUser},
           NEW via \in Links \cup {NoLink}, Challenged(n, kind, u, via),
           kind = "register" => u \in Users,
           via # NoLink => link[via] # NoRow /\ link[via].user = u
    PROVE  Inv'
<1>1. PICK c \in 1..MaxChallenge :
        /\ challenge[c] = NoRow
        /\ challenge' = [challenge EXCEPT ![c] =
             [user |-> u, kind |-> kind, consumed |-> FALSE, expired |-> FALSE]]
        /\ ceremony' = [ceremony EXCEPT ![n] =
             [kind |-> kind, user |-> u, via |-> via, chal |-> c,
              signed |-> FALSE, key |-> NoRow, count |-> 0]]
  BY DEF Challenged
<1> DEFINE h == [user |-> u, kind |-> kind, consumed |-> FALSE, expired |-> FALSE]
           m == [kind |-> kind, user |-> u, via |-> via, chal |-> c,
                 signed |-> FALSE, key |-> NoRow, count |-> 0]
<1>2. /\ ceremony[n] = NoRow
      /\ UNCHANGED <<status, cred, link, request, clock, sending, opened, accepted>>
  BY DEF Challenged
<1>3. h \in Challenge /\ m \in Ceremony
  BY EnrolmentAssumption DEF Challenge, Ceremony
<1>4. m.kind = kind /\ m.user = u /\ m.via = via /\ ~m.signed
  OBVIOUS
<1>5. ceremony' = [ceremony EXCEPT ![n] = m] /\ challenge' = [challenge EXCEPT ![c] = h]
  BY <1>1
<1> HIDE DEF h, m
<1>6. /\ challenge \in [1..MaxChallenge -> Challenge \cup {NoRow}]
      /\ ceremony \in [Ceremonies -> Ceremony \cup {NoRow}]
  BY DEF Inv, EnrolmentTypeOK
<1>7. /\ challenge' \in [1..MaxChallenge -> Challenge \cup {NoRow}]
      /\ \A d \in (1..MaxChallenge) \ {c} : challenge'[d] = challenge[d]
  BY <1>3, <1>5, <1>6
<1>8. /\ ceremony' \in [Ceremonies -> Ceremony \cup {NoRow}] /\ ceremony'[n] = m
      /\ \A k \in Ceremonies \ {n} : ceremony'[k] = ceremony[k]
  BY <1>3, <1>5, <1>6
<1>9. TakenStay
  BY <1>1, <1>7 DEF TakenStay, taken
<1>10. EnrolmentTypeOK'
  BY <1>2, <1>7, <1>8 DEF Inv, EnrolmentTypeOK
<1>11. accepted'[n] = 0 /\ \A q \in Requests : live(q) => request[q].of # n
  BY <1>2, NoneAccepted, NoRequestOf
<1> QED BY <1>2, <1>4, <1>8, <1>9, <1>10, <1>11, CeremonyMoves

LEMMA StartSteps ==
    ASSUME Inv, NEW n \in Ceremonies,
           \/ \E u \in Users : RegisterStart(n, u)
           \/ \E u \in Users \cup {NoUser} : LoginStart(n, u)
    PROVE  Inv'
<1>1. ASSUME NEW u \in Users, RegisterStart(n, u) PROVE Inv'
  <2>1. PICK via \in Links \cup {NoLink} :
          /\ IF via = NoLink THEN status[u] = "active" ELSE valid(via) /\ link[via].user = u
          /\ Challenged(n, "register", u, via)
    BY <1>1 DEF RegisterStart
  <2>2. via # NoLink => link[via] # NoRow /\ link[via].user = u
    BY <2>1 DEF valid
  <2> QED BY <2>1, <2>2, ChallengedStep DEF Kinds
<1>2. ASSUME NEW u \in Users \cup {NoUser}, LoginStart(n, u) PROVE Inv'
  <2>1. PICK v \in Users \cup {NoUser} : Challenged(n, "login", v, NoLink)
    BY <1>2 DEF LoginStart
  <2> QED BY <2>1, ChallengedStep DEF Kinds
<1> QED BY <1>1, <1>2

LEMMA SignStep ==
    ASSUME Inv, NEW n \in Ceremonies, NEW k \in Keys, Sign(n, k)
    PROVE  Inv'
<1> DEFINE m == [ceremony[n] EXCEPT !.signed = TRUE, !.key = k, !.count = clock'[k]]
<1>1. /\ ceremony[n] # NoRow /\ ~ceremony[n].signed
      /\ ceremony' = [ceremony EXCEPT ![n] = m]
      /\ UNCHANGED <<status, cred, challenge, link, request, sending, opened, accepted>>
  <2>1. ceremony' = [ceremony EXCEPT ![n].signed = TRUE, ![n].key = k, ![n].count = clock'[k]]
    BY DEF Sign
  <2>2. ceremony \in [Ceremonies -> Ceremony \cup {NoRow}]
    BY DEF Inv, EnrolmentTypeOK
  <2>3. ceremony' = [ceremony EXCEPT ![n] = m]
    BY <2>1, <2>2
  <2> HIDE DEF m
  <2> QED BY <2>3 DEF Sign
<1>2. clock' \in [Keys -> 0..MaxCount]
  <2>1. clock \in [Keys -> 0..MaxCount]
    BY DEF Inv, EnrolmentTypeOK
  <2>2. CASE UNCHANGED clock
    BY <2>1, <2>2
  <2>3. CASE clock[k] < MaxCount /\ clock' = [clock EXCEPT ![k] = @ + 1]
    BY <2>1, <2>3, EnrolmentAssumption
  <2> QED BY <2>2, <2>3 DEF Sign
<1>3. /\ m \in Ceremony /\ m.key = k
      /\ \A f \in {"kind", "user", "via", "chal"} : m[f] = ceremony[n][f]
  <2>1. ceremony[n] \in Ceremony /\ clock'[k] \in 0..MaxCount
    BY <1>1, <1>2, CeremonyType
  <2> QED BY <2>1 DEF Ceremony
<1> HIDE DEF m
<1>4. /\ ceremony' \in [Ceremonies -> Ceremony \cup {NoRow}] /\ ceremony'[n] = m
      /\ \A j \in Ceremonies \ {n} : ceremony'[j] = ceremony[j]
  BY <1>1, <1>3 DEF Inv, EnrolmentTypeOK
<1>5. EnrolmentTypeOK'
  BY <1>1, <1>2, <1>4 DEF Inv, EnrolmentTypeOK
<1>6. \A q \in Requests : live(q) => request[q].of # n
  BY <1>1, NoRequestOf
<1>7. /\ m.kind = "register" => m.user \in Users
      /\ m.via # NoLink => link[m.via] # NoRow /\ link[m.via].user = m.user
  BY <1>1, <1>3 DEF Inv, CeremoniesFit
<1>8. accepted'[n] = 0
  BY <1>1, NoneAccepted
<1> QED BY <1>1, <1>3, <1>4, <1>5, <1>6, <1>7, <1>8, Unmoved, CeremonyMoves

LEMMA GiveUpStep ==
    ASSUME Inv, NEW n \in Ceremonies, GiveUp(n)
    PROVE  Inv'
<1>1. /\ ceremony' = [ceremony EXCEPT ![n] = NoRow]
      /\ accepted' = [accepted EXCEPT ![n] = 0]
      /\ \A q \in Requests : live(q) => request[q].of # n
      /\ UNCHANGED <<status, cred, challenge, link, request, clock, sending, opened>>
  BY DEF GiveUp, live
<1>2. EnrolmentTypeOK'
  BY <1>1 DEF Inv, EnrolmentTypeOK
<1>3. /\ ceremony'[n] = NoRow /\ accepted'[n] = 0
      /\ \A m \in Ceremonies \ {n} : ceremony'[m] = ceremony[m] /\ accepted'[m] = accepted[m]
  BY <1>1 DEF Inv, EnrolmentTypeOK
<1> QED BY <1>1, <1>2, <1>3, Unmoved, CeremonyMoves

-----------------------------------------------------------------------------
(* The server's half *)

LEMMA VerifyingStep ==
    ASSUME Inv, NEW q \in Requests, NEW n \in Ceremonies, NEW u, NEW read \in 0..MaxCount,
           ceremony[n] # NoRow, ceremony[n].signed, Verifying(q, n, u, read)
    PROVE  Inv'
<1> DEFINE cs == pending(u, ceremony[n].kind)
<1>0. PICK e \in 1..MaxChallenge : e = newest(cs) /\ e \in cs
  <2>1. cs \in SUBSET (1..MaxChallenge) /\ cs # {}
    BY DEF pending, Verifying
  <2> HIDE DEF cs
  <2> QED BY <2>1, HasNewest
<1> DEFINE r == [of |-> n, expected |-> e, read |-> read, stored |-> FALSE]
           h == [challenge[e] EXCEPT !.consumed = TRUE]
<1>1. /\ request[q] = NoRow /\ cs # {}
      /\ challenge' = [challenge EXCEPT ![e] = h]
      /\ request' = [request EXCEPT ![q] = r]
      /\ UNCHANGED <<status, cred, link, ceremony, clock, sending, opened, accepted>>
  BY <1>0 DEF Verifying, spent
<1>2. e \in cs /\ e \in 1..MaxChallenge
  BY <1>0
<1>3. challenge[e] # NoRow /\ ~challenge[e].consumed /\ challenge[e] \in Challenge
  BY <1>2 DEF pending, Inv, EnrolmentTypeOK
<1>4. h \in Challenge /\ h.consumed
  BY <1>3 DEF Challenge
<1>5. r \in Request /\ r.of = n /\ r.expected = e /\ ~r.stored
  BY <1>2 DEF Request
<1> HIDE DEF cs, r, h
<1>6. /\ request' \in [Requests -> Request \cup {NoRow}] /\ request'[q] = r
      /\ \A p \in Requests \ {q} : request'[p] = request[p]
  BY <1>1, <1>5 DEF Inv, EnrolmentTypeOK
<1>7. /\ challenge' \in [1..MaxChallenge -> Challenge \cup {NoRow}] /\ challenge'[e] = h
      /\ \A d \in (1..MaxChallenge) \ {e} : challenge'[d] = challenge[d]
  BY <1>1, <1>2, <1>4 DEF Inv, EnrolmentTypeOK
<1>8. EnrolmentTypeOK'
  BY <1>1, <1>6, <1>7 DEF Inv, EnrolmentTypeOK
<1>9. TakenStay /\ taken(e)' /\ ~taken(e)
  BY <1>2, <1>3, <1>4, <1>7, EnrolmentAssumption DEF TakenStay, taken
<1>10. LinksStay /\ KeysStay
  BY <1>1, Unmoved
<1>11. LinksSpent'
  BY <1>1, <1>10, LinksFrame
<1>12. CeremoniesFit'
  <2>1. CeremoniesFit
    BY DEF Inv
  <2>2. ASSUME NEW p \in Requests, live(p)'
        PROVE  /\ ceremony'[request'[p].of] # NoRow /\ ceremony'[request'[p].of].signed
               /\ request'[p].stored => ceremony'[request'[p].of].kind = "register"
    <3>1. CASE p = q
      BY <1>1, <1>5, <1>6, <3>1
    <3>2. CASE p # q
      BY <1>1, <1>6, <2>1, <2>2, <3>2 DEF CeremoniesFit, live
    <3> QED BY <3>1, <3>2
  <2> QED BY <1>1, <2>1, <2>2 DEF CeremoniesFit
<1>13. KeysKept'
  <2>1. EnrolledHasKey'
    BY <1>1, <1>10, EnrolledFrame
  <2>2. ASSUME NEW p \in Requests, live(p)', request'[p].stored
        PROVE  \E k \in Keys : /\ cred'[k] # NoRow
                               /\ cred'[k].user = ceremony'[request'[p].of].user
    <3>1. p # q /\ live(p) /\ request'[p] = request[p]
      BY <1>5, <1>6, <2>2 DEF live
    <3>2. keysOf(ceremony[request[p].of].user) # {}
      BY <2>2, <3>1 DEF Inv, KeysKept
    <3> QED BY <1>1, <3>1, <3>2 DEF keysOf
  <2> QED BY <2>1, <2>2 DEF KeysKept, keysOf
<1>14. ChallengesTaken'
  <2>1. ChallengesTaken
    BY DEF Inv
  <2>2. /\ \A p \in Requests : live(p) => request[p].expected \in 1..MaxChallenge
        /\ \A m \in Ceremonies : ceremony[m] # NoRow => ceremony[m].chal \in 1..MaxChallenge
    BY DEF Inv, EnrolmentTypeOK, live, Request, Ceremony
  <2>3. \A p \in Requests \ {q} : live(p)' =>
          /\ live(p) /\ request'[p] = request[p]
          /\ request[p].expected # e
          /\ challenge'[request[p].expected] # NoRow
          /\ challenge'[request[p].expected].consumed
    BY <1>6, <1>9, <2>1, <2>2 DEF ChallengesTaken, TakenStay, live, taken
  <2>4. \A p \in Requests : live(p)' => /\ challenge'[request'[p].expected] # NoRow
                                       /\ challenge'[request'[p].expected].consumed
    BY <1>5, <1>6, <1>9, <2>3 DEF taken
  <2>5. \A p, t \in Requests :
          live(p)' /\ live(t)' /\ request'[p].expected = request'[t].expected => p = t
    BY <1>5, <1>6, <2>1, <2>3 DEF ChallengesTaken
  <2>6. ASSUME NEW m \in Ceremonies, accepted'[m] > 0
        PROVE  /\ accepted'[m] = 1 /\ ceremony'[m] # NoRow /\ ceremony'[m].signed
               /\ challenge'[ceremony'[m].chal] # NoRow
               /\ challenge'[ceremony'[m].chal].consumed
               /\ \A p \in Requests : live(p)' /\ request'[p].of = m
                                        /\ request'[p].expected = ceremony'[m].chal
                                        => request'[p].stored
    <3>1. /\ accepted[m] = 1 /\ ceremony[m] # NoRow /\ ceremony[m].signed
          /\ taken(ceremony[m].chal)
      BY <1>1, <2>1, <2>6 DEF ChallengesTaken
    <3>2. /\ ceremony[m].chal # e
          /\ challenge'[ceremony[m].chal] # NoRow /\ challenge'[ceremony[m].chal].consumed
      BY <1>9, <2>2, <3>1 DEF TakenStay, taken
    <3>3. ASSUME NEW p \in Requests, live(p)', request'[p].of = m,
                 request'[p].expected = ceremony[m].chal
          PROVE  request'[p].stored
      <4>1. p # q
        BY <1>5, <1>6, <3>2, <3>3
      <4> QED BY <1>1, <2>1, <2>3, <2>6, <3>3, <4>1 DEF ChallengesTaken
    <3> QED BY <1>1, <3>1, <3>2, <3>3
  <2> QED BY <2>4, <2>5, <2>6 DEF ChallengesTaken, live, taken
<1> QED BY <1>8, <1>11, <1>12, <1>13, <1>14 DEF Inv

LEMMA FinishSteps ==
    ASSUME Inv, NEW q \in Requests, NEW n \in Ceremonies,
           RegisterFinish(q, n) \/ LoginFinish(q, n)
    PROVE  Inv'
<1>1. ASSUME RegisterFinish(q, n) PROVE Inv'
  BY <1>1, VerifyingStep, EnrolmentAssumption DEF RegisterFinish
<1>2. ASSUME LoginFinish(q, n) PROVE Inv'
  <2>1. ceremony[n].key \in Keys /\ cred[ceremony[n].key] # NoRow
    BY <1>2, CeremonyType DEF LoginFinish
  <2>2. cred[ceremony[n].key].counter \in 0..MaxCount
    BY <2>1, KeyLookups
  <2> QED BY <1>2, <2>2, VerifyingStep DEF LoginFinish
<1> QED BY <1>1, <1>2

\* Request q accepts the signature of its ceremony, and is stored or over.
LEMMA Acceptance ==
    ASSUME Inv, NEW q \in Requests, live(q), ~request[q].stored, genuine(q),
           accepted' = noted(request[q].of), UNCHANGED <<challenge, ceremony>>,
           \A p \in Requests \ {q} : request'[p] = request[p],
           live(q)' => /\ request'[q].expected = request[q].expected
                       /\ request'[q].stored
    PROVE  ChallengesTaken' /\ accepted' \in [Ceremonies -> 0..2]
<1> DEFINE n == request[q].of
<1>1. ChallengesTaken /\ accepted \in [Ceremonies -> 0..2]
  BY DEF Inv, EnrolmentTypeOK
<1>2. /\ n \in Ceremonies /\ ceremony[n] # NoRow /\ ceremony[n].signed
      /\ ceremony[n].chal = request[q].expected
  BY RequestType DEF genuine
<1>3. accepted[n] = 0
  BY <1>1, <1>2 DEF ChallengesTaken
<1>4. accepted' = [accepted EXCEPT ![n] = 1]
  BY <1>1, <1>2, <1>3 DEF noted
<1>5. /\ accepted' \in [Ceremonies -> 0..2] /\ accepted'[n] = 1
      /\ \A m \in Ceremonies \ {n} : accepted'[m] = accepted[m]
  BY <1>1, <1>2, <1>4
<1>6. \A p \in Requests : live(p)' => live(p) /\ request'[p].expected = request[p].expected
  BY DEF live
<1>7. taken(ceremony[n].chal)
  BY <1>1, <1>2 DEF ChallengesTaken
<1>8. \A p \in Requests : live(p)' => taken(request[p].expected)
  BY <1>1, <1>6 DEF ChallengesTaken
<1>9. ASSUME NEW m \in Ceremonies, accepted'[m] > 0
      PROVE  /\ accepted'[m] = 1 /\ ceremony[m] # NoRow /\ ceremony[m].signed
             /\ taken(ceremony[m].chal)
             /\ \A p \in Requests : live(p)' /\ request'[p].of = m
                                      /\ request'[p].expected = ceremony[m].chal
                                      => request'[p].stored
  <2>1. CASE m = n
    <3>1. \A p \in Requests : live(p)' /\ request'[p].expected = ceremony[n].chal => p = q
      BY <1>1, <1>2, <1>6 DEF ChallengesTaken
    <3> QED BY <1>2, <1>5, <1>7, <2>1, <3>1
  <2>2. CASE m # n
    <3>1. /\ accepted[m] = 1 /\ ceremony[m] # NoRow /\ ceremony[m].signed
          /\ taken(ceremony[m].chal)
          /\ \A p \in Requests : live(p) /\ request[p].of = m
                                   /\ request[p].expected = ceremony[m].chal
                                   => request[p].stored
      BY <1>1, <1>5, <1>9, <2>2 DEF ChallengesTaken
    <3> QED BY <1>5, <1>6, <1>9, <2>2, <3>1 DEF live
  <2> QED BY <2>1, <2>2
<1> QED BY <1>1, <1>5, <1>6, <1>8, <1>9 DEF ChallengesTaken, live, taken

LEMMA KeyStep ==
    ASSUME Inv, NEW q \in Requests, KeyStored(q)
    PROVE  Inv'
<1> DEFINE n == request[q].of
           c == [user |-> ceremony[n].user, counter |-> ceremony[n].count]
           r == [request[q] EXCEPT !.stored = TRUE]
<1>1. /\ live(q) /\ ~request[q].stored /\ genuine(q)
      /\ ceremony[n].kind = "register" /\ cred[ceremony[n].key] = NoRow
      /\ cred' = [cred EXCEPT ![ceremony[n].key] = c]
      /\ accepted' = noted(n)
      /\ UNCHANGED <<status, challenge, link, ceremony, clock, sending, opened>>
  BY DEF KeyStored, live
<1>2. request' = [request EXCEPT ![q] = r]
  BY DEF KeyStored, Inv, EnrolmentTypeOK
<1>3. PICK k \in Keys : k = ceremony[n].key
  BY <1>1, RequestType
<1>4. PICK u \in Users : u = ceremony[n].user
  BY <1>1, RequestType
<1>5. c \in Credential /\ c.user = u
  <2>1. ceremony[n] \in Ceremony
    BY <1>1, RequestType
  <2> QED BY <1>4, <2>1 DEF Credential, Ceremony
<1>6. r \in Request /\ r.of = n /\ r.expected = request[q].expected /\ r.stored
  <2>1. request[q] \in Request
    BY <1>1, RequestType
  <2> QED BY <2>1 DEF Request
<1>7. n \in Ceremonies /\ ceremony[n] # NoRow /\ ceremony[n].signed
  BY <1>1, RequestType
<1>8. NoRow \notin Credential /\ NoRow \notin Request
  BY EnrolmentAssumption
<1> HIDE DEF n, c, r
<1>9. /\ cred' \in [Keys -> Credential \cup {NoRow}] /\ cred'[k] = c
      /\ \A j \in Keys \ {k} : cred'[j] = cred[j]
  BY <1>1, <1>3, <1>5 DEF Inv, EnrolmentTypeOK
<1>10. /\ request' \in [Requests -> Request \cup {NoRow}] /\ request'[q] = r
       /\ \A p \in Requests \ {q} : request'[p] = request[p]
  BY <1>2, <1>6 DEF Inv, EnrolmentTypeOK
<1>11. ChallengesTaken' /\ accepted' \in [Ceremonies -> 0..2]
  BY <1>1, <1>6, <1>10, Acceptance DEF n
<1>12. EnrolmentTypeOK'
  BY <1>1, <1>9, <1>10, <1>11 DEF Inv, EnrolmentTypeOK
<1>13. LinksStay
  BY <1>1, Unmoved
<1>14. KeysStay
  <2> SUFFICES ASSUME NEW w \in Users, keysOf(w) # {} PROVE keysOf(w)' # {}
    BY DEF KeysStay
  <2>1. PICK j \in Keys : cred[j] # NoRow /\ cred[j].user = w
    BY DEF keysOf
  <2>2. j # k
    BY <1>1, <1>3, <2>1
  <2> QED BY <1>9, <2>1, <2>2 DEF keysOf
<1>15. LinksSpent'
  BY <1>1, <1>13, LinksFrame
<1>16. CeremoniesFit'
  <2>1. CeremoniesFit
    BY DEF Inv
  <2>2. ASSUME NEW p \in Requests, live(p)'
        PROVE  /\ ceremony'[request'[p].of] # NoRow /\ ceremony'[request'[p].of].signed
               /\ request'[p].stored => ceremony'[request'[p].of].kind = "register"
    <3>1. CASE p = q
      BY <1>1, <1>6, <1>7, <1>10, <3>1
    <3>2. CASE p # q
      BY <1>1, <1>10, <2>1, <2>2, <3>2 DEF CeremoniesFit, live
    <3> QED BY <3>1, <3>2
  <2> QED BY <1>1, <2>1, <2>2 DEF CeremoniesFit
<1>17. KeysKept'
  <2>1. EnrolledHasKey'
    BY <1>1, <1>13, <1>14, EnrolledFrame
  <2>2. ASSUME NEW p \in Requests, live(p)', request'[p].stored
        PROVE  \E j \in Keys : /\ cred'[j] # NoRow
                               /\ cred'[j].user = ceremony'[request'[p].of].user
    <3>1. CASE p = q
      <4>1. cred'[k] # NoRow /\ cred'[k].user = u
        BY <1>5, <1>8, <1>9
      <4>2. ceremony'[request'[p].of].user = u
        BY <1>1, <1>4, <1>6, <1>10, <3>1
      <4> QED BY <4>1, <4>2
    <3>2. CASE p # q
      <4>1. live(p) /\ request'[p] = request[p]
        BY <1>10, <2>2, <3>2 DEF live
      <4>2. keysOf(ceremony[request[p].of].user) # {}
        BY <2>2, <4>1 DEF Inv, KeysKept
      <4>3. ceremony[request[p].of].user \in Users
        BY <2>2, <4>1, RequestType DEF Inv, CeremoniesFit
      <4> QED BY <1>1, <1>14, <4>1, <4>2, <4>3 DEF KeysStay, keysOf
    <3> QED BY <3>1, <3>2
  <2> QED BY <2>1, <2>2 DEF KeysKept, keysOf
<1> QED BY <1>11, <1>12, <1>15, <1>16, <1>17 DEF Inv

\* A request that is over.
LEMMA Over ==
    ASSUME Inv, NEW q \in Requests, request' = ended(q)
    PROVE  /\ request' \in [Requests -> Request \cup {NoRow}] /\ ~live(q)'
           /\ \A p \in Requests \ {q} : request'[p] = request[p]
           /\ FewerRequests
BY DEF ended, Inv, EnrolmentTypeOK, live, FewerRequests

LEMMA LoginStep ==
    ASSUME Inv, NEW q \in Requests, LoginEnds(q)
    PROVE  Inv'
<1> DEFINE n == request[q].of
           c == [cred[ceremony[n].key] EXCEPT !.counter = ceremony[n].count]
<1>1. /\ live(q) /\ genuine(q) /\ ceremony[n].kind = "login"
      /\ accepted' = noted(n) /\ request' = ended(q)
      /\ cred' = IF cred[ceremony[n].key] = NoRow THEN cred
                 ELSE [cred EXCEPT ![ceremony[n].key].counter = ceremony[n].count]
      /\ UNCHANGED <<status, challenge, link, ceremony, clock, sending, opened>>
  BY DEF LoginEnds, live
<1>2. ~request[q].stored
  <2>1. request[q].stored => ceremony[n].kind = "register"
    BY <1>1 DEF Inv, CeremoniesFit
  <2> QED BY <1>1, <2>1
<1>3. PICK k \in Keys : k = ceremony[n].key
  BY <1>1, RequestType
<1>4. ceremony[n].count \in 0..MaxCount
  <2>1. ceremony[n] \in Ceremony
    BY <1>1, RequestType
  <2> QED BY <2>1 DEF Ceremony
<1>5. cred \in [Keys -> Credential \cup {NoRow}]
  BY DEF Inv, EnrolmentTypeOK
<1>6. cred[k] # NoRow => c \in Credential /\ c.user = cred[k].user
  BY <1>3, <1>4, <1>5 DEF Credential
<1>7. cred' = IF cred[k] = NoRow THEN cred ELSE [cred EXCEPT ![k] = c]
  BY <1>1, <1>3, <1>5
<1>8. NoRow \notin Credential
  BY EnrolmentAssumption
<1> HIDE DEF c
<1>9. /\ cred' \in [Keys -> Credential \cup {NoRow}]
      /\ \A j \in Keys : cred[j] # NoRow => cred'[j] # NoRow /\ cred'[j].user = cred[j].user
  <2>1. CASE cred[k] = NoRow
    BY <1>5, <1>7, <2>1
  <2>2. CASE cred[k] # NoRow
    <3>1. /\ cred' \in [Keys -> Credential \cup {NoRow}] /\ cred'[k] = c
          /\ \A j \in Keys \ {k} : cred'[j] = cred[j]
      BY <1>5, <1>6, <1>7, <2>2, Replaced
    <3> QED BY <1>6, <1>8, <2>2, <3>1
  <2> QED BY <2>1, <2>2
<1>10. KeysStay
  BY <1>9 DEF KeysStay, keysOf
<1>11. LinksStay
  BY <1>1, Unmoved
<1>12. /\ request' \in [Requests -> Request \cup {NoRow}] /\ ~live(q)'
       /\ \A p \in Requests \ {q} : request'[p] = request[p]
       /\ FewerRequests
  BY <1>1, Over
<1>13. ChallengesTaken' /\ accepted' \in [Ceremonies -> 0..2]
  BY <1>1, <1>2, <1>12, Acceptance
<1>14. EnrolmentTypeOK'
  BY <1>1, <1>9, <1>12, <1>13 DEF Inv, EnrolmentTypeOK
<1> QED BY <1>1, <1>10, <1>11, <1>12, <1>13, <1>14,
          CeremoniesFrame, LinksFrame, KeysFrame DEF Inv

LEMMA RegisterStep ==
    ASSUME Inv, NEW q \in Requests, RegisterEnds(q)
    PROVE  Inv'
<1> DEFINE n == request[q].of
<1>1. /\ live(q) /\ request[q].stored /\ request' = ended(q)
      /\ UNCHANGED <<cred, challenge, ceremony, clock, sending, accepted>>
  BY DEF RegisterEnds, live
<1>2. FewerRequests /\ request' \in [Requests -> Request \cup {NoRow}]
  BY <1>1, Over
<1>3. /\ n \in Ceremonies /\ ceremony[n] # NoRow /\ ceremony[n] \in Ceremony
      /\ ceremony[n].kind = "register" /\ ceremony[n].user \in Users
  BY <1>1, RequestType DEF Inv, CeremoniesFit
<1>4. CASE ~(ceremony[n].via # NoLink /\ consumes(ceremony[n].via))
  <2>1. UNCHANGED <<link, opened, status>>
    BY <1>4 DEF RegisterEnds
  <2>2. EnrolmentTypeOK'
    BY <1>1, <1>2, <2>1 DEF Inv, EnrolmentTypeOK
  <2> QED BY <1>1, <1>2, <2>1, <2>2, Unmoved, QuietStep
<1>5. CASE ceremony[n].via # NoLink /\ consumes(ceremony[n].via)
  <2>1. PICK l \in Links : l = ceremony[n].via
    BY <1>3, <1>5 DEF Ceremony
  <2>2. PICK u \in Users : u = ceremony[n].user
    BY <1>3
  <2>3. /\ link[l] # NoRow /\ ~link[l].consumed /\ link[l].user = u /\ opened[l] = 0
    <3>1. link[l] # NoRow /\ ~link[l].consumed
      BY <1>5, <2>1 DEF consumes
    <3>2. link[l].user = u
      BY <1>3, <1>5, <2>1, <2>2 DEF Inv, CeremoniesFit
    <3>3. opened[l] \in 0..2 /\ ~(opened[l] > 0)
      BY <3>1 DEF Inv, LinksSpent, EnrolmentTypeOK
    <3> QED BY <3>1, <3>2, <3>3
  <2> DEFINE w == [link[l] EXCEPT !.consumed = TRUE]
  <2>4. link[l] \in Link /\ link \in [Links -> Link \cup {NoRow}] /\ NoRow \notin Link
    BY <2>3, EnrolmentAssumption DEF Inv, EnrolmentTypeOK
  <2>5. w \in Link /\ w.user = u /\ w.consumed
    BY <2>3, <2>4 DEF Link
  <2>6. /\ link' = [link EXCEPT ![l] = w]
        /\ opened' = [opened EXCEPT ![l] = 1]
        /\ status' = [status EXCEPT ![u] = IF @ = "pending" THEN "active" ELSE @]
    <3>1. /\ link' = [link EXCEPT ![l].consumed = TRUE]
          /\ opened' = [opened EXCEPT ![l] = IF @ = 2 THEN 2 ELSE @ + 1]
          /\ status' = [status EXCEPT ![u] = IF @ = "pending" THEN "active" ELSE @]
      BY <1>5, <2>1, <2>2 DEF RegisterEnds
    <3>2. link' = [link EXCEPT ![l] = w]
      BY <3>1, <2>4
    <3>3. opened \in [Links -> 0..2]
      BY DEF Inv, EnrolmentTypeOK
    <3>4. opened' = [opened EXCEPT ![l] = 1]
      BY <2>3, <3>1, <3>3
    <3> HIDE DEF w
    <3> QED BY <3>1, <3>2, <3>4
  <2> HIDE DEF w
  <2>7. /\ link' \in [Links -> Link \cup {NoRow}] /\ link'[l] = w
        /\ \A j \in Links \ {l} : link'[j] = link[j]
    BY <2>4, <2>5, <2>6, Replaced
  <2>8. /\ opened' \in [Links -> 0..2] /\ opened'[l] = 1
        /\ \A j \in Links \ {l} : opened'[j] = opened[j]
    BY <2>6 DEF Inv, EnrolmentTypeOK
  <2>9. status' \in [Users -> {"pending", "active", "disabled"}]
    BY <2>6 DEF Inv, EnrolmentTypeOK
  <2>10. EnrolmentTypeOK'
    BY <1>1, <1>2, <2>7, <2>8, <2>9 DEF Inv, EnrolmentTypeOK
  <2>11. LinksStay
    BY <2>3, <2>4, <2>5, <2>7 DEF LinksStay
  <2>12. CeremoniesFit'
    BY <1>1, <1>2, <2>11, CeremoniesFrame
  <2>13. ChallengesTaken'
    BY <1>1, <1>2, Unmoved, ChallengesFrame
  <2>14. LinksSpent'
    <3>1. LinksSpent
      BY DEF Inv
    <3> QED BY <2>4, <2>5, <2>7, <2>8, <3>1 DEF LinksSpent
  <2>15. KeysKept'
    <3>1. ASSUME NEW j \in Links, opened'[j] > 0
          PROVE  \E k \in Keys : cred'[k] # NoRow /\ cred'[k].user = link'[j].user
      <4>1. CASE j = l
        <5>1. keysOf(u) # {}
          BY <1>1, <2>2 DEF Inv, KeysKept
        <5> QED BY <1>1, <2>5, <2>7, <4>1, <5>1 DEF keysOf
      <4>2. CASE j # l
        <5>1. keysOf(link[j].user) # {}
          BY <2>8, <3>1, <4>2 DEF Inv, KeysKept, EnrolledHasKey
        <5> QED BY <1>1, <2>7, <4>2, <5>1 DEF keysOf
      <4> QED BY <4>1, <4>2
    <3>2. KeysStay
      BY <1>1, Unmoved
    <3>3. ASSUME NEW p \in Requests, live(p)', request'[p].stored
          PROVE  \E k \in Keys : /\ cred'[k] # NoRow
                                 /\ cred'[k].user = ceremony'[request'[p].of].user
      BY <1>1, <1>2, <3>2, <3>3, WaitingFrame
    <3> QED BY <3>1, <3>3 DEF KeysKept, EnrolledHasKey, keysOf
  <2> QED BY <2>10, <2>12, <2>13, <2>14, <2>15 DEF Inv
<1> QED BY <1>4, <1>5

LEMMA RefusedStep ==
    ASSUME Inv, NEW q \in Requests, Refused(q)
    PROVE  Inv'
<1>1. /\ request' = ended(q)
      /\ UNCHANGED <<status, cred, challenge, link, ceremony, clock, sending, opened, accepted>>
  BY DEF Refused
<1>2. FewerRequests /\ request' \in [Requests -> Request \cup {NoRow}]
  BY <1>1, Over
<1>3. EnrolmentTypeOK'
  BY <1>1, <1>2 DEF Inv, EnrolmentTypeOK
<1> QED BY <1>1, <1>2, <1>3, Unmoved, QuietStep
-----------------------------------------------------------------------------
(* Every step, and what follows *)

LEMMA StepInv == Inv /\ [EnrolmentNext]_vars => Inv'
<1> SUFFICES ASSUME Inv, [EnrolmentNext]_vars PROVE Inv'
  OBVIOUS
<1>1. ASSUME NEW l \in Links,
             \/ MailSettles(l) \/ MailTimesOut(l) \/ ExpireLink(l)
             \/ \E u \in Users : Invite(l, u) \/ Recover(l, u)
      PROVE  Inv'
  BY <1>1, LinkSteps
<1>2. ASSUME NEW n \in Ceremonies,
             \/ GiveUp(n)
             \/ \E u \in Users : RegisterStart(n, u)
             \/ \E u \in Users \cup {NoUser} : LoginStart(n, u)
             \/ \E k \in Keys : Sign(n, k)
             \/ \E q \in Requests : RegisterFinish(q, n) \/ LoginFinish(q, n)
      PROVE  Inv'
  BY <1>2, GiveUpStep, StartSteps, SignStep, FinishSteps
<1>3. ASSUME NEW q \in Requests,
             KeyStored(q) \/ RegisterEnds(q) \/ LoginEnds(q) \/ Refused(q)
      PROVE  Inv'
  BY <1>3, KeyStep, RegisterStep, LoginStep, RefusedStep
<1>4. ASSUME NEW c \in 1..MaxChallenge, ExpireChallenge(c) PROVE Inv'
  BY <1>4, ChallengeExpires
<1>5. ASSUME NEW k \in Keys, RemoveKey(k) PROVE Inv'
  BY <1>5, KeyRemoved
<1>6. ASSUME NEW u \in Users, NEW s \in {"pending", "active", "disabled"}, SetStatus(u, s)
      PROVE  Inv'
  BY <1>6, StatusSet
<1>7. CASE UNCHANGED vars
  <2>1. EnrolmentTypeOK'
    BY <1>7 DEF vars, Inv, EnrolmentTypeOK
  <2> QED BY <1>7, <2>1, Unmoved, QuietStep DEF vars
<1> QED BY <1>1, <1>2, <1>3, <1>4, <1>5, <1>6, <1>7 DEF EnrolmentNext

\* In every reachable state the rows, ceremonies and requests have their types
\* and fit together: what a browser knows of its link, what a request holds of
\* the challenge it took (webauthn.js:20-38, auth.js:47-80).
THEOREM AlwaysFits == EnrolmentSpec => []Inv
BY InitInv, StepInv, PTL DEF EnrolmentSpec

\* However many ceremonies go through one magic link, and however their awaits
\* interleave, it opens at most one session (auth.js:59, :70-75).
THEOREM OneSessionPerLink == EnrolmentSpec => []LinkOpensOnce
<1>1. Inv => LinkOpensOnce
  BY DEF Inv, LinksSpent, LinkOpensOnce
<1> QED BY <1>1, AlwaysFits, PTL

\* A signature that is posted again and again, among any number of challenges
\* of the same user, is accepted once (webauthn.js:27-38).
THEOREM OneUsePerResponse == EnrolmentSpec => []ResponseAcceptedOnce
<1>1. Inv => ResponseAcceptedOnce
  BY DEF Inv, ChallengesTaken, EnrolmentTypeOK, ResponseAcceptedOnce
<1> QED BY <1>1, AlwaysFits, PTL

\* Whoever a link let in has a passkey from then on, through refused
\* registrations and removals (auth.js:69-75, :253-263).
THEOREM LetInWithKey == EnrolmentSpec => []EnrolledHasKey
<1>1. Inv => EnrolledHasKey
  BY DEF Inv, KeysKept
<1> QED BY <1>1, AlwaysFits, PTL
=============================================================================
