----------------------------- MODULE Enrolment ------------------------------
(***************************************************************************)
(* Passkeys and magic links: invitations and recovery, registration and    *)
(* login ceremonies whose two halves are separate requests, and the await  *)
(* in the middle of the second half, where other requests get in           *)
(* (auth/webauthn.js, auth/tokens.js, routes/auth.js, routes/users.js,     *)
(* lib/email.js, public/app.js).                                           *)
(*                                                                         *)
(* Challenges and links are known by the id of their row.  The reapers     *)
(* that delete expired rows are left out: no query finds those rows.       *)
(*                                                                         *)
(* A definition whose name ends in _Something is the one before the        *)
(* underscore with a plausible mistake in it; no action uses it.           *)
(***************************************************************************)
EXTENDS Naturals, FiniteSets

CONSTANTS Users,
          Keys,          \* passkeys of the users' authenticators
          Counting,      \* those whose authenticator counts its signatures
          Links,         \* email_tokens
          Ceremonies,    \* ceremonies under way in browsers
          Requests,      \* second halves under way in the server
          MaxChallenge,  \* bound: challenges ever stored
          MaxCount,      \* bound: signatures of one authenticator
          NoRow, NoUser, NoLink

VARIABLES status,     \* users.status
          cred,       \* credentials
          challenge,  \* webauthn_challenges
          link,       \* email_tokens
          ceremony,   \* what a browser knows of its ceremony
          request,    \* the server's second half after its await has begun
          clock,      \* the signature counter inside each authenticator
          sending,    \* links whose mail an invitation awaits
          opened,     \* ghost: sessions each link has opened
          accepted    \* ghost: how often each browser's response was accepted

vars == <<status, cred, challenge, link, ceremony, request, clock, sending, opened, accepted>>

Kinds == {"register", "login"}

Purposes == {"invite", "recovery", "add_device"}

Credential == [user: Users, counter: 0..MaxCount]

Challenge == [user: Users \cup {NoUser}, kind: Kinds, consumed: BOOLEAN, expired: BOOLEAN]

Link == [user: Users, purpose: Purposes, consumed: BOOLEAN, expired: BOOLEAN]

\* via: the link a registration goes through, NoLink with a session.
Ceremony == [kind: Kinds, user: Users \cup {NoUser}, via: Links \cup {NoLink},
             chal: 1..MaxChallenge, signed: BOOLEAN, key: Keys \cup {NoRow}, count: 0..MaxCount]

\* expected: the challenge taken from the table.  read: the counter read with
\* the credential.  stored: the new credential is in the table.
Request == [of: Ceremonies, expected: 1..MaxChallenge, read: 0..MaxCount, stored: BOOLEAN]

ASSUME EnrolmentAssumption ==
    /\ Counting \subseteq Keys
    /\ MaxChallenge \in Nat /\ MaxCount \in Nat
    /\ NoRow \notin Credential \cup Challenge \cup Link \cup Ceremony \cup Request \cup Keys
    /\ NoUser \notin Users
    /\ NoLink \notin Links

EnrolmentTypeOK ==
    /\ status \in [Users -> {"pending", "active", "disabled"}]
    /\ cred \in [Keys -> Credential \cup {NoRow}]
    /\ challenge \in [1..MaxChallenge -> Challenge \cup {NoRow}]
    /\ link \in [Links -> Link \cup {NoRow}]
    /\ ceremony \in [Ceremonies -> Ceremony \cup {NoRow}]
    /\ request \in [Requests -> Request \cup {NoRow}]
    /\ clock \in [Keys -> 0..MaxCount]
    /\ sending \subseteq Links
    /\ opened \in [Links -> 0..2]
    /\ accepted \in [Ceremonies -> 0..2]

EnrolmentInit ==
    /\ status = [u \in Users |-> "pending"]
    /\ cred = [k \in Keys |-> NoRow]
    /\ challenge = [c \in 1..MaxChallenge |-> NoRow]
    /\ link = [l \in Links |-> NoRow]
    /\ ceremony = [n \in Ceremonies |-> NoRow]
    /\ request = [q \in Requests |-> NoRow]
    /\ clock = [k \in Keys |-> 0]
    /\ sending = {}
    /\ opened = [l \in Links |-> 0]
    /\ accepted = [n \in Ceremonies |-> 0]

-----------------------------------------------------------------------------
(* Magic links *)

keysOf(u) == {k \in Keys : cred[k] # NoRow /\ cred[k].user = u}

\* findValidEmailToken
valid(l) == link[l] # NoRow /\ ~link[l].consumed /\ ~link[l].expired

\* mintEmailToken
Minted(l, u, purpose) ==
    /\ link[l] = NoRow
    /\ link' = [link EXCEPT ![l] = [user |-> u, purpose |-> purpose,
                                    consumed |-> FALSE, expired |-> FALSE]]

\* POST /api/users/:id/invite, by another admin: the answer waits for the mail.
\* The user may have the link before the mail server says so.
Invite(l, u) ==
    /\ status[u] # "disabled"
    /\ Minted(l, u, IF status[u] = "pending" THEN "invite" ELSE "add_device")
    /\ sending' = sending \cup {l}
    /\ UNCHANGED <<status, cred, challenge, ceremony, request, clock, opened, accepted>>

answered(l) ==
    /\ sending' = sending \ {l}
    /\ UNCHANGED <<status, cred, challenge, link, ceremony, request, clock, opened, accepted>>

\* The mail server takes the mail, or refuses it.
MailSettles(l) == l \in sending /\ answered(l)

timedOut_Never(l) == FALSE

timedOut(l) == l \in sending

\* SEND_TIMEOUT_MS are over: delivered: false, wherever the mail is.
MailTimesOut(l) == timedOut(l) /\ answered(l)

\* POST /api/recovery answers at once.
Recover(l, u) ==
    /\ status[u] = "active"
    /\ Minted(l, u, "recovery")
    /\ UNCHANGED <<status, cred, challenge, ceremony, request, clock, sending, opened, accepted>>

ExpireLink(l) ==
    /\ link[l] # NoRow
    /\ ~link[l].expired
    /\ link' = [link EXCEPT ![l].expired = TRUE]
    /\ UNCHANGED <<status, cred, challenge, ceremony, request, clock, sending, opened, accepted>>

-----------------------------------------------------------------------------
(* The first half of a ceremony *)

\* storeChallenge, for a ceremony of browser n.
Challenged(n, kind, u, via) ==
    /\ ceremony[n] = NoRow
    /\ \E c \in 1..MaxChallenge :
         /\ challenge[c] = NoRow
         /\ \A d \in 1..(c - 1) : challenge[d] # NoRow
         /\ challenge' = [challenge EXCEPT ![c] =
              [user |-> u, kind |-> kind, consumed |-> FALSE, expired |-> FALSE]]
         /\ ceremony' = [ceremony EXCEPT ![n] =
              [kind |-> kind, user |-> u, via |-> via, chal |-> c,
               signed |-> FALSE, key |-> NoRow, count |-> 0]]
    /\ UNCHANGED <<status, cred, link, request, clock, sending, opened, accepted>>

\* POST /api/webauthn/register/start, with a link or with a session.
RegisterStart(n, u) ==
    \E via \in Links \cup {NoLink} :
      /\ IF via = NoLink THEN status[u] = "active"
                         ELSE valid(via) /\ link[via].user = u
      /\ Challenged(n, "register", u, via)

\* POST /api/webauthn/login/start: nobody's challenge for an unknown address.
LoginStart(n, u) ==
    Challenged(n, "login", IF u # NoUser /\ status[u] = "active" THEN u ELSE NoUser, NoLink)

\* The authenticator makes a new passkey, or signs with one that it has.
Sign(n, k) ==
    /\ ceremony[n] # NoRow
    /\ ~ceremony[n].signed
    /\ IF ceremony[n].kind = "register"
         THEN /\ cred[k] = NoRow
              /\ \A m \in Ceremonies : ceremony[m] # NoRow => ceremony[m].key # k
              /\ UNCHANGED clock
         ELSE /\ cred[k] # NoRow
              /\ IF k \in Counting
                   THEN clock[k] < MaxCount /\ clock' = [clock EXCEPT ![k] = @ + 1]
                   ELSE UNCHANGED clock
    /\ ceremony' = [ceremony EXCEPT ![n].signed = TRUE, ![n].key = k, ![n].count = clock'[k]]
    /\ UNCHANGED <<status, cred, challenge, link, request, sending, opened, accepted>>

\* The browser gives its ceremony up, or is done with it.
GiveUp(n) ==
    /\ ceremony[n] # NoRow
    /\ \A q \in Requests : request[q] # NoRow => request[q].of # n
    /\ ceremony' = [ceremony EXCEPT ![n] = NoRow]
    /\ accepted' = [accepted EXCEPT ![n] = 0]
    /\ UNCHANGED <<status, cred, challenge, link, request, clock, sending, opened>>

-----------------------------------------------------------------------------
(* The second half *)

pending(u, kind) ==
    {c \in 1..MaxChallenge :
       /\ challenge[c] # NoRow
       /\ challenge[c].user = u /\ challenge[c].kind = kind
       /\ ~challenge[c].consumed /\ ~challenge[c].expired}

\* The row consumeChallenge takes: the newest, whichever ceremony it is of.
newest(cs) == CHOOSE c \in cs : \A d \in cs : d <= c

spent_Not(c) == challenge

spent(c) == [challenge EXCEPT ![c].consumed = TRUE]

\* A response of browser n reaches the server, for the first time or again, and
\* takes a challenge; the verification is awaited.  u: whose challenges are
\* looked through.
Verifying(q, n, u, read) ==
    /\ request[q] = NoRow
    /\ LET cs == pending(u, ceremony[n].kind) IN
       /\ cs # {}
       /\ challenge' = spent(newest(cs))
       /\ request' = [request EXCEPT ![q] =
            [of |-> n, expected |-> newest(cs), read |-> read, stored |-> FALSE]]
    /\ UNCHANGED <<status, cred, link, ceremony, clock, sending, opened, accepted>>

\* POST /api/webauthn/register/finish, up to the await.
RegisterFinish(q, n) ==
    /\ ceremony[n] # NoRow
    /\ ceremony[n].kind = "register"
    /\ ceremony[n].signed
    /\ IF ceremony[n].via = NoLink THEN status[ceremony[n].user] = "active"
                                   ELSE valid(ceremony[n].via)
    /\ Verifying(q, n, ceremony[n].user, 0)

\* POST /api/webauthn/login/finish, up to the await: the credential is read here.
LoginFinish(q, n) ==
    /\ ceremony[n] # NoRow
    /\ ceremony[n].kind = "login"
    /\ ceremony[n].signed
    /\ cred[ceremony[n].key] # NoRow
    /\ Verifying(q, n, cred[ceremony[n].key].user, cred[ceremony[n].key].counter)

ended(q) == [request EXCEPT ![q] = NoRow]

noted(n) == [accepted EXCEPT ![n] = IF @ = 2 THEN 2 ELSE @ + 1]

\* The library's verdict on the signature.
genuine(q) == ceremony[request[q].of].chal = request[q].expected

\* The end of the await in finishRegistration: INSERT INTO credentials.
KeyStored(q) ==
    /\ request[q] # NoRow
    /\ ~request[q].stored
    /\ LET me == ceremony[request[q].of] IN
       /\ me.kind = "register"
       /\ genuine(q)
       /\ cred[me.key] = NoRow
       /\ cred' = [cred EXCEPT ![me.key] = [user |-> me.user, counter |-> me.count]]
    /\ request' = [request EXCEPT ![q].stored = TRUE]
    /\ accepted' = noted(request[q].of)
    /\ UNCHANGED <<status, challenge, link, ceremony, clock, sending, opened>>

consumes_Any(l) == TRUE

\* consumeEmailToken changes one row, or none.
consumes(l) == link[l] # NoRow /\ ~link[l].consumed

\* The rest of register/finish: the link is spent, an invited user is active,
\* and the session begins.  A link that is gone refuses, the passkey stays.
RegisterEnds(q) ==
    /\ request[q] # NoRow
    /\ request[q].stored
    /\ LET me == ceremony[request[q].of] IN
       IF me.via # NoLink /\ consumes(me.via)
         THEN /\ link' = [link EXCEPT ![me.via].consumed = TRUE]
              /\ opened' = [opened EXCEPT ![me.via] = IF @ = 2 THEN 2 ELSE @ + 1]
              /\ status' = [status EXCEPT ![me.user] = IF @ = "pending" THEN "active" ELSE @]
         ELSE UNCHANGED <<link, opened, status>>
    /\ request' = ended(q)
    /\ UNCHANGED <<cred, challenge, ceremony, clock, sending, accepted>>

\* The library refuses a counter that is not above the one it was given, unless
\* both are zero; the code's own check comes after that.
advances(count, read) == count > read \/ (count = 0 /\ read = 0)

regresses(count, read) == count < read

\* The end of the await in finishLogin: the counter is written, then the user's
\* status is read, and the session begins.
LoginEnds(q) ==
    /\ request[q] # NoRow
    /\ LET n == request[q].of
           k == ceremony[n].key
           count == ceremony[n].count
       IN /\ ceremony[n].kind = "login"
          /\ genuine(q)
          /\ advances(count, request[q].read)
          /\ ~regresses(count, request[q].read)
          /\ cred' = IF cred[k] = NoRow THEN cred ELSE [cred EXCEPT ![k].counter = count]
          /\ accepted' = noted(n)
    /\ request' = ended(q)
    /\ UNCHANGED <<status, challenge, link, ceremony, clock, sending, opened>>

\* Verification fails, a UNIQUE constraint does, or the server ends first.
Refused(q) ==
    /\ request[q] # NoRow
    /\ request' = ended(q)
    /\ UNCHANGED <<status, cred, challenge, link, ceremony, clock, sending, opened, accepted>>

ExpireChallenge(c) ==
    /\ challenge[c] # NoRow
    /\ ~challenge[c].expired /\ ~challenge[c].consumed
    /\ challenge' = [challenge EXCEPT ![c].expired = TRUE]
    /\ UNCHANGED <<status, cred, link, ceremony, request, clock, sending, opened, accepted>>

-----------------------------------------------------------------------------
(* Accounts *)

mayRemove_Any(k) == Cardinality(keysOf(cred[k].user)) >= 1

mayRemove(k) == Cardinality(keysOf(cred[k].user)) > 1

\* DELETE /api/me/credentials/:id
RemoveKey(k) ==
    /\ cred[k] # NoRow
    /\ status[cred[k].user] = "active"
    /\ mayRemove(k)
    /\ cred' = [cred EXCEPT ![k] = NoRow]
    /\ UNCHANGED <<status, challenge, link, ceremony, request, clock, sending, opened, accepted>>

\* PATCH /api/users/:id sets any status.
SetStatus(u, s) ==
    /\ status[u] # s
    /\ status' = [status EXCEPT ![u] = s]
    /\ UNCHANGED <<cred, challenge, link, ceremony, request, clock, sending, opened, accepted>>

EnrolmentNext ==
    \/ \E l \in Links :
         \/ MailSettles(l)
         \/ MailTimesOut(l)
         \/ ExpireLink(l)
         \/ \E u \in Users : Invite(l, u) \/ Recover(l, u)
    \/ \E n \in Ceremonies :
         \/ GiveUp(n)
         \/ \E u \in Users : RegisterStart(n, u)
         \/ \E u \in Users \cup {NoUser} : LoginStart(n, u)
         \/ \E k \in Keys : Sign(n, k)
         \/ \E q \in Requests : RegisterFinish(q, n) \/ LoginFinish(q, n)
    \/ \E q \in Requests : KeyStored(q) \/ RegisterEnds(q) \/ LoginEnds(q) \/ Refused(q)
    \/ \E c \in 1..MaxChallenge : ExpireChallenge(c)
    \/ \E k \in Keys : RemoveKey(k)
    \/ \E u \in Users, s \in {"pending", "active", "disabled"} : SetStatus(u, s)

\* The timer of withTimeout fires; the mail server owes nothing.
EnrolmentSpec ==
    EnrolmentInit /\ [][EnrolmentNext]_vars /\ \A l \in Links : WF_vars(MailTimesOut(l))

-----------------------------------------------------------------------------
(* Properties *)

\* A magic link opens at most one session, though two ceremonies may both be
\* past their checks of it when the first spends it (auth.js:59, :70-75).
LinkOpensOnce == \A l \in Links : opened[l] <= 1

\* The signature of a ceremony is accepted at most once, however often it is
\* posted and whoever else's challenges are in the table (webauthn.js:27-38).
ResponseAcceptedOnce == \A n \in Ceremonies : accepted[n] <= 1

\* Whoever has come in by a link and is active can sign in again: a passkey is
\* in the table before the link is spent, and the last one stays (auth.js:69-75,
\* :253-263).
EnrolledHasKey ==
    \A l \in Links : opened[l] > 0 => keysOf(link[l].user) # {}

\* An invitation is answered even if the mail server never says a word
\* (email.js:44-54, users.js:357).
InviteIsAnswered == \A l \in Links : l \in sending ~> l \notin sending

\* "`credentials.counter` is bumped on each authentication; regression raises
\* `unauthorized`" (docs/auth.md:36): the counter on file never falls.
CounterNeverFalls ==
    [][\A k \in Keys : cred[k] # NoRow /\ cred'[k] # NoRow
                         => cred'[k].counter >= cred[k].counter]_vars
=============================================================================
