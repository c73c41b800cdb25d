--------------------------- MODULE RefreshTokens ----------------------------
(***************************************************************************)
(* Refresh tokens: minting, rotation, replay detection and logout          *)
(* (auth/refresh.js, routes/auth.js), against devices that resend,         *)
(* answers that are lost or come out of order, deactivated users and a     *)
(* server that crashes between the two halves of a rotation.               *)
(*                                                                         *)
(* A device is whatever keeps one refresh token: a browser's cookie jar,   *)
(* shared by its tabs, or an API client.  The access token is not          *)
(* modelled: it only lets its bearer call logout.                          *)
(*                                                                         *)
(* A definition whose name ends in _Something is the one before the        *)
(* underscore with a plausible mistake in it; no action uses it.           *)
(***************************************************************************)
EXTENDS Naturals

CONSTANTS Users, Devices,
          OwnerOf,      \* the user of each device
          Tokens, NoRow, NoToken

VARIABLES token,     \* refresh_tokens
          status,    \* users.status
          held,      \* held[d]: the token device d keeps
          requests,  \* POST /api/auth/refresh on their way: device and token
          answers,   \* new tokens on their way to a device
          alarms     \* the refresh_replay_detected rows of the latest step

vars == <<token, status, held, requests, answers, alarms>>

\* root is not in the table: the token the login began with.
TokenRow == [user: Users, revoked: BOOLEAN, expired: BOOLEAN, root: Tokens]

Message == [device: Devices, token: Tokens]

ASSUME RefreshTokensAssumption ==
    /\ OwnerOf \in [Devices -> Users]
    /\ NoRow \notin TokenRow
    /\ NoToken \notin Tokens

TypeOK ==
    /\ token \in [Tokens -> TokenRow \cup {NoRow}]
    /\ status \in [Users -> {"pending", "active", "disabled"}]
    /\ held \in [Devices -> Tokens \cup {NoToken}]
    /\ requests \subseteq Message
    /\ answers \subseteq Message
    /\ alarms \subseteq Tokens

Init ==
    /\ token = [t \in Tokens |-> NoRow]
    /\ status \in [Users -> {"pending", "active"}]
    /\ held = [d \in Devices |-> NoToken]
    /\ requests = {}
    /\ answers = {}
    /\ alarms = {}

-----------------------------------------------------------------------------
row(t) == token[t] # NoRow

live(t) == row(t) /\ ~token[t].revoked

\* Tokens are random: a new one is unknown to the table and to everybody else.
FreshTokens ==
    {t \in Tokens : /\ ~row(t)
                    /\ \A d \in Devices : held[d] # t
                    /\ \A m \in requests \cup answers : m.token # t
                    /\ \A s \in Tokens : row(s) => token[s].root # t}

\* Rows that mintRefreshToken may prune: it compares an ISO time with SQLite's
\* as text, which spares a row that expired on the same UTC day.
Prunable(u) == SUBSET {t \in Tokens : row(t) /\ token[t].user = u /\ token[t].expired}

minted_Anonymous(tab, u, t, root, pruned) ==
    [tab EXCEPT ![t] = [user |-> NoToken, revoked |-> FALSE, expired |-> FALSE,
                        root |-> root]]

\* A new row for user u in table tab, with expired rows of u pruned.
minted(tab, u, t, root, pruned) ==
    [s \in Tokens |->
       IF s = t THEN [user |-> u, revoked |-> FALSE, expired |-> FALSE,
                      root |-> root]
       ELSE IF s \in pruned THEN NoRow ELSE tab[s]]

revokedRow(t) == [token EXCEPT ![t].revoked = TRUE]

rotated_KeepOld(t) == token

rotated(t) == [token EXCEPT ![t].revoked = TRUE]

\* The session of a ceremony that ends well: token t is on its way to device d.
SessionFor(d) ==
    LET u == OwnerOf[d] IN
    /\ \E t \in FreshTokens, pruned \in Prunable(u) :
         /\ token' = minted(token, u, t, t, pruned)
         /\ answers' = answers \cup {[device |-> d, token |-> t]}
    /\ alarms' = {}
    /\ UNCHANGED <<held, requests>>

\* POST /api/webauthn/login/finish
Login(d) ==
    /\ status[OwnerOf[d]] = "active"
    /\ SessionFor(d)
    /\ UNCHANGED status

\* POST /api/webauthn/register/finish, once the passkey is verified: it asks
\* nothing of the user's status, and an invited user becomes active.  Whoever
\* has a magic link of the last hours can do this, a disabled user included.
Enrol(d) ==
    /\ SessionFor(d)
    /\ status' = IF status[OwnerOf[d]] = "pending"
                   THEN [status EXCEPT ![OwnerOf[d]] = "active"] ELSE status

\* A device asks for a refresh, the first time or again.
Ask(d) ==
    /\ held[d] # NoToken
    /\ requests' = requests \cup {[device |-> d, token |-> held[d]]}
    /\ alarms' = {}
    /\ UNCHANGED <<token, status, held, answers>>

\* An answer arrives; whichever comes last is the token the device keeps.
Deliver(m) ==
    /\ m \in answers
    /\ answers' = answers \ {m}
    /\ held' = [held EXCEPT ![m.device] = m.token]
    /\ alarms' = {}
    /\ UNCHANGED <<token, status, requests>>

Lose(m) ==
    /\ m \in requests \cup answers
    /\ requests' = requests \ {m}
    /\ answers' = answers \ {m}
    /\ alarms' = {}
    /\ UNCHANGED <<token, status, held>>

accepted_AnyStatus(t) == row(t) /\ ~token[t].revoked /\ ~token[t].expired

\* What consumeRefreshToken accepts.
accepted(t) ==
    /\ row(t)
    /\ ~token[t].revoked
    /\ ~token[t].expired
    /\ status[token[t].user] = "active"

\* POST /api/auth/refresh: revoke the token presented, mint its successor.
Rotate(m) ==
    /\ m \in requests
    /\ accepted(m.token)
    /\ LET u == token[m.token].user IN
       \E t \in FreshTokens, pruned \in Prunable(u) :
         /\ token' = minted(rotated(m.token), u, t, token[m.token].root, pruned)
         /\ answers' = answers \cup {[device |-> m.device, token |-> t]}
    /\ requests' = requests \ {m}
    /\ alarms' = {}
    /\ UNCHANGED <<status, held>>

\* The process dies between the two: the old token is spent, there is no new one.
RotateCrash(m) ==
    /\ m \in requests
    /\ accepted(m.token)
    /\ token' = rotated(m.token)
    /\ requests' = {}
    /\ alarms' = {}
    /\ UNCHANGED <<status, held, answers>>

familyRevoked_OnlyIt(t) == revokedRow(t)

familyRevoked(t) ==
    [s \in Tokens |-> IF row(s) /\ token[s].user = token[t].user
                        THEN [token[s] EXCEPT !.revoked = TRUE] ELSE token[s]]

\* A revoked token: every token of its user is revoked, and an audit row says so,
\* in one transaction.
Replay(m) ==
    /\ m \in requests
    /\ row(m.token) /\ token[m.token].revoked
    /\ token' = familyRevoked(m.token)
    /\ alarms' = {m.token}
    /\ requests' = requests \ {m}
    /\ UNCHANGED <<status, held, answers>>

\* Unknown, expired, or its user is not active: 401 and nothing changes.
Refuse(m) ==
    /\ m \in requests
    /\ row(m.token) => ~token[m.token].revoked
    /\ ~accepted(m.token)
    /\ requests' = requests \ {m}
    /\ alarms' = {}
    /\ UNCHANGED <<token, status, held, answers>>

\* POST /api/logout drops the cookies; it revokes a token only when the body
\* names one, which the SPA's never does (app.js:127-137).
Logout(d, body) ==
    /\ status[OwnerOf[d]] = "active"
    /\ body \in {held[d], NoToken}
    /\ token' = IF body # NoToken /\ row(body) THEN revokedRow(body) ELSE token
    /\ held' = [held EXCEPT ![d] = NoToken]
    /\ alarms' = {}
    /\ UNCHANGED <<status, requests, answers>>

Expire(t) ==
    /\ row(t) /\ ~token[t].expired
    /\ token' = [token EXCEPT ![t].expired = TRUE]
    /\ alarms' = {}
    /\ UNCHANGED <<status, held, requests, answers>>

\* POST /api/users/:id/deactivate leaves refresh tokens alone, and so does
\* reactivate.
Deactivate(u) ==
    /\ status[u] # "disabled"
    /\ status' = [status EXCEPT ![u] = "disabled"]
    /\ alarms' = {}
    /\ UNCHANGED <<token, held, requests, answers>>

Reactivate(u) ==
    /\ status[u] # "active"
    /\ status' = [status EXCEPT ![u] = "active"]
    /\ alarms' = {}
    /\ UNCHANGED <<token, held, requests, answers>>

Next ==
    \/ \E d \in Devices : \/ Login(d)
                          \/ Enrol(d)
                          \/ Ask(d)
                          \/ \E body \in Tokens \cup {NoToken} : Logout(d, body)
    \/ \E m \in requests : Rotate(m) \/ RotateCrash(m) \/ Replay(m) \/ Refuse(m)
    \/ \E m \in answers : Deliver(m)
    \/ \E m \in requests \cup answers : Lose(m)
    \/ \E t \in Tokens : Expire(t)
    \/ \E u \in Users : Deactivate(u) \/ Reactivate(u)

Spec == Init /\ [][Next]_vars

-----------------------------------------------------------------------------
(* Properties *)

\* Rotation never multiplies a session: however requests are resent, answers
\* lost and rows pruned, at most one token of a login can still be used
\* (refresh.js:66-75 against :8-22, two statements with no transaction).
OneLivePerLogin ==
    \A s, t \in Tokens :
        live(s) /\ live(t) /\ token[s].root = token[t].root => s = t

\* A replay ends every session of its user, those begun on other devices
\* included, and touches nobody else's (refresh.js:40-62).
AlarmEndsTheFamily ==
    [][\A t \in alarms', s \in Tokens : row(s) =>
         IF token[s].user = token[t].user
           THEN token'[s].revoked
           ELSE token'[s] = token[s]]_vars

\* A session goes on only when, in the same step, an unexpired live token of
\* the same login and of an active user is spent for the new one: a disabled
\* user, an expired or a revoked token never gets one (refresh.js:40-75).
NewTokensAreEarned ==
    [][\A t \in Tokens : ~row(t) /\ row(t)' /\ token'[t].root # t =>
         /\ status[token'[t].user] = "active"
         /\ \E s \in Tokens : /\ live(s) /\ ~token[s].expired /\ ~live(s)'
                             /\ token[s].root = token'[t].root
                             /\ token[s].user = token'[t].user]_vars
=============================================================================
