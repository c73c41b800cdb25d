------------------------ MODULE RefreshTokensProofs -------------------------
(***************************************************************************)
(* Proofs about refresh tokens, for any users, devices and tokens: the     *)
(* types, one live token per login, what an alarm ends, and what a new     *)
(* token costs.                                                            *)
(***************************************************************************)
EXTENDS RefreshTokens, TLAPS

Row == TokenRow \cup {NoRow}

LEMMA FreshIsToken == \A t \in FreshTokens : t \in Tokens /\ ~row(t)
BY DEF FreshTokens

LEMMA PrunedAreTokens ==
    ASSUME NEW u, NEW pruned \in Prunable(u) PROVE pruned \subseteq Tokens
BY DEF Prunable

LEMMA MintedType ==
    ASSUME NEW u \in Users, NEW t \in Tokens, NEW root \in Tokens, NEW pruned,
           NEW tab \in [Tokens -> Row]
    PROVE  /\ minted(tab, u, t, root, pruned) \in [Tokens -> Row]
           /\ minted(tab, u, t, root, pruned)[t] =
                [user |-> u, revoked |-> FALSE, expired |-> FALSE,
                 root |-> root]
           /\ \A s \in Tokens \ {t} :
                minted(tab, u, t, root, pruned)[s] \in {NoRow, tab[s]}
<1> DEFINE n == [user |-> u, revoked |-> FALSE, expired |-> FALSE,
                 root |-> root]
<1>1. n \in Row
  BY DEF Row, TokenRow
<1> HIDE DEF n
<1>2. minted(tab, u, t, root, pruned) =
        [s \in Tokens |-> IF s = t THEN n
                          ELSE IF s \in pruned THEN NoRow ELSE tab[s]]
  BY DEF minted, n
<1>3. NoRow \in Row
  BY DEF Row
<1>4. minted(tab, u, t, root, pruned) \in [Tokens -> Row]
  BY <1>1, <1>2, <1>3
<1> QED BY <1>2, <1>4 DEF n

LEMMA RowType ==
    ASSUME TypeOK, NEW t \in Tokens, row(t)
    PROVE  /\ token[t] \in TokenRow
           /\ token[t].user \in Users /\ token[t].root \in Tokens
BY DEF TypeOK, row, TokenRow

\* revokedRow and rotated set a flag of one row and leave the others alone.
LEMMA RevokedType ==
    ASSUME TypeOK, NEW t \in Tokens, row(t)
    PROVE  /\ revokedRow(t) \in [Tokens -> Row]
           /\ revokedRow(t)[t] = [token[t] EXCEPT !.revoked = TRUE]
           /\ \A s \in Tokens \ {t} : revokedRow(t)[s] = token[s]
<1>1. token[t] \in TokenRow
  BY RowType
<1>2. [token[t] EXCEPT !.revoked = TRUE] \in Row
  BY <1>1 DEF TokenRow, Row
<1> QED BY <1>2 DEF TypeOK, revokedRow, Row

LEMMA RotatedType ==
    ASSUME TypeOK, NEW t \in Tokens, row(t)
    PROVE  /\ rotated(t) \in [Tokens -> Row]
           /\ rotated(t)[t] \in TokenRow
           /\ rotated(t)[t].revoked
           /\ rotated(t)[t].root = token[t].root
           /\ rotated(t)[t].user = token[t].user
           /\ \A s \in Tokens \ {t} : rotated(t)[s] = token[s]
<1>1. token[t] \in TokenRow
  BY RowType
<1> DEFINE n == [token[t] EXCEPT !.revoked = TRUE]
<1>2. /\ n \in TokenRow /\ n.revoked
      /\ n.root = token[t].root /\ n.user = token[t].user
  BY <1>1 DEF TokenRow
<1>3. token \in [Tokens -> Row]
  BY DEF TypeOK, Row
<1>4. rotated(t) = [s \in Tokens |-> IF s = t THEN n ELSE token[s]]
  BY <1>3 DEF rotated
<1>5. n \in Row
  BY <1>2 DEF Row
<1> HIDE DEF n
<1>6. rotated(t) \in [Tokens -> Row]
  BY <1>3, <1>4, <1>5
<1> QED BY <1>2, <1>4, <1>6

LEMMA FamilyType ==
    ASSUME TypeOK, NEW t \in Tokens, row(t)
    PROVE  /\ familyRevoked(t) \in [Tokens -> Row]
           /\ \A s \in Tokens :
                IF row(s) /\ token[s].user = token[t].user
                  THEN familyRevoked(t)[s] = [token[s] EXCEPT !.revoked = TRUE]
                  ELSE familyRevoked(t)[s] = token[s]
<1>1. ASSUME NEW s \in Tokens, row(s)
      PROVE  [token[s] EXCEPT !.revoked = TRUE] \in Row
  BY <1>1, RowType DEF TokenRow, Row
<1> QED BY <1>1 DEF TypeOK, familyRevoked, Row

-----------------------------------------------------------------------------
(* Every step opens a session, continues one, or gives nobody anything. *)

\* Row s is as it was, or gone, or less usable.
Quiet(s) ==
    row(s)' => /\ row(s)
               /\ token'[s].root = token[s].root
               /\ token'[s].user = token[s].user
               /\ live(s)' => live(s)

Opened(t) ==
    /\ t \in FreshTokens
    /\ token'[t].root = t
    /\ \A s \in Tokens \ {t} : Quiet(s)

Continued(o, t) ==
    /\ t \in FreshTokens
    /\ accepted(o) /\ ~live(o)'
    /\ token'[t].root = token[o].root
    /\ token'[t].user = token[o].user
    /\ \A s \in Tokens \ {t} : Quiet(s)

Gives == \/ \A s \in Tokens : Quiet(s)
         \/ \E t \in Tokens : Opened(t)
         \/ \E o, t \in Tokens : Continued(o, t)

TableTyped == token' \in [Tokens -> Row]

LEMMA SessionForGives ==
    ASSUME TypeOK, NEW d \in Devices, SessionFor(d)
    PROVE  TableTyped /\ answers' \subseteq Message /\ Gives
<1> DEFINE u == OwnerOf[d]
<1>1. PICK t \in FreshTokens, pruned \in Prunable(u) :
        /\ token' = minted(token, u, t, t, pruned)
        /\ answers' = answers \cup {[device |-> d, token |-> t]}
  BY DEF SessionFor
<1>2. t \in Tokens /\ u \in Users /\ token \in [Tokens -> Row]
  BY FreshIsToken, RefreshTokensAssumption DEF TypeOK, Row
<1>3. /\ TableTyped
      /\ token'[t].root = t
      /\ \A s \in Tokens \ {t} : token'[s] \in {NoRow, token[s]}
  <2> HIDE DEF u
  <2> DEFINE tab == minted(token, u, t, t, pruned)
  <2>1. /\ tab \in [Tokens -> Row]
        /\ tab[t] = [user |-> u, revoked |-> FALSE, expired |-> FALSE,
                     root |-> t]
        /\ \A s \in Tokens \ {t} : tab[s] \in {NoRow, token[s]}
    BY <1>2, MintedType
  <2>2. token' = tab
    BY <1>1
  <2> HIDE DEF tab
  <2> QED BY <2>1, <2>2 DEF TableTyped
<1>4. \A s \in Tokens \ {t} : Quiet(s)
  BY <1>3 DEF Quiet, live, row
<1>5. answers' \subseteq Message
  BY <1>1, <1>2 DEF Message, TypeOK
<1> QED BY <1>2, <1>3, <1>4, <1>5 DEF Gives, Opened

LEMMA RotateGives ==
    ASSUME TypeOK, NEW m \in requests, Rotate(m)
    PROVE  TableTyped /\ answers' \subseteq Message /\ Gives
<1> DEFINE o == m.token
           u == token[o].user
<1>1. m \in Message /\ o \in Tokens /\ m.device \in Devices
  BY DEF TypeOK, Message
<1>2. accepted(o) /\ row(o)
  BY DEF Rotate, accepted
<1>3. PICK t \in FreshTokens, pruned \in Prunable(u) :
        /\ token' = minted(rotated(o), u, t, token[o].root, pruned)
        /\ answers' = answers \cup {[device |-> m.device, token |-> t]}
  BY DEF Rotate
<1>4. t \in Tokens /\ ~row(t) /\ t # o
  BY <1>2, FreshIsToken
<1>5. u \in Users /\ token[o].root \in Tokens
  BY <1>1, <1>2, RowType
<1>6. /\ rotated(o) \in [Tokens -> Row]
      /\ rotated(o)[o].revoked
      /\ rotated(o)[o].root = token[o].root
      /\ rotated(o)[o].user = token[o].user
      /\ \A s \in Tokens \ {o} : rotated(o)[s] = token[s]
  BY <1>1, <1>2, RotatedType
<1>7. /\ TableTyped
      /\ token'[t].root = token[o].root
      /\ token'[t].user = token[o].user
      /\ \A s \in Tokens \ {t} : token'[s] \in {NoRow, rotated(o)[s]}
  <2> HIDE DEF u, o
  <2> DEFINE tab == minted(rotated(o), u, t, token[o].root, pruned)
  <2>1. /\ tab \in [Tokens -> Row]
        /\ tab[t] = [user |-> u, revoked |-> FALSE, expired |-> FALSE,
                     root |-> token[o].root]
        /\ \A s \in Tokens \ {t} : tab[s] \in {NoRow, rotated(o)[s]}
    BY <1>4, <1>5, <1>6, MintedType
  <2>2. token' = tab
    BY <1>3
  <2>3. u = token[o].user
    BY DEF u
  <2> HIDE DEF tab
  <2> QED BY <2>1, <2>2, <2>3 DEF TableTyped
<1>8. ~live(o)'
  BY <1>1, <1>4, <1>6, <1>7 DEF live, row
<1>9. ASSUME NEW s \in Tokens \ {t} PROVE Quiet(s)
  <2>1. CASE s = o
    BY <1>1, <1>2, <1>4, <1>6, <1>7, <1>8, <2>1 DEF Quiet, live, row
  <2>2. CASE s # o
    BY <1>6, <1>7, <2>2 DEF Quiet, live, row
  <2> QED BY <2>1, <2>2
<1>10. answers' \subseteq Message
  BY <1>1, <1>3, <1>4 DEF Message, TypeOK
<1>11. Continued(o, t)
  BY <1>2, <1>3, <1>7, <1>8, <1>9 DEF Continued
<1> QED BY <1>1, <1>4, <1>7, <1>10, <1>11 DEF Gives

\* Revoking a row, or all rows of a user, gives nobody anything.
LEMMA RotateCrashQuiet ==
    ASSUME TypeOK, NEW m \in requests, RotateCrash(m)
    PROVE  TableTyped /\ \A s \in Tokens : Quiet(s)
<1>1. m.token \in Tokens /\ row(m.token) /\ token' = rotated(m.token)
  BY DEF RotateCrash, accepted, TypeOK, Message
<1>2. \A s \in Tokens \ {m.token} : token'[s] = token[s]
  BY <1>1, RotatedType
<1>3. /\ TableTyped /\ token'[m.token].revoked
      /\ token'[m.token].root = token[m.token].root
      /\ token'[m.token].user = token[m.token].user
  BY <1>1, RotatedType DEF TableTyped
<1> QED BY <1>1, <1>2, <1>3 DEF Quiet, live, row

LEMMA ReplayQuiet ==
    ASSUME TypeOK, NEW m \in requests, Replay(m)
    PROVE  TableTyped /\ \A s \in Tokens : Quiet(s)
<1>1. m.token \in Tokens /\ row(m.token) /\ token' = familyRevoked(m.token)
  BY DEF Replay, TypeOK, Message
<1>2. /\ TableTyped
      /\ \A s \in Tokens :
           \/ token'[s] = token[s]
           \/ row(s) /\ token'[s] = [token[s] EXCEPT !.revoked = TRUE]
  BY <1>1, FamilyType DEF TableTyped
<1>3. ASSUME NEW s \in Tokens PROVE Quiet(s)
  <2>1. CASE token'[s] = token[s]
    BY <2>1 DEF Quiet, live, row
  <2>2. CASE row(s) /\ token'[s] = [token[s] EXCEPT !.revoked = TRUE]
    BY <2>2, RowType DEF Quiet, live, row, TokenRow
  <2> QED BY <1>2, <2>1, <2>2
<1> QED BY <1>2, <1>3

LEMMA LogoutQuiet ==
    ASSUME TypeOK, NEW d \in Devices, NEW body \in Tokens \cup {NoToken},
           Logout(d, body)
    PROVE  TableTyped /\ \A s \in Tokens : Quiet(s)
<1>1. CASE body # NoToken /\ row(body)
  <2>1. token' = revokedRow(body) /\ body \in Tokens
    BY <1>1 DEF Logout
  <2>2. /\ TableTyped
        /\ token'[body] = [token[body] EXCEPT !.revoked = TRUE]
        /\ \A s \in Tokens \ {body} : token'[s] = token[s]
    BY <1>1, <2>1, RevokedType DEF TableTyped
  <2>3. token[body] \in TokenRow
    BY <1>1, <2>1, RowType
  <2>4. Quiet(body)
    BY <1>1, <2>2, <2>3 DEF Quiet, live, row, TokenRow
  <2>5. \A s \in Tokens \ {body} : Quiet(s)
    BY <2>2 DEF Quiet, live, row
  <2> QED BY <2>2, <2>4, <2>5
<1>2. CASE ~(body # NoToken /\ row(body))
  <2>1. token' = token
    BY <1>2 DEF Logout
  <2> QED BY <2>1 DEF TableTyped, TypeOK, Quiet, live, row, Row
<1> QED BY <1>1, <1>2

LEMMA ExpireQuiet ==
    ASSUME TypeOK, NEW t \in Tokens, Expire(t)
    PROVE  TableTyped /\ \A s \in Tokens : Quiet(s)
<1>1. row(t) /\ token' = [token EXCEPT ![t].expired = TRUE]
  BY DEF Expire
<1>2. token[t] \in TokenRow
  BY <1>1, RowType
<1> DEFINE n == [token[t] EXCEPT !.expired = TRUE]
<1>3. /\ n \in TokenRow /\ n.root = token[t].root /\ n.user = token[t].user
      /\ n.revoked = token[t].revoked
  BY <1>2 DEF TokenRow
<1>4. token' = [token EXCEPT ![t] = n]
  BY <1>1 DEF TypeOK
<1> HIDE DEF n
<1>5. TableTyped
  BY <1>3, <1>4 DEF TypeOK, TableTyped, Row
<1>6. Quiet(t)
  BY <1>1, <1>3, <1>4 DEF TypeOK, Quiet, live, row
<1>7. \A s \in Tokens \ {t} : Quiet(s)
  BY <1>4 DEF TypeOK, Quiet, live, row
<1> QED BY <1>5, <1>6, <1>7

LEMMA StepGives ==
    ASSUME TypeOK, [Next]_vars
    PROVE  TableTyped /\ answers' \subseteq Message /\ Gives
<1>1. ASSUME token' = token
      PROVE  TableTyped /\ \A s \in Tokens : Quiet(s)
  BY <1>1 DEF TableTyped, TypeOK, Quiet, live, row, Row
<1>2. CASE UNCHANGED vars
  BY <1>1, <1>2 DEF vars, Gives, TypeOK
<1>3. ASSUME NEW d \in Devices, Login(d) \/ Enrol(d)
      PROVE  TableTyped /\ answers' \subseteq Message /\ Gives
  BY <1>3, SessionForGives DEF Login, Enrol
<1>4. ASSUME NEW m \in requests, Rotate(m)
      PROVE  TableTyped /\ answers' \subseteq Message /\ Gives
  BY <1>4, RotateGives
<1>5. ASSUME NEW m \in requests, RotateCrash(m) \/ Replay(m) \/ Refuse(m)
      PROVE  TableTyped /\ answers' \subseteq Message /\ Gives
  <2>1. answers' = answers
    BY <1>5 DEF RotateCrash, Replay, Refuse
  <2>2. TableTyped /\ \A s \in Tokens : Quiet(s)
    BY <1>1, <1>5, RotateCrashQuiet, ReplayQuiet DEF Refuse
  <2> QED BY <2>1, <2>2 DEF Gives, TypeOK
<1>6. ASSUME NEW d \in Devices, NEW body \in Tokens \cup {NoToken}, Logout(d, body)
      PROVE  TableTyped /\ answers' \subseteq Message /\ Gives
  <2>1. answers' = answers
    BY <1>6 DEF Logout
  <2> QED BY <1>6, <2>1, LogoutQuiet DEF Gives, TypeOK
<1>7. ASSUME NEW t \in Tokens, Expire(t)
      PROVE  TableTyped /\ answers' \subseteq Message /\ Gives
  <2>1. answers' = answers
    BY <1>7 DEF Expire
  <2> QED BY <1>7, <2>1, ExpireQuiet DEF Gives, TypeOK
<1>8. ASSUME \/ \E d \in Devices : Ask(d)
             \/ \E m \in answers : Deliver(m)
             \/ \E m \in requests \cup answers : Lose(m)
             \/ \E u \in Users : Deactivate(u) \/ Reactivate(u)
      PROVE  TableTyped /\ answers' \subseteq Message /\ Gives
  <2>1. token' = token /\ answers' \subseteq answers
    BY <1>8 DEF Ask, Deliver, Lose, Deactivate, Reactivate
  <2> QED BY <1>1, <2>1 DEF Gives, TypeOK
<1> QED BY <1>2, <1>3, <1>4, <1>5, <1>6, <1>7, <1>8 DEF Next

-----------------------------------------------------------------------------
Inv == TypeOK /\ OneLivePerLogin

LEMMA InvInit == Init => Inv
BY RefreshTokensAssumption DEF Init, Inv, TypeOK, OneLivePerLogin, live, row

\* The parts of TypeOK beside the table and the answers.
LEMMA TypeStep == ASSUME TypeOK, [Next]_vars PROVE TypeOK'
<1>1. token' \in [Tokens -> TokenRow \cup {NoRow}] /\ answers' \subseteq Message
  BY StepGives DEF TableTyped, Row
<1>2. CASE UNCHANGED vars
  BY <1>2 DEF vars, TypeOK
<1>3. ASSUME NEW d \in Devices, Login(d) \/ Enrol(d) PROVE TypeOK'
  <2>1. OwnerOf[d] \in Users
    BY RefreshTokensAssumption
  <2>2. status' \in [Users -> {"pending", "active", "disabled"}]
    BY <1>3, <2>1 DEF Login, Enrol, TypeOK
  <2>3. UNCHANGED <<held, requests>> /\ alarms' = {}
    BY <1>3 DEF Login, Enrol, SessionFor
  <2> QED BY <1>1, <2>2, <2>3 DEF TypeOK
<1>4. ASSUME NEW d \in Devices, Ask(d) PROVE TypeOK'
  BY <1>1, <1>4 DEF Ask, TypeOK, Message
<1>5. ASSUME NEW d \in Devices, NEW body \in Tokens \cup {NoToken}, Logout(d, body)
      PROVE  TypeOK'
  BY <1>1, <1>5 DEF Logout, TypeOK
<1>6. ASSUME NEW m \in requests, Rotate(m) \/ RotateCrash(m) \/ Replay(m) \/ Refuse(m)
      PROVE  TypeOK'
  <2>1. m.token \in Tokens
    BY DEF TypeOK, Message
  <2>2. /\ requests' \subseteq requests /\ UNCHANGED <<status, held>>
        /\ alarms' \subseteq {m.token}
    BY <1>6 DEF Rotate, RotateCrash, Replay, Refuse
  <2> QED BY <1>1, <2>1, <2>2 DEF TypeOK
<1>7. ASSUME NEW m \in answers, Deliver(m) PROVE TypeOK'
  BY <1>1, <1>7 DEF Deliver, TypeOK, Message
<1>8. ASSUME NEW m \in requests \cup answers, Lose(m) PROVE TypeOK'
  BY <1>1, <1>8 DEF Lose, TypeOK
<1>9. ASSUME NEW t \in Tokens, Expire(t) PROVE TypeOK'
  BY <1>1, <1>9 DEF Expire, TypeOK
<1>10. ASSUME NEW u \in Users, Deactivate(u) \/ Reactivate(u) PROVE TypeOK'
  BY <1>1, <1>10 DEF Deactivate, Reactivate, TypeOK
<1> QED BY <1>2, <1>3, <1>4, <1>5, <1>6, <1>7, <1>8, <1>9, <1>10 DEF Next

LEMMA InvStep == Inv /\ [Next]_vars => Inv'
<1> SUFFICES ASSUME Inv, [Next]_vars PROVE OneLivePerLogin'
  BY TypeStep DEF Inv
<1> SUFFICES ASSUME NEW s \in Tokens, NEW t \in Tokens,
                    live(s)', live(t)', token'[s].root = token'[t].root
             PROVE  s = t
  BY DEF OneLivePerLogin
<1>0. \A r \in Tokens : Quiet(r) /\ live(r)' =>
        row(r) /\ live(r) /\ token'[r].root = token[r].root
  BY DEF Quiet, live, row
<1>1. \A p, q \in Tokens :
        live(p) /\ live(q) /\ token[p].root = token[q].root => p = q
  BY DEF Inv, OneLivePerLogin
<1>2. CASE \A r \in Tokens : Quiet(r)
  BY <1>0, <1>1, <1>2
<1>3. ASSUME NEW n \in Tokens, Opened(n) PROVE s = t
  <2>1. \A r \in Tokens : row(r) => token[r].root # n
    BY <1>3 DEF Opened, FreshTokens
  <2>2. token'[n].root = n /\ \A r \in Tokens \ {n} : Quiet(r)
    BY <1>3 DEF Opened
  <2> QED BY <1>0, <1>1, <2>1, <2>2
<1>4. ASSUME NEW o \in Tokens, NEW n \in Tokens, Continued(o, n) PROVE s = t
  <2>1. /\ live(o) /\ ~live(o)'
        /\ token'[n].root = token[o].root
        /\ \A r \in Tokens \ {n} : Quiet(r)
    BY <1>4 DEF Continued, accepted, live
  <2> QED BY <1>0, <1>1, <2>1
<1> QED BY <1>2, <1>3, <1>4, StepGives DEF Gives, Inv

\* Every reachable row, message and kept token has its type.
THEOREM TokensTyped == Spec => []TypeOK
<1>1. Inv => TypeOK
  BY DEF Inv
<1> QED BY <1>1, InvInit, InvStep, PTL DEF Spec

\* However requests are resent, answers lost and rows pruned, a login never has
\* two tokens that can still be used (refresh.js:66-75).
THEOREM OneLive == Spec => []OneLivePerLogin
<1>1. Inv => OneLivePerLogin
  BY DEF Inv
<1> QED BY <1>1, InvInit, InvStep, PTL DEF Spec

\* A session goes on only by spending a live, unexpired token of an active user
\* (refresh.js:40-75).
THEOREM NewTokensEarned == Spec => NewTokensAreEarned
<1> DEFINE Earned ==
      \A t \in Tokens : ~row(t) /\ row(t)' /\ token'[t].root # t =>
         /\ status[token'[t].user] = "active"
         /\ \E s \in Tokens : /\ live(s) /\ ~token[s].expired /\ ~live(s)'
                             /\ token[s].root = token'[t].root
                             /\ token[s].user = token'[t].user
<1>1. ASSUME TypeOK, [Next]_vars PROVE Earned
  <2> SUFFICES ASSUME NEW t \in Tokens, ~row(t), row(t)', token'[t].root # t
               PROVE  /\ status[token'[t].user] = "active"
                      /\ \E s \in Tokens : /\ live(s) /\ ~token[s].expired
                                          /\ ~live(s)'
                                          /\ token[s].root = token'[t].root
                                          /\ token[s].user = token'[t].user
    OBVIOUS
  <2>1. ~Quiet(t)
    BY DEF Quiet
  <2>2. ~Opened(t)
    BY DEF Opened
  <2>3. PICK o \in Tokens, n \in Tokens : Continued(o, n)
    BY <1>1, <2>1, <2>2, StepGives DEF Gives, Opened
  <2>4. n = t
    BY <2>1, <2>3 DEF Continued
  <2> QED BY <2>3, <2>4 DEF Continued, accepted, live
<1>2. TypeOK /\ [Next]_vars => [Earned]_vars
  BY <1>1
<1> QED BY <1>2, TokensTyped, PTL DEF Spec, NewTokensAreEarned

\* A replay ends every session of its user and touches nobody else's
\* (refresh.js:40-62).
THEOREM AlarmEnds == Spec => AlarmEndsTheFamily
<1> DEFINE Ends ==
      \A t \in alarms', s \in Tokens : row(s) =>
         IF token[s].user = token[t].user
           THEN token'[s].revoked
           ELSE token'[s] = token[s]
<1>1. ASSUME TypeOK, Next PROVE Ends
  <2> SUFFICES ASSUME NEW t \in alarms', NEW s \in Tokens, row(s)
               PROVE  IF token[s].user = token[t].user
                        THEN token'[s].revoked
                        ELSE token'[s] = token[s]
    OBVIOUS
  <2>1. PICK m \in requests : Replay(m)
    BY <1>1 DEF Next, Login, Enrol, SessionFor, Ask, Logout, Rotate, RotateCrash,
                Refuse, Deliver, Lose, Expire, Deactivate, Reactivate
  <2>2. m.token \in Tokens /\ row(m.token) /\ t = m.token
    BY <1>1, <2>1 DEF Replay, TypeOK, Message
  <2>3. token' = familyRevoked(t)
    BY <2>1, <2>2 DEF Replay
  <2>4. token[s] \in TokenRow
    BY <1>1, RowType
  <2>5. [token[s] EXCEPT !.revoked = TRUE].revoked
    BY <2>4 DEF TokenRow
  <2> QED BY <1>1, <2>2, <2>3, <2>5, FamilyType
<1>2. TypeOK /\ [Next]_vars => [Ends]_vars
  BY <1>1
<1> QED BY <1>2, TokensTyped, PTL DEF Spec, AlarmEndsTheFamily
=============================================================================
