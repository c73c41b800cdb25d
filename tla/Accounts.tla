------------------------------ MODULE Accounts ------------------------------
(***************************************************************************)
(* Users and their attachments to claimants: the tables users and          *)
(* user_claimants, and the admin endpoints of routes/users.js and          *)
(* routes/user-claimants.js that write them.  better-sqlite3 is            *)
(* synchronous and none of these handlers awaits between its reads and its *)
(* writes, so each handler is one action.  A refused request and a request *)
(* that short-circuits as a no-op change nothing: they are stuttering.     *)
(*                                                                         *)
(* A user_claimants row is UNIQUE (user_id, claimant_id) and is never      *)
(* deleted, so the pair names it.                                          *)
(***************************************************************************)
EXTENDS Naturals

CONSTANTS Users, Claimants,
          FirstAdmin     \* the user seed-admin.js creates

ASSUME FirstAdminAssumption == FirstAdmin \in Users

VARIABLES
    role,      \* users.role; meaningless while the user is absent
    ustatus,   \* users.status, "absent" before the row exists
    att,       \* att[u][c]: user_claimants.status, "none" before the row exists
    marker     \* marker[u][c]: deactivated_with_user_id = u (else NULL)

accountVars == <<role, ustatus, att, marker>>

\* A manager has no rights of its own: it can be named as manager of a project.
Roles == {"admin", "manager", "employee"}
UserStatus == {"pending", "active", "disabled"}
AttStatus == {"active", "inactive"}

AccountsTypeOK ==
    /\ role \in [Users -> Roles]
    /\ ustatus \in [Users -> UserStatus \cup {"absent"}]
    /\ att \in [Users -> [Claimants -> AttStatus \cup {"none"}]]
    /\ marker \in [Users -> [Claimants -> BOOLEAN]]

\* A fresh database after seed-admin.js: one pending admin, nobody else.
AccountsInit ==
    /\ role = [u \in Users |-> IF u = FirstAdmin THEN "admin" ELSE "employee"]
    /\ ustatus = [u \in Users |-> IF u = FirstAdmin THEN "pending" ELSE "absent"]
    /\ att = [u \in Users |-> [c \in Claimants |-> "none"]]
    /\ marker = [u \in Users |-> [c \in Claimants |-> FALSE]]

-----------------------------------------------------------------------------
\* requireAuth: the session's user row must be active at the time of the call.
requireAuth(a) == ustatus[a] = "active"

requireAdmin(a) == requireAuth(a) /\ role[a] = "admin"

\* POST /api/users, with attachments to the claimants in cs.
CreateUser(a, u, r, cs) ==
    /\ requireAdmin(a)
    /\ ustatus[u] = "absent"
    /\ role' = [role EXCEPT ![u] = r]
    /\ ustatus' = [ustatus EXCEPT ![u] = "pending"]
    /\ att' = [att EXCEPT ![u] = [c \in Claimants |->
                                    IF c \in cs THEN "active" ELSE "none"]]
    /\ UNCHANGED marker

\* The UPDATE at the end of register/finish: only a pending user is activated.
Enrol(u) ==
    /\ ustatus[u] = "pending"
    /\ ustatus' = [ustatus EXCEPT ![u] = "active"]
    /\ UNCHANGED <<role, att, marker>>

\* PATCH /api/users/:id writes role and status as given, on any user
\* including the caller, and leaves the attachments alone.
PatchUser(a, u, r, s) ==
    /\ requireAdmin(a)
    /\ ustatus[u] # "absent"
    /\ role' = [role EXCEPT ![u] = r]
    /\ ustatus' = [ustatus EXCEPT ![u] = s]
    /\ UNCHANGED <<att, marker>>

\* (A mistake the properties are there to catch, used by no specification: the
\* marker records only this round's attachments.)
Deactivate_ResetMarkers(a, u) ==
    /\ requireAdmin(a)
    /\ u # a
    /\ ustatus[u] \in {"pending", "active"}
    /\ ustatus' = [ustatus EXCEPT ![u] = "disabled"]
    /\ att' = [att EXCEPT ![u] = [c \in Claimants |->
                 IF att[u][c] = "active" THEN "inactive" ELSE att[u][c]]]
    /\ marker' = [marker EXCEPT ![u] = [c \in Claimants |-> att[u][c] = "active"]]
    /\ UNCHANGED role

\* POST /api/users/:id/deactivate takes every active attachment down with the
\* user and marks it.
Deactivate(a, u) ==
    /\ requireAdmin(a)
    /\ u # a
    /\ ustatus[u] \in {"pending", "active"}
    /\ ustatus' = [ustatus EXCEPT ![u] = "disabled"]
    /\ att' = [att EXCEPT ![u] = [c \in Claimants |->
                 IF att[u][c] = "active" THEN "inactive" ELSE att[u][c]]]
    /\ marker' = [marker EXCEPT ![u] = [c \in Claimants |->
                    marker[u][c] \/ att[u][c] = "active"]]
    /\ UNCHANGED role

\* (Likewise: every inactive attachment comes back, whatever took it down.)
Reactivate_All(a, u) ==
    /\ requireAdmin(a)
    /\ ustatus[u] \in {"pending", "disabled"}
    /\ ustatus' = [ustatus EXCEPT ![u] = "active"]
    /\ att' = [att EXCEPT ![u] = [c \in Claimants |->
                 IF att[u][c] = "inactive" THEN "active" ELSE att[u][c]]]
    /\ marker' = [marker EXCEPT ![u] = [c \in Claimants |-> FALSE]]
    /\ UNCHANGED role

\* POST /api/users/:id/reactivate brings the marked attachments back.
Reactivate(a, u) ==
    /\ requireAdmin(a)
    /\ ustatus[u] \in {"pending", "disabled"}
    /\ ustatus' = [ustatus EXCEPT ![u] = "active"]
    /\ att' = [att EXCEPT ![u] = [c \in Claimants |->
                 IF marker[u][c] THEN "active" ELSE att[u][c]]]
    /\ marker' = [marker EXCEPT ![u] = [c \in Claimants |-> FALSE]]
    /\ UNCHANGED role

\* POST /api/users/:id/attachments: one row per user and claimant.
Attach(a, u, c) ==
    /\ requireAdmin(a)
    /\ ustatus[u] # "absent"
    /\ att[u][c] = "none"
    /\ att' = [att EXCEPT ![u][c] = "active"]
    /\ UNCHANGED <<role, ustatus, marker>>

\* (Likewise: the status of the body is written unchecked.)
PatchAttachment_AnyStatus(a, u, c, s) ==
    /\ requireAdmin(a)
    /\ att[u][c] # "none"
    /\ att' = [att EXCEPT ![u][c] = ustatus[u]]
    /\ UNCHANGED <<role, ustatus, marker>>

\* PATCH /api/user-claimants/:id: of the columns kept here it sets the status,
\* and the marker stays as it was.  It also writes the title, the start date and
\* is_specified_employee; that flag is module Claims'.
PatchAttachment(a, u, c, s) ==
    /\ requireAdmin(a)
    /\ att[u][c] # "none"
    /\ att' = [att EXCEPT ![u][c] = s]
    /\ UNCHANGED <<role, ustatus, marker>>

AccountsNext ==
    \/ \E u \in Users : Enrol(u)
    \/ \E a, u \in Users :
         \/ \E r \in Roles, cs \in SUBSET Claimants : CreateUser(a, u, r, cs)
         \/ \E r \in Roles, s \in UserStatus : PatchUser(a, u, r, s)
         \/ Deactivate(a, u)
         \/ Reactivate(a, u)
         \/ \E c \in Claimants : Attach(a, u, c)
         \/ \E c \in Claimants, s \in AttStatus : PatchAttachment(a, u, c, s)

AccountsSpec == AccountsInit /\ [][AccountsNext]_accountVars
=============================================================================
