----------------------------- MODULE UserAdmin -----------------------------
(***************************************************************************)
(* Administration of the accounts: the auth_users rows and the requests    *)
(* that read a row, perhaps look at the other rows, and write the row back *)
(* whole.                                                                  *)
(*                                                                         *)
(*   internal/app/auth/service.go            the requests                  *)
(*   internal/infra/auth/postgres/store.go   auth_users                    *)
(*                                                                         *)
(* Every store call is one statement or transaction of PostgreSQL and one  *)
(* step; nothing is held between two calls.  Usernames and passwords are   *)
(* not told apart: a user is its id, which is fresh when it is created.    *)
(* The is_read_only column is left out: no decision here looks at it.      *)
(***************************************************************************)
EXTENDS FiniteSets

CONSTANTS
    User,     \* user ids, uuid.NewString()
    Req,      \* concurrent requests
    NoUser

ASSUME UserAdminAssumption == NoUser \notin User

VARIABLES
    users,    \* auth_users
    used,     \* ids that were ever inserted
    req,      \* requests in flight
    (* What happened, for the properties only. *)
    booted,   \* there has been an active global admin
    raced     \* an active admin was removed by a request that overlapped a write

vars == <<users, used, req, booted, raced>>

Row == [exists : BOOLEAN, admin : BOOLEAN, enabled : BOOLEAN, robot : BOOLEAN]
NoRow == [exists |-> FALSE, admin |-> FALSE, enabled |-> FALSE, robot |-> FALSE]

Create == {"create", "createDisabled", "createRobot"}
Op == Create \cup {"update", "enable", "reset", "delete", "deleteRobot", "bootstrap"}

\* val is the request's input: is_admin for "update" and the creations, the
\* new state for "enable".  fresh: no row was written since copy was read.
Request == [pc : {"idle", "read", "check", "boot", "write"}, op : Op \cup {"none"},
            user : User \cup {NoUser}, val : BOOLEAN, copy : Row, fresh : BOOLEAN]
Idle == [pc |-> "idle", op |-> "none", user |-> NoUser, val |-> FALSE, copy |-> NoRow,
         fresh |-> FALSE]

TypeOK ==
    /\ users \in [User -> Row]
    /\ used \subseteq User
    /\ req \in [Req -> Request]
    /\ booted \in BOOLEAN /\ raced \in BOOLEAN

Init ==
    /\ users = [u \in User |-> NoRow]
    /\ used = {}
    /\ req = [q \in Req |-> Idle]
    /\ booted = FALSE /\ raced = FALSE

-----------------------------------------------------------------------------
(***************************************************************************)
(* Queries on auth_users.  HasActiveGlobalAdmin counts every row;          *)
(* ListUsers leaves the robots out.                                        *)
(***************************************************************************)
ActiveAdmin(row) == row.exists /\ row.admin /\ row.enabled
HasActiveGlobalAdmin == \E u \in User : ActiveAdmin(users[u])
ListUsers == {u \in User : users[u].exists /\ ~users[u].robot}

\* User.Validate
Valid(row) == ~(row.robot /\ row.admin)

-----------------------------------------------------------------------------
(***************************************************************************)
(* A request starts with requireAdmin: the actor was an active admin when  *)
(* the bearer token was verified, and is not looked at again.              *)
(* BootstrapAdmin is a command and needs no actor.                         *)
(***************************************************************************)
Start(q, op, u, v) ==
    /\ req[q].pc = "idle"
    /\ op # "bootstrap" => HasActiveGlobalAdmin
    /\ op \in Create => u \notin used
    /\ req' = [req EXCEPT ![q] =
                 [pc |-> IF op \in Create THEN "write" ELSE "read",
                  op |-> op, user |-> u, val |-> v, copy |-> NoRow, fresh |-> TRUE]]
    /\ UNCHANGED <<users, used, booted, raced>>

\* Does the request look at the other rows before it writes?
NeedsAnotherAdmin_NoDisable(op, row, v) ==  \* mutant: disabling is not guarded
    \/ op = "update" /\ row.admin /\ ~v
    \/ op = "delete" /\ row.admin /\ row.enabled

NeedsAnotherAdmin(op, row, v) ==
    \/ op = "update" /\ row.admin /\ ~v
    \/ op = "enable" /\ row.admin /\ row.enabled /\ ~v
    \/ op = "delete" /\ row.admin /\ row.enabled

\* GetUserByID, or GetUserByUsername for BootstrapAdmin.
GetUser(q) ==
    LET r == req[q]
        row == users[r.user]
        goto(pc) == req' = [req EXCEPT ![q].pc = pc, ![q].copy = row, ![q].fresh = TRUE]
    IN
    /\ r.pc = "read"
    /\ \/ /\ \/ r.op # "bootstrap" /\ ~row.exists
             \/ r.op = "bootstrap" /\ ~row.exists /\ r.user \in used
             \/ r.op = "deleteRobot" /\ ~row.robot
          /\ req' = [req EXCEPT ![q] = Idle]
       \/ /\ r.op = "bootstrap"
          /\ row.exists \/ r.user \notin used
          /\ goto(IF row.admin THEN "write" ELSE "boot")
       \/ /\ r.op # "bootstrap" /\ row.exists
          /\ r.op = "deleteRobot" => row.robot
          /\ goto(IF NeedsAnotherAdmin(r.op, row, r.val) THEN "check" ELSE "write")
    /\ UNCHANGED <<users, used, booted, raced>>

\* ensureAnotherActiveAdmin; includeTarget is user.Enabled for "update".
EnsureAnotherActiveAdmin(q) ==
    LET r == req[q]
        includeTarget == IF r.op = "update" THEN r.copy.enabled ELSE TRUE
        another == \E u \in ListUsers \ {r.user} : users[u].admin /\ users[u].enabled
    IN
    /\ r.pc = "check"
    /\ req' = [req EXCEPT ![q] = IF another \/ ~includeTarget
                                 THEN [@ EXCEPT !.pc = "write"] ELSE Idle]
    /\ UNCHANGED <<users, used, booted, raced>>

\* BootstrapAdmin's own check: an account may become the admin if there is none.
BootstrapCheck(q) ==
    /\ req[q].pc = "boot"
    /\ req' = [req EXCEPT ![q] = IF HasActiveGlobalAdmin THEN Idle
                                 ELSE [@ EXCEPT !.pc = "write"]]
    /\ UNCHANGED <<users, used, booted, raced>>

\* What UpdateUser makes of the row it read: its input carries no enabled flag.
Updated_Enables(r) == [r.copy EXCEPT !.admin = r.val, !.enabled = TRUE]  \* mutant: it resets the flag

Updated(r) == [r.copy EXCEPT !.admin = r.val]

\* The row the request writes, from the copy it read.
Written(r) ==
    CASE r.op = "update" -> Updated(r)
      [] r.op = "enable" -> [r.copy EXCEPT !.enabled = r.val]
      [] r.op = "reset" -> r.copy
      [] r.op \in {"delete", "deleteRobot"} -> NoRow
      [] r.op = "create" ->
            [exists |-> TRUE, admin |-> r.val, enabled |-> TRUE, robot |-> FALSE]
      [] r.op = "createDisabled" ->
            [exists |-> TRUE, admin |-> r.val, enabled |-> FALSE, robot |-> FALSE]
      [] r.op = "createRobot" ->
            [exists |-> TRUE, admin |-> FALSE, enabled |-> TRUE, robot |-> TRUE]
      [] r.op = "bootstrap" -> [r.copy EXCEPT !.exists = TRUE, !.admin = TRUE,
                                              !.enabled = TRUE]

\* An insertion with a username that is taken violates the UNIQUE constraint.
Inserts(r) == r.op \in Create \/ (r.op = "bootstrap" /\ ~r.copy.exists)

\* UpsertUser or DeleteUser.  A row that does not validate is not written.
Write(q) ==
    LET r == req[q]
        new == Written(r)
    IN
    /\ r.pc = "write"
    /\ IF Valid(new) /\ (Inserts(r) => r.user \notin used)
       THEN /\ users' = [users EXCEPT ![r.user] = new]
            /\ used' = IF new.exists THEN used \cup {r.user} ELSE used
            /\ req' = [s \in Req |-> IF s = q THEN Idle
                                    ELSE [req[s] EXCEPT !.fresh = @ /\ users' = users]]
            /\ booted' = (booted \/ ActiveAdmin(new))
            /\ raced' = (raced \/ (/\ ~r.fresh
                                   /\ ActiveAdmin(users[r.user])
                                   /\ ~ActiveAdmin(new)))
       ELSE /\ req' = [req EXCEPT ![q] = Idle]
            /\ UNCHANGED <<users, used, booted, raced>>

\* A store call fails or the request is cut off.
Fail(q) ==
    /\ req[q].pc # "idle"
    /\ req' = [req EXCEPT ![q] = Idle]
    /\ UNCHANGED <<users, used, booted, raced>>

Step(q) == \/ GetUser(q) \/ EnsureAnotherActiveAdmin(q) \/ BootstrapCheck(q)
           \/ Write(q) \/ Fail(q)

Next ==
    \/ \E q \in Req, op \in Op, u \in User, v \in BOOLEAN : Start(q, op, u, v)
    \/ \E q \in Req : Step(q)

Spec == Init /\ [][Next]_vars

-----------------------------------------------------------------------------
(***************************************************************************)
(* Properties.                                                             *)
(***************************************************************************)

(* UpdateUser, SetUserEnabled, DeleteUser: once there has been a global    *)
(* admin there always is an active one, unless an active admin was removed *)
(* by a request that overlapped a write of another request.                *)
LockoutNeedsOverlap == booted => (HasActiveGlobalAdmin \/ raced)

(* The two queries that decide who is left, HasActiveGlobalAdmin over all  *)
(* rows and the search of ensureAnotherActiveAdmin over ListUsers, see the *)
(* same accounts: no interleaving of updates makes a robot an admin.       *)
AdminQueriesAgree ==
    {u \in User : ActiveAdmin(users[u])} =
        {u \in ListUsers : users[u].admin /\ users[u].enabled}

(* A request changes of its row what it was asked to change, and nothing   *)
(* else, unless another request wrote since it read the row.               *)
OnlyOverlapLosesUpdates ==
    [][\A q \in Req :
         (req[q].pc = "write" /\ req'[q].pc = "idle" /\ users' # users /\ req[q].fresh) =>
            LET old == users[req[q].user]
                new == users'[req[q].user]
            IN /\ req[q].op = "update" => new = [old EXCEPT !.admin = req[q].val]
               /\ req[q].op = "enable" => new = [old EXCEPT !.enabled = req[q].val]
               /\ req[q].op = "reset" => new = old]_vars

(* docs/users.md:126: "The last active global admin account can never be   *)
(* disabled or demoted".                                                   *)
LastAdminKept == booted => HasActiveGlobalAdmin
=============================================================================
