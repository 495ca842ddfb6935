------------------------------- MODULE Access -------------------------------
(***************************************************************************)
(* Who may do what: logins, access tokens and their scopes, repository     *)
(* grants and those who administer them, robots and their credentials.     *)
(*                                                                         *)
(*   internal/app/auth/service.go             logins, grants, robots       *)
(*   internal/domain/auth                     roles, scopes, principals    *)
(*   internal/infra/auth/postgres/store.go    the rows                     *)
(*   internal/ports/defaults.go               the access controllers       *)
(*   internal/protocol/http                   what each route demands      *)
(*                                                                         *)
(* Every call of the store is a step.  A client either shows an access     *)
(* token it got earlier, or answers a challenge: it logs in for the scope  *)
(* the challenge names and calls again with the token it gets.  Accounts   *)
(* are known by name and have an id, which a name created again does not   *)
(* share.  An account holds at most one credential (a bound).  is_admin    *)
(* and is_read_only do not change: no route changes them.                  *)
(***************************************************************************)
EXTENDS Integers, FiniteSets

CONSTANTS
    Account, Admins, Robots,   \* usernames, those of global administrators and of robots
    Repo,
    Client, Operator,          \* requests that run at the same time: calls, administration
    InitialRole,               \* bound on the roles accounts have at first
    MaxRequests,               \* bound on the requests of a behaviour
    MaxTime,                   \* bound on the clock
    AccessTTL, CredentialTTL   \* AccessTokenTTL, and the lifetime of a credential

ASSUME Access_Constants ==
    /\ Account # {} /\ Admins \cup Robots \subseteq Account /\ Admins \cap Robots = {}
    /\ InitialRole \subseteq {"none", "reader", "writer", "admin"}
    /\ MaxRequests \in Nat /\ MaxTime \in Nat
    /\ AccessTTL \in Nat \ {0} /\ CredentialTTL \in Nat

VARIABLES
    controller,   \* the access controller, chosen when the server starts
    readOnly,     \* accounts with is_read_only
    acct,         \* auth_users
    grants,       \* auth_repo_grants
    cred,         \* auth_tokens of kind admin-credential
    clock,
    issued,       \* ids used so far
    threads,      \* requests in flight, and what the last one was served
    asked,        \* requests so far
    broken        \* for the properties: robots left incomplete, and why

Thread == Client \cup Operator
accessVars == <<controller, readOnly, acct, grants, cred, clock, issued, threads, asked, broken>>
world == <<acct, grants, cred, clock>>

Role == {"reader", "writer", "admin"}
NoAccount == [id |-> 0, enabled |-> FALSE]
NoCred == [id |-> 0, expires |-> 0, revoked |-> FALSE]
NoGrants == [r \in Repo |-> "none"]

-----------------------------------------------------------------------------
(* The operations.  A handler of /v2 announces a verb, which a challenge   *)
(* turns into a scope, and the service it calls demands one.               *)

handleCatalog     == [announces |-> "catalog", demands |-> "catalog"]
handleUploadStart == [announces |-> "push",    demands |-> "push"]
handleUploadState == [announces |-> "push",    demands |-> "push"]
handleBlobRead    == [announces |-> "pull",    demands |-> "pull"]
handleTags        == [announces |-> "inspect", demands |-> "inspect"]
handleReferrers   == [announces |-> "inspect", demands |-> "inspect"]
handleManifestScanStatus == [announces |-> "pull", demands |-> "pull"]

\* Mutant: a deletion is announced like a reading of the manifest.
handleManifest_AnnouncesPull(method) ==
    [announces |-> IF method = "PUT" THEN "push" ELSE "pull",
     demands   |-> CASE method = "PUT" -> "push" [] method = "DELETE" -> "delete" [] OTHER -> "pull"]

handleManifest(method) ==
    [announces |-> CASE method = "PUT" -> "push" [] method = "DELETE" -> "delete" [] OTHER -> "pull",
     demands   |-> CASE method = "PUT" -> "push" [] method = "DELETE" -> "delete" [] OTHER -> "pull"]

V2 == [catalog |-> handleCatalog, startUpload |-> handleUploadStart, upload |-> handleUploadState,
       blob |-> handleBlobRead, getManifest |-> handleManifest("GET"), putManifest |-> handleManifest("PUT"),
       deleteManifest |-> handleManifest("DELETE"), status |-> handleManifestScanStatus,
       tags |-> handleTags, referrers |-> handleReferrers]
Calls == DOMAIN V2

\* The operations a handler of /admin/v1 leads to.
handleAdminUserGrantResource     == {"putGrant", "deleteGrant"}
handleAdminUserTokensCollection  == {"createToken"}
handleAdminUserTokenResource     == {"revokeToken"}
handleAdminRobotsCollection      == {"createRobot"}
handleAdminRobotResource         == {"deleteRobot"}
handleAdminUserEnablement        == {"enable", "disable"}
handleAdminRepositoryGrantResource  == {"putRepositoryGrant", "deleteRepositoryGrant"}
handleAdminRepositoryDeleteResource == {"deleteRepository"}

AdminOps ==
    UNION {handleAdminUserGrantResource, handleAdminUserTokensCollection, handleAdminUserTokenResource,
           handleAdminRobotsCollection, handleAdminRobotResource, handleAdminUserEnablement}
DelegatedOps == handleAdminRepositoryGrantResource
Ops == Calls \cup AdminOps \cup DelegatedOps \cup handleAdminRepositoryDeleteResource

Quiet == [pc |-> "idle", served |-> "none"]
Running(x) == x.pc # "idle"

-----------------------------------------------------------------------------
(* Roles, scopes and principals.                                           *)

AllowsRead(role) == role \in Role
AllowsWrite(role) == role \in {"writer", "admin"}
AllowsAdmin(role) == role = "admin"

\* Action.Scope: what a challenge tells the client to ask for.
Scope(verb) ==
    CASE verb = "catalog" -> {"catalog"}
      [] verb \in {"pull", "inspect"} -> {"pull"}
      [] verb = "push" -> {"pull", "push"}
      [] verb = "delete" -> {"delete"}
      [] OTHER -> {}

\* Mutant: delete follows from what a read-only account may ask for.
intersectRequestedActions_ReadOnlyDeletes(who, role, requested) ==
    IF who \in Admins THEN requested
    ELSE IF who \in readOnly THEN requested \ {"push"}
    ELSE {a \in requested : IF a = "pull" THEN AllowsRead(role) ELSE AllowsWrite(role)}

\* The actions of a requested scope that the account's role covers.
intersectRequestedActions(who, role, requested) ==
    IF who \in Admins THEN requested
    ELSE IF who \in readOnly THEN requested \cap {"pull"}
    ELSE {a \in requested : IF a = "pull" THEN AllowsRead(role) ELSE AllowsWrite(role)}

\* The catalog scope is granted to everybody who asks.
grantedScopes(who, role, requested) ==
    (requested \cap {"catalog"}) \cup intersectRequestedActions(who, role, requested \ {"catalog"})

\* Principal.hasGrantedRepositoryAccess for a reading and for a writing role.
hasReadGrant(x) == x.who \in Admins \/ x.who \in readOnly \/ AllowsRead(x.role)
hasWriteGrant(x) == x.who \in Admins \/ AllowsWrite(x.role)

\* Principal.scopeAllowsRepository: a scope for another repository is none.
scopeAllows(x, action) == action \in x.scope

principalAuthorize(x, verb) ==
    CASE verb = "catalog" -> x.scope \cap {"catalog", "pull"} # {}
      [] verb \in {"pull", "inspect"} -> hasReadGrant(x) /\ scopeAllows(x, "pull")
      [] verb \in {"push", "delete"} -> hasWriteGrant(x) /\ scopeAllows(x, verb)

\* configurableAccessController, for a request without a principal.
configurableAuthorize(verb, flags) ==
    \/ verb \in {"pull", "inspect", "catalog"} /\ "pull" \in flags
    \/ verb = "push" /\ "push" \in flags

\* Anybody without a token: the console's controller lets everything pass.
anonymousAuthorize(op) ==
    \/ controller.kind = "local"
    \/ controller.kind = "configurable" /\ op \in Calls /\ configurableAuthorize(V2[op].demands, controller.flags)

\* requireAdminOrRepoAdmin and hasRepoAdminGrant look at the grant alone.
isRepoAdmin(x) == x.who \in Admins \/ AllowsAdmin(x.role)

-----------------------------------------------------------------------------
(* What is true of a request right now: its secret, its account, its role. *)

Live(a) == acct[a].id # 0
SecretGood(x, c, now) ==
    CASE x.secret = "password" -> x.who \notin Robots
      [] x.secret = "credential" -> c.id = x.id /\ ~c.revoked /\ now < c.expires
      [] OTHER -> now < AccessTTL
AccountGood(x, row) == row.id = x.id /\ row.enabled

\* The rights an account has with a role, whatever its token says.  A
\* read-only account never writes, but it may administer its repository.
Allowed(who, verb, role) ==
    CASE verb = "catalog" -> TRUE
      [] verb \in {"pull", "inspect"} -> who \in Admins \cup readOnly \/ role \in Role
      [] verb \in {"push", "delete"} -> who \in Admins \/ (who \notin readOnly /\ role \in {"writer", "admin"})
Entitled(who, op, role) ==
    CASE op \in Calls -> Allowed(who, V2[op].demands, role)
      [] op \in AdminOps -> who \in Admins
      [] OTHER -> who \in Admins \/ role = "admin"

\* After every step: what a running request could have seen since it began.
Observe(ts) ==
    [t \in Thread |->
        LET x == ts[t]
        IN  IF ~Running(x) THEN x
            ELSE [x EXCEPT !.calm = @ /\ UNCHANGED world,
                           !.secretSeen = @ \/ SecretGood(x, cred'[x.who], clock'),
                           !.accountSeen = @ \/ AccountGood(x, acct'[x.who]),
                           !.roles = @ \cup {grants'[x.who][x.repo]}]]

Set(t, x) == threads' = Observe([threads EXCEPT ![t] = x])
Goto(t, pc) == Set(t, [threads[t] EXCEPT !.pc = pc])
Refuse(t) == Set(t, [Quiet EXCEPT !.served = "refused"])
GiveUp(t) == Set(t, Quiet)
Serve(t, op) == Set(t, [Quiet EXCEPT !.served = op])
Fixed == UNCHANGED <<controller, readOnly, issued, asked, broken>>
Steady == Fixed /\ UNCHANGED world

-----------------------------------------------------------------------------
(* A request begins.                                                       *)

\* who and secret: how it authenticates; id: the account behind the secret;
\* repo: its repository.  What it asks for is chosen when the code first
\* looks at it: op, a call of /v2 or an administrative operation; scope, what
\* the token says of repo; grant and target.  role: the principal's.
NewRequest(pc, who, secret, repo) ==
    [pc |-> pc, who |-> who, secret |-> secret, repo |-> repo, id |-> acct[who].id,
     op |-> "none", scope |-> {}, expires |-> AccessTTL, role |-> "none",
     grant |-> "none", target |-> who, targetId |-> 0,
     calm |-> secret # "token", secretSeen |-> FALSE, accountSeen |-> FALSE, roles |-> {}, peerSince |-> FALSE]

Begin(t, x) ==
    /\ ~Running(threads[t]) /\ asked < MaxRequests
    /\ asked' = asked + 1
    /\ UNCHANGED <<controller, readOnly, issued, broken, acct, grants, cred, clock>>
    /\ Set(t, x)

\* With an access token of an earlier login.
BeginWithToken(t, who, repo) ==
    /\ controller.kind = "principal"
    /\ Live(who) /\ clock < AccessTTL
    /\ Begin(t, NewRequest("account", who, "token", repo))

\* In answer to a challenge: a login, and the call with the token it grants.
BeginLogin(t, who, secret, repo) ==
    /\ controller.kind = "principal"
    /\ Begin(t, NewRequest("login", who, secret, repo))

\* Without a token: withPrincipal passes the request on.
BeginAnonymous(t, repo) ==
    Begin(t, NewRequest("anonymous", CHOOSE a \in Account : TRUE, "none", repo))

-----------------------------------------------------------------------------
(* Logging in.                                                             *)

\* getActiveUserByUsername.  A disabled account is refused at once; a robot,
\* and a secret that is no password, are tried as a credential.
LoginWithPassword(t) ==
    LET x == threads[t]
    IN  /\ x.pc = "login" /\ Steady
        /\ IF Live(x.who) /\ ~acct[x.who].enabled THEN Refuse(t)
           ELSE IF ~Live(x.who) \/ x.who \in Robots \/ x.secret = "credential" THEN Goto(t, "relogin")
           ELSE Set(t, [x EXCEPT !.pc = "scopes", !.id = acct[x.who].id])

\* LoginWithPreissuedToken reads the account again ...
Relogin(t) ==
    LET x == threads[t]
    IN  /\ x.pc = "relogin" /\ Steady
        /\ IF Live(x.who) /\ acct[x.who].enabled
           THEN Set(t, [x EXCEPT !.pc = "credential", !.id = acct[x.who].id])
           ELSE Refuse(t)

\* ... then the credential, which must be that account's, and active.
GetCredential(t) ==
    LET x == threads[t]
        c == cred[x.who]
    IN  /\ x.pc = "credential" /\ Steady
        /\ IF x.secret = "credential" /\ c.id = x.id /\ ~c.revoked /\ clock < c.expires
           THEN Goto(t, "scopes") ELSE Refuse(t)

\* The client asks for the scope of the challenge; a session for the
\* administrative routes asks for none.
GrantScopes(t, op) ==
    LET x == threads[t]
    IN  /\ x.pc = "scopes" /\ Steady
        /\ Set(t, [x EXCEPT !.pc = "mint", !.op = op,
                            !.scope = grantedScopes(x.who, grants[x.who][x.repo],
                                             IF op \in Calls THEN Scope(V2[op].announces) ELSE {})])

\* issueAccessToken: a foreign key ties the row to the account.
issueAccessToken(t) ==
    LET x == threads[t]
    IN  /\ x.pc = "mint" /\ Steady
        /\ IF acct[x.who].id = x.id
           THEN Set(t, [x EXCEPT !.pc = "call", !.expires = clock + AccessTTL])
           ELSE Refuse(t)

-----------------------------------------------------------------------------
(* VerifyAccessToken, and what the route demands.                          *)

CallAnonymously(t, op) ==
    /\ threads[t].pc = "anonymous" /\ Steady
    /\ IF anonymousAuthorize(op) THEN Serve(t, op) ELSE Refuse(t)

\* The token's row goes with its account.
GetToken(t) ==
    LET x == threads[t]
    IN  /\ x.pc = "call" /\ Steady
        /\ IF acct[x.who].id = x.id /\ clock < x.expires THEN Goto(t, "account") ELSE Refuse(t)

\* Mutant: the account is not looked up again.
GetAccount_Trusted(t) ==
    /\ threads[t].pc = "account" /\ Steady
    /\ Goto(t, "grants")

GetAccount(t) ==
    LET x == threads[t]
    IN  /\ x.pc = "account" /\ Steady
        /\ IF AccountGood(x, acct[x.who]) THEN Goto(t, "grants") ELSE Refuse(t)

\* authorize of the service, requireAdminPrincipal, requireAdminOrRepoAdmin
\* with the bound on the role, or authorizeDeleteRepository.
Demanded(x) ==
    CASE x.op \in Calls -> principalAuthorize(x, V2[x.op].demands)
      [] x.op \in AdminOps -> x.who \in Admins
      [] x.op \in DelegatedOps -> isRepoAdmin(x) /\ (x.who \notin Admins => x.grant # "admin")
      [] x.op = "deleteRepository" -> isRepoAdmin(x)

\* The scopes of an access token, whatever roles its account had once.
TokenScopes(who) ==
    {{}} \cup {grantedScopes(who, role, Scope(V2[c].announces)) : c \in Calls, role \in Role}

\* What a request may ask for, with a token that may be good for something
\* else; a login has been for one call.
Asks(x) ==
    IF x.op \in Calls THEN {[op |-> x.op, scope |-> x.scope, grant |-> "none"]}
    ELSE {[op |-> "deleteRepository", scope |-> {}, grant |-> "none"]} \cup
         IF x.secret = "token" THEN [op : Calls, scope : TokenScopes(x.who), grant : {"none"}] ELSE {}

\* What an operator may ask for.
AdminAsks ==
    [op : {"putGrant", "putRepositoryGrant", "createRobot"}, scope : {{}}, grant : Role] \cup
    [op : (AdminOps \cup DelegatedOps) \ {"putGrant", "putRepositoryGrant", "createRobot"}, scope : {{}}, grant : {"none"}]

\* buildPrincipal: a principal whose grants cannot be read has none.
BuildPrincipal(t, ask, failed) ==
    LET x == [threads[t] EXCEPT !.role = IF failed THEN "none" ELSE grants[threads[t].who][threads[t].repo],
                                !.op = ask.op, !.scope = ask.scope, !.grant = ask.grant]
    IN  /\ x.pc = "grants" /\ Steady
        /\ IF ~Demanded(x) THEN (IF failed THEN GiveUp(t) ELSE Refuse(t))
           ELSE IF x.op \in AdminOps \cup DelegatedOps THEN Set(t, [x EXCEPT !.pc = "target"])
           ELSE Serve(t, x.op)

-----------------------------------------------------------------------------
(* Administration.                                                         *)

Another(a) == \E b \in Admins \ {a} : Live(b) /\ acct[b].enabled

\* The account in the path: by id, or by name for a delegate and a new robot.
GetTarget(t, a) ==
    LET x == [threads[t] EXCEPT !.target = a, !.targetId = acct[a].id]
    IN
    /\ x.pc = "target" /\ Steady
    /\ x.op = "createRobot" => a \in Robots
    /\ IF x.op = "createRobot"
       THEN IF Live(a) THEN Refuse(t) ELSE Set(t, [x EXCEPT !.pc = "insert"])
       ELSE IF \/ ~Live(a)
               \/ x.op = "createToken" /\ ~acct[a].enabled
               \/ x.op = "deleteRobot" /\ a \notin Robots
               \/ x.op = "disable" /\ a \in Admins /\ acct[a].enabled /\ ~Another(a)
       THEN Refuse(t)
       ELSE Set(t, [x EXCEPT !.pc = CASE x.op \in DelegatedOps /\ x.who \notin Admins -> "peer"
                                         [] x.op = "revokeToken" -> "accessor"
                                         [] OTHER -> "write"])

\* Mutant: the grant of a peer is not looked at.
CheckPeer_Skipped(t) ==
    /\ threads[t].pc = "peer" /\ Steady
    /\ Goto(t, "write")

\* A delegate may not touch the grant of another repository administrator.
CheckPeer(t) ==
    LET x == threads[t]
        admin == acct[x.target].id = x.targetId /\ AllowsAdmin(grants[x.target][x.repo])
    IN  /\ x.pc = "peer" /\ Steady
        /\ IF admin THEN Refuse(t) ELSE Goto(t, "write")

\* RevokeAdminUserToken: GetTokenByAccessor.
GetAccessor(t) ==
    LET x == threads[t]
    IN  /\ x.pc = "accessor" /\ Steady
        /\ IF cred[x.target].id = x.targetId THEN Goto(t, "write") ELSE Refuse(t)

\* One grant changes: a check of another delegate may be out of date now.
WriteGrant(t, a, r, role, next) ==
    /\ grants' = [grants EXCEPT ![a][r] = role]
    /\ UNCHANGED <<acct, cred, clock>>
    /\ threads' = Observe([u \in Thread |->
          LET y == threads[u]
          IN  IF u = t THEN next
              ELSE IF y.pc = "write" /\ y.target = a /\ y.repo = r /\ role = "admin"
              THEN [y EXCEPT !.peerSince = TRUE] ELSE y])

\* Mutant: no foreign key ties a row to the account it names.
SameRow_Name(x) == TRUE

\* The row with the id that was read is there: a foreign key, a WHERE clause.
SameRow(x) == acct[x.target].id = x.targetId

PutRepoGrant(t) ==
    LET x == threads[t]
    IN  /\ x.pc = "write" /\ x.op \in {"putGrant", "putRepositoryGrant"} /\ Fixed
        /\ SameRow(x)
        /\ WriteGrant(t, x.target, x.repo, x.grant, [Quiet EXCEPT !.served = x.op])

DeleteRepoGrant(t) ==
    LET x == threads[t]
    IN  /\ x.pc = "write" /\ x.op \in {"deleteGrant", "deleteRepositoryGrant"} /\ Fixed
        /\ SameRow(x) /\ grants[x.target][x.repo] # "none"
        /\ WriteGrant(t, x.target, x.repo, "none", [Quiet EXCEPT !.served = x.op])

\* A lifetime beyond thirty days is refused before anything is written.
CreateToken(t) ==
    LET x == threads[t]
    IN  /\ x.pc = "write" /\ x.op = "createToken" /\ Fixed
        /\ SameRow(x) /\ cred[x.target] = NoCred
        /\ cred' = [cred EXCEPT ![x.target] = [id |-> x.targetId, expires |-> clock + CredentialTTL, revoked |-> FALSE]]
        /\ UNCHANGED <<acct, grants, clock>>
        /\ Serve(t, x.op)

RevokeTokenByAccessor(t) ==
    LET x == threads[t]
    IN  /\ x.pc = "write" /\ x.op = "revokeToken" /\ Fixed
        /\ cred[x.target].id = x.targetId /\ ~cred[x.target].revoked
        /\ cred' = [cred EXCEPT ![x.target].revoked = TRUE]
        /\ UNCHANGED <<acct, grants, clock>>
        /\ Serve(t, x.op)

\* DeleteUser is one transaction over the three tables.
DeleteRobot(t) ==
    LET x == threads[t]
        a == x.target
    IN  /\ x.pc = "write" /\ x.op = "deleteRobot"
        /\ SameRow(x)
        /\ acct' = [acct EXCEPT ![a] = NoAccount]
        /\ grants' = [grants EXCEPT ![a] = NoGrants]
        /\ cred' = [cred EXCEPT ![a] = NoCred]
        /\ broken' = broken \ {a}
        /\ UNCHANGED <<controller, readOnly, issued, asked, clock>>
        /\ Serve(t, x.op)

\* SetUserEnabled writes the whole row it read; a row that is gone comes back.
SetUserEnabled(t) ==
    LET x == threads[t]
        a == x.target
    IN  /\ x.pc = "write" /\ x.op \in {"enable", "disable"}
        /\ acct[a].id \in {0, x.targetId}
        /\ acct' = [acct EXCEPT ![a] = [id |-> x.targetId, enabled |-> x.op = "enable"]]
        /\ broken' = IF Live(a) THEN broken ELSE broken \cup {a}
        /\ UNCHANGED <<controller, readOnly, issued, asked, grants, cred, clock>>
        /\ Serve(t, x.op)

\* The write finds no row, or a constraint in its way.
WriteRefused(t) ==
    LET x == threads[t]
    IN  /\ x.pc = "write" /\ Steady
        /\ \/ x.op \in {"putGrant", "putRepositoryGrant"} /\ ~SameRow(x)
           \/ x.op \in {"deleteGrant", "deleteRepositoryGrant"}
              /\ (~SameRow(x) \/ grants[x.target][x.repo] = "none")
           \/ x.op = "createToken" /\ ~SameRow(x)
           \/ x.op = "revokeToken" /\ (cred[x.target].id # x.targetId \/ cred[x.target].revoked)
           \/ x.op = "deleteRobot" /\ ~SameRow(x)
           \/ x.op \in {"enable", "disable"} /\ acct[x.target].id \notin {0, x.targetId}
        /\ Refuse(t)

\* CreateRobot: the account, its grant, the account again, its credential.
InsertRobot(t) ==
    LET x == threads[t]
    IN  /\ x.pc = "insert"
        /\ IF Live(x.target) THEN Steady /\ Refuse(t)
           ELSE /\ acct' = [acct EXCEPT ![x.target] = [id |-> issued + 1, enabled |-> TRUE]]
                /\ issued' = issued + 1
                /\ UNCHANGED <<controller, readOnly, asked, broken, grants, cred, clock>>
                /\ Set(t, [x EXCEPT !.pc = "robotGrant", !.targetId = issued + 1])

\* A creation that cannot go on leaves what it has written.
LeaveRobot(t) ==
    /\ broken' = IF SameRow(threads[t]) THEN broken \cup {threads[t].target} ELSE broken
    /\ UNCHANGED <<controller, readOnly, issued, asked>> /\ UNCHANGED world
    /\ Refuse(t)

GrantRobot(t) ==
    LET x == threads[t]
    IN  /\ x.pc = "robotGrant"
        /\ IF ~SameRow(x) THEN LeaveRobot(t)
           ELSE Fixed /\ WriteGrant(t, x.target, x.repo, x.grant, [x EXCEPT !.pc = "robotAccount"])

\* Mutant: an account disabled meanwhile gets no credential, and that is all.
GetRobot_Skip(t, tooLong) ==
    LET x == threads[t]
    IN  /\ x.pc = "robotAccount"
        /\ IF ~SameRow(x) \/ tooLong THEN LeaveRobot(t)
           ELSE IF ~acct[x.target].enabled THEN Steady /\ Serve(t, x.op)
           ELSE Steady /\ Goto(t, "robotToken")

\* CreateAdminToken: the account is read back, then the lifetime is checked.
GetRobot(t, tooLong) ==
    LET x == threads[t]
    IN  /\ x.pc = "robotAccount"
        /\ IF ~SameRow(x) \/ ~acct[x.target].enabled \/ tooLong THEN LeaveRobot(t)
           ELSE Steady /\ Goto(t, "robotToken")

CreateRobotToken(t) ==
    LET x == threads[t]
    IN  /\ x.pc = "robotToken"
        /\ IF ~SameRow(x) THEN LeaveRobot(t)
           ELSE /\ cred[x.target] = NoCred
                /\ cred' = [cred EXCEPT ![x.target] = [id |-> x.targetId, expires |-> clock + CredentialTTL, revoked |-> FALSE]]
                /\ Fixed /\ UNCHANGED <<acct, grants, clock>>
                /\ Serve(t, x.op)

\* A call of the store fails: the request ends where it is.
Cut(t) ==
    LET x == threads[t]
    IN  /\ Running(x)
        /\ broken' = IF x.pc \in {"robotGrant", "robotAccount", "robotToken"} /\ SameRow(x)
                     THEN broken \cup {x.target} ELSE broken
        /\ UNCHANGED <<controller, readOnly, issued, asked>> /\ UNCHANGED world
        /\ GiveUp(t)

Tick ==
    /\ clock < MaxTime
    /\ clock' = clock + 1
    /\ Fixed /\ UNCHANGED <<acct, grants, cred>>
    /\ threads' = Observe(threads)

-----------------------------------------------------------------------------
\* Operators keep a session open: their requests come with its token.
AccessStart(t) ==
    \E repo \in Repo :
        \/ t \in Client /\ BeginAnonymous(t, repo)
        \/ \E who \in Account :
              \/ BeginWithToken(t, who, repo)
              \/ \E secret \in {"password", "credential"} : t \in Client /\ BeginLogin(t, who, secret, repo)

AccessStep(t) ==
    \/ \E op \in Calls \cup {"deleteRepository"} : CallAnonymously(t, op)
    \/ LoginWithPassword(t) \/ Relogin(t) \/ GetCredential(t) \/ (\E op \in Calls \cup {"none"} : GrantScopes(t, op)) \/ issueAccessToken(t)
    \/ GetToken(t) \/ GetAccount(t)
    \/ /\ threads[t].pc = "grants"
       /\ \E ask \in IF t \in Client THEN Asks(threads[t]) ELSE AdminAsks, failed \in BOOLEAN :
             BuildPrincipal(t, ask, failed)
    \/ (\E a \in Account : GetTarget(t, a)) \/ CheckPeer(t) \/ GetAccessor(t)
    \/ PutRepoGrant(t) \/ DeleteRepoGrant(t) \/ CreateToken(t)
    \/ RevokeTokenByAccessor(t) \/ DeleteRobot(t) \/ SetUserEnabled(t) \/ WriteRefused(t)
    \/ InsertRobot(t) \/ GrantRobot(t) \/ \E tooLong \in BOOLEAN : GetRobot(t, tooLong)
    \/ CreateRobotToken(t) \/ Cut(t)

AccessInit ==
    /\ controller \in [kind : {"principal", "local"}, flags : {{}}]
                        \cup [kind : {"configurable"}, flags : SUBSET {"pull", "push"}]
    /\ readOnly \in SUBSET (Account \ (Admins \cup Robots))
    /\ \E robots \in SUBSET Robots :
          /\ acct = [a \in Account |-> IF a \in Robots \ robots THEN NoAccount ELSE [id |-> 1, enabled |-> TRUE]]
          /\ grants \in [Account -> [Repo -> InitialRole]]
          /\ \A a \in Account : ~Live(a) \/ a \in Admins => grants[a] = NoGrants
          /\ controller.kind # "principal" =>   \* no accounts are looked at
                robots = {} /\ readOnly = {} /\ \A a \in Account : grants[a] = NoGrants
          /\ cred = [a \in Account |-> IF a \in robots THEN [id |-> 1, expires |-> CredentialTTL, revoked |-> FALSE]
                                       ELSE NoCred]
    /\ clock = 0 /\ issued = 1 /\ asked = 0 /\ broken = {}
    /\ threads = [t \in Thread |-> Quiet]

AccessNext == (\E t \in Thread : AccessStart(t) \/ AccessStep(t)) \/ Tick

AccessSpec == AccessInit /\ [][AccessNext]_accessVars

-----------------------------------------------------------------------------
(* Properties.                                                             *)

\* The rows name accounts that exist, whatever overlaps with the deletion of
\* a robot.  (store.go DeleteUser, migrations.go FOREIGN KEY)
RowsHaveOwners ==
    \A a \in Account :
        /\ ~Live(a) => grants[a] = NoGrants
        /\ cred[a].id \in {0, acct[a].id}

Served(t) == Running(threads[t]) /\ ~Running(threads'[t]) /\ threads'[t].served \in Ops
Refused(t) == Running(threads[t]) /\ ~Running(threads'[t]) /\ threads'[t].served = "refused"

\* What a registry that is open to anybody lets anybody do: never delete, never
\* administer, write only where pushing is open.
OpenToAnybody(op) ==
    /\ op \in Calls \ {"deleteManifest"}
    /\ op \in {"startUpload", "upload", "putManifest"} => "push" \in controller.flags
    /\ op \notin {"startUpload", "upload", "putManifest"} => "pull" \in controller.flags

\* A request is served only if, since it began, its secret was good, its
\* account enabled and its role sufficient, each at some moment; without a
\* token, at the console or where the registry is open to anybody.  (service.go
\* VerifyAccessToken, LoginWithPreissuedToken; defaults.go Authorize)
ServedExplained ==
    [][\A t \in Thread : LET x == threads[t] IN
         Served(t) =>
            IF x.secret = "none"
            THEN controller.kind = "local" \/ (controller.kind = "configurable" /\ OpenToAnybody(threads'[t].served))
            ELSE x.secretSeen /\ x.accountSeen /\ \E role \in x.roles : Entitled(x.who, threads'[t].served, role)]_accessVars

\* A client that does what the challenge says is served if it has the right:
\* with nothing changing meanwhile a refusal means that the secret is wrong,
\* the account disabled, or its role too small.  (regixtry.go Action.Scope,
\* service.go grantedScopes, router.go challengeForError)
ChallengeSuffices ==
    [][\A t \in Thread : LET x == threads[t] IN
         Refused(t) /\ x.calm /\ x.op \in Calls /\ x.secret \in {"password", "credential"} =>
            ~SecretGood(x, cred[x.who], clock) \/ ~AccountGood(x, acct[x.who]) \/ ~Entitled(x.who, x.op, grants[x.who][x.repo])]_accessVars

\* A login grants no action that the account's role did not cover at some
\* moment of it.  (service.go intersectRequestedActions)
ScopesWithinRights ==
    \A t \in Thread : LET x == threads[t] IN
        x.pc \in {"mint", "call"} =>
            \A action \in x.scope \ {"catalog"} :
                \E role \in x.roles \cup {grants[x.who][x.repo]} : Allowed(x.who, action, role)

\* No login and no delegate gains more than is theirs to have.
\* Only a global administrator makes somebody a repository administrator,
\* and a delegate replaces or removes the grant of one only if that grant
\* was made after the delegate looked.  (service.go PutRepositoryGrant,
\* DeleteRepositoryGrant)
EscalationBounds ==
    [][ScopesWithinRights' /\ \A t \in Thread, a \in Account, r \in Repo :
         ( /\ Running(threads[t]) /\ threads'[t].pc # threads[t].pc
           /\ grants'[a][r] # grants[a][r] /\ threads[t].who \notin Admins ) =>
              /\ grants'[a][r] # "admin"
              /\ grants[a][r] = "admin" => threads[t].peerSince]_accessVars

\* A robot without a credential is one whose creation is under way, failed
\* half way, or came back by a late write after it was deleted.
\* (service.go CreateRobot, SetUserEnabled)
HalfRobotsExplained ==
    \A a \in Robots : Live(a) /\ cred[a] = NoCred =>
        \/ a \in broken
        \/ \E t \in Thread : /\ threads[t].pc \in {"robotGrant", "robotAccount", "robotToken"}
                             /\ threads[t].target = a

\* A robot is there whole or not at all: no row without its account, and no
\* account without its credential but for the cases above.
RobotsWhole == RowsHaveOwners /\ HalfRobotsExplained
=============================================================================
