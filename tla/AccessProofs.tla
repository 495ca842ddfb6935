---------------------------- MODULE AccessProofs ----------------------------
(***************************************************************************)
(* Theorems about Access, Routes and UserAdmin, for any accounts, names    *)
(* and requests: what a served request was entitled to, that a challenge   *)
(* asks for enough, what logins and delegates may gain, that robots are    *)
(* whole, what it takes to lock everybody out or to lose an update, and    *)
(* that a path leads to the repository it was built for.                   *)
(*                                                                         *)
(* The argument.  A request carries what it has seen: that its secret and  *)
(* its account were good once and the roles it found.  Each of its steps   *)
(* rests on one of them, and no step of another request takes them away.   *)
(***************************************************************************)
EXTENDS Access, Routes, UserAdmin, TLAPS

-----------------------------------------------------------------------------
(***************************************************************************)
(* The inductive invariant.                                                *)
(***************************************************************************)
Roles  == Role \cup {"none"}
Action == {"catalog", "pull", "push", "delete"}
Verb   == {"catalog", "pull", "inspect", "push", "delete"}

RobotPc  == {"robotGrant", "robotAccount", "robotToken"}
TargetPc == {"peer", "accessor", "write"} \cup RobotPc
AdminPc  == {"target", "insert"} \cup TargetPc
Admitted == {"grants"} \cup AdminPc
Verified == {"scopes", "mint", "call", "account"} \cup Admitted
Pc       == {"anonymous", "login", "relogin", "credential"} \cup Verified

AccessRequest ==
    [pc : Pc, who : Account, secret : {"none", "token", "password", "credential"}, repo : Repo,
     id : Nat, op : Ops \cup {"none"}, scope : SUBSET Action, expires : Nat, role : Roles,
     grant : Roles, target : Account, targetId : Nat, calm : BOOLEAN, secretSeen : BOOLEAN,
     accountSeen : BOOLEAN, roles : SUBSET Roles, peerSince : BOOLEAN]

Answer == [pc : {"idle"}, served : Ops \cup {"none", "refused"}]

AccessTypes ==
    /\ readOnly \subseteq Account \ Admins
    /\ acct \in [Account -> [id : Nat, enabled : BOOLEAN]]
    /\ grants \in [Account -> [Repo -> Roles]]
    /\ cred \in [Account -> [id : Nat, expires : Nat, revoked : BOOLEAN]]
    /\ clock \in Nat /\ issued \in Nat
    /\ threads \in [Thread -> AccessRequest \cup Answer]

\* Where a request is and what it has passed, if s and a say that its secret
\* and its account were seen good, and R has the roles it found.
Passed(x, s, a, R) ==
    /\ x.secret = "none" <=> x.pc = "anonymous"
    /\ x.pc \in {"login", "relogin", "credential"} => x.secret \in {"password", "credential"}
    /\ x.pc \in Verified => s
    /\ x.pc \in Admitted => a
    /\ x.who \in readOnly => x.scope \cap {"push", "delete"} = {}
    /\ x.pc \in {"mint", "call"} =>
         \A action \in x.scope \ {"catalog"} : \E role \in R : Allowed(x.who, action, role)
    /\ x.pc \notin AdminPc => x.op \in Calls \cup {"none"}
    /\ x.pc \in AdminPc => /\ x.op \in AdminOps \cup DelegatedOps
                           /\ x.op \in AdminOps => x.who \in Admins
                           /\ x.who \in Admins \/ ("admin" \in R /\ x.grant # "admin")
    /\ x.pc \in {"insert"} \cup RobotPc => x.op = "createRobot"
    /\ x.pc = "accessor" => x.op = "revokeToken"
    /\ x.pc \in {"login", "relogin", "credential", "scopes"} => x.op = "none"
    /\ x.pc \in TargetPc => x.targetId # 0

\* What a request that nothing overtook knows of accounts A, grants G, time T.
UpToDate(x, calm, A, G, T) ==
    calm => /\ x.id = A[x.who].id
            /\ x.pc \in {"mint", "call", "account", "grants"} /\ x.op \in Calls =>
                 x.scope = grantedScopes(x.who, G[x.who][x.repo], Scope(V2[x.op].announces))
            /\ x.pc = "call" => x.expires = T + AccessTTL

\* A delegate about to write over an administrator's grant looked before it was made.
PeerChecked(x, A, G) ==
    /\ x.pc = "write" /\ x.op \in DelegatedOps /\ x.who \notin Admins
    /\ A[x.target].id = x.targetId /\ G[x.target][x.repo] = "admin"
    => x.peerSince

Sound(x) ==
    /\ Passed(x, x.secretSeen, x.accountSeen, x.roles)
    /\ grants[x.who][x.repo] \in x.roles
    /\ UpToDate(x, x.calm, acct, grants, clock)
    /\ PeerChecked(x, acct, grants)

RequestsSound == \A t \in Thread : threads[t] \in AccessRequest => Sound(threads[t])

\* A robot without a credential is being created, by the request that made this very row, or broken.
HalfRobots ==
    \A a \in Robots : Live(a) /\ cred[a] = NoCred =>
        \/ a \in broken
        \/ \E t \in Thread : /\ threads[t] \in AccessRequest /\ threads[t].pc \in RobotPc
                             /\ threads[t].target = a /\ threads[t].targetId = acct[a].id

IInv == AccessTypes /\ RequestsSound /\ RowsHaveOwners /\ HalfRobots

-----------------------------------------------------------------------------
(***************************************************************************)
(* Operations, scopes and rights.                                          *)
(***************************************************************************)

(* A handler announces what the service demands.                           *)
LEMMA Announced ==
    ASSUME NEW op \in Calls
    PROVE  V2[op].announces = V2[op].demands /\ V2[op].demands \in Verb
<1>1. op \in {"catalog", "startUpload", "upload", "blob", "getManifest", "putManifest",
              "deleteManifest", "status", "tags", "referrers"}
  BY DEF Calls, V2
<1>2. handleManifest("GET") = [announces |-> "pull", demands |-> "pull"]
  BY DEF handleManifest
<1>3. handleManifest("PUT") = [announces |-> "push", demands |-> "push"]
  BY DEF handleManifest
<1>4. handleManifest("DELETE") = [announces |-> "delete", demands |-> "delete"]
  BY DEF handleManifest
<1> QED
  BY <1>1, <1>2, <1>3, <1>4
     DEF V2, Verb, handleCatalog, handleUploadStart, handleUploadState, handleBlobRead, handleTags,
         handleReferrers, handleManifestScanStatus

(* No operation is of two kinds, and none is called "none" or "refused".   *)
LEMMA Kinds ==
    /\ Calls \cap (AdminOps \cup DelegatedOps) = {} /\ "deleteRepository" \notin Calls
    /\ "deleteRepository" \notin AdminOps \cup DelegatedOps
    /\ AdminOps \cap DelegatedOps = {}
    /\ {"none", "refused"} \cap Ops = {}
    /\ AdminOps = {"putGrant", "deleteGrant", "createToken", "revokeToken", "createRobot",
                   "deleteRobot", "enable", "disable"}
    /\ DelegatedOps = {"putRepositoryGrant", "deleteRepositoryGrant"}
    /\ Ops = Calls \cup AdminOps \cup DelegatedOps \cup {"deleteRepository"}
<1>1. Calls = {"catalog", "startUpload", "upload", "blob", "getManifest", "putManifest",
               "deleteManifest", "status", "tags", "referrers"}
  BY DEF Calls, V2
<1>2. AdminOps = {"putGrant", "deleteGrant", "createToken", "revokeToken", "createRobot",
                  "deleteRobot", "enable", "disable"}
  BY DEF AdminOps, handleAdminUserGrantResource, handleAdminUserTokensCollection,
         handleAdminUserTokenResource, handleAdminRobotsCollection, handleAdminRobotResource,
         handleAdminUserEnablement
<1>3. DelegatedOps = {"putRepositoryGrant", "deleteRepositoryGrant"}
  BY DEF DelegatedOps, handleAdminRepositoryGrantResource
<1>4. Ops = Calls \cup AdminOps \cup DelegatedOps \cup {"deleteRepository"}
  BY DEF Ops, handleAdminRepositoryDeleteResource
<1> QED
  BY <1>1, <1>2, <1>3, <1>4

(* A login grants what was asked for and the role covers.                  *)
LEMMA Granted ==
    ASSUME readOnly \subseteq Account \ Admins, NEW who \in Account, NEW role \in Roles,
           NEW wanted \in SUBSET Action
    PROVE  /\ grantedScopes(who, role, wanted) \in SUBSET Action
           /\ who \in readOnly => grantedScopes(who, role, wanted) \cap {"push", "delete"} = {}
           /\ \A action \in grantedScopes(who, role, wanted) \ {"catalog"} :
                Allowed(who, action, role)
<1>1. grantedScopes(who, role, wanted) \in SUBSET wanted
  BY DEF grantedScopes, intersectRequestedActions
<1>2. who \in readOnly => grantedScopes(who, role, wanted) \cap {"push", "delete"} = {}
  BY DEF grantedScopes, intersectRequestedActions
<1>3. ASSUME NEW action \in grantedScopes(who, role, wanted) \ {"catalog"}
      PROVE  Allowed(who, action, role)
  <2>1. action \in {"pull", "push", "delete"}
    BY <1>1 DEF Action
  <2>2. action \in intersectRequestedActions(who, role, wanted \ {"catalog"})
    BY <1>3 DEF grantedScopes
  <2>3. CASE action = "pull"
    BY <2>2, <2>3 DEF intersectRequestedActions, Allowed, AllowsRead
  <2>4. CASE action # "pull"
    BY <2>1, <2>2, <2>4 DEF intersectRequestedActions, Allowed, AllowsWrite
  <2> QED
    BY <2>3, <2>4
<1> QED
  BY <1>1, <1>2, <1>3

(* The scope of a challenge, and those of a token.                         *)
LEMMA ScopeTypes ==
    ASSUME readOnly \subseteq Account \ Admins, NEW who \in Account
    PROVE  /\ \A op \in Calls : Scope(V2[op].announces) \in SUBSET Action
           /\ \A s \in TokenScopes(who) : /\ s \in SUBSET Action
                                          /\ who \in readOnly => s \cap {"push", "delete"} = {}
<1>1. ASSUME NEW op \in Calls PROVE Scope(V2[op].announces) \in SUBSET Action
  BY Announced DEF Scope, Action, Verb
<1>2. ASSUME NEW s \in TokenScopes(who)
      PROVE  s \in SUBSET Action /\ (who \in readOnly => s \cap {"push", "delete"} = {})
  <2>1. CASE s = {}
    BY <2>1
  <2>2. CASE \E c \in Calls, role \in Role : s = grantedScopes(who, role, Scope(V2[c].announces))
    BY <1>1, <2>2, Granted DEF Roles
  <2> QED
    BY <1>2, <2>1, <2>2 DEF TokenScopes
<1> QED
  BY <1>1, <1>2

(* What is let through is allowed.                                         *)
LEMMA LetThrough ==
    ASSUME readOnly \subseteq Account \ Admins, NEW x, x.who \in Account, NEW verb \in Verb,
           x.who \in readOnly => x.scope \cap {"push", "delete"} = {},
           principalAuthorize(x, verb)
    PROVE  Allowed(x.who, verb, x.role)
<1>1. CASE verb = "catalog"
  BY <1>1 DEF Allowed
<1>2. CASE verb \in {"pull", "inspect"}
  BY <1>2 DEF principalAuthorize, Allowed, hasReadGrant, AllowsRead
<1>3. CASE verb \in {"push", "delete"}
  BY <1>3 DEF principalAuthorize, Allowed, hasWriteGrant, AllowsWrite, scopeAllows
<1> QED
  BY <1>1, <1>2, <1>3 DEF Verb

(* What is allowed is let through with the scope of the challenge.         *)
LEMMA ChallengeScope ==
    ASSUME readOnly \subseteq Account \ Admins, NEW x, NEW verb \in Verb,
           x.scope = grantedScopes(x.who, x.role, Scope(verb)), Allowed(x.who, verb, x.role)
    PROVE  principalAuthorize(x, verb)
<1>1. CASE verb = "catalog"
  <2>1. "catalog" \in x.scope
    BY <1>1 DEF Scope, grantedScopes
  <2> QED
    BY <1>1, <2>1 DEF principalAuthorize
<1>2. CASE verb \in {"pull", "inspect"}
  <2>1. Scope(verb) = {"pull"}
    BY <1>2 DEF Scope
  <2>2. x.who \in Admins \cup readOnly \/ x.role \in Role
    BY <1>2 DEF Allowed
  <2>3. "pull" \in x.scope
    BY <2>1, <2>2 DEF grantedScopes, intersectRequestedActions, AllowsRead
  <2> QED
    BY <1>2, <2>2, <2>3 DEF principalAuthorize, hasReadGrant, AllowsRead, scopeAllows
<1>3. CASE verb \in {"push", "delete"}
  <2>1. verb \in Scope(verb)
    BY <1>3 DEF Scope
  <2>2. x.who \in Admins \/ (x.who \notin readOnly /\ x.role \in {"writer", "admin"})
    BY <1>3 DEF Allowed
  <2>3. verb \in x.scope
    BY <1>3, <2>1, <2>2 DEF grantedScopes, intersectRequestedActions, AllowsWrite
  <2> QED
    BY <1>3, <2>2, <2>3 DEF principalAuthorize, hasWriteGrant, AllowsWrite, scopeAllows
<1> QED
  BY <1>1, <1>2, <1>3 DEF Verb

(* Without the grants nobody is let through who needs one.                 *)
LEMMA AllowedWithoutGrant ==
    ASSUME NEW who, NEW verb \in Verb, Allowed(who, verb, "none"), NEW role
    PROVE  Allowed(who, verb, role)
<1>1. "none" \notin Role
  BY DEF Role
<1> QED
  BY <1>1 DEF Allowed, Verb

-----------------------------------------------------------------------------
(***************************************************************************)
(* What observing a step does to the requests.                             *)
(***************************************************************************)

\* y is x with its step gone further in what it has seen.
Same(y, x) ==
    /\ y.pc = x.pc /\ y.who = x.who /\ y.secret = x.secret /\ y.repo = x.repo /\ y.id = x.id
    /\ y.op = x.op /\ y.scope = x.scope /\ y.expires = x.expires /\ y.role = x.role
    /\ y.grant = x.grant /\ y.target = x.target /\ y.targetId = x.targetId
    /\ y.peerSince = x.peerSince

Observed(y, x) ==
    /\ y \in AccessRequest /\ Same(y, x)
    /\ y.calm = (x.calm /\ UNCHANGED world)
    /\ y.secretSeen = (x.secretSeen \/ SecretGood(x, cred'[x.who], clock'))
    /\ y.accountSeen = (x.accountSeen \/ AccountGood(x, acct'[x.who]))
    /\ y.roles = x.roles \cup {grants'[x.who][x.repo]}

\* x keeps the invariant once the step is observed.
Ready(x) ==
    /\ Passed(x, x.secretSeen \/ SecretGood(x, cred'[x.who], clock'),
                 x.accountSeen \/ AccountGood(x, acct'[x.who]),
                 x.roles \cup {grants'[x.who][x.repo]})
    /\ UpToDate(x, x.calm /\ UNCHANGED world, acct', grants', clock')
    /\ PeerChecked(x, acct', grants')

(* A request is running and an answer is not.                              *)
LEMMA RunningIs ==
    /\ \A x \in AccessRequest : Running(x) /\ x.pc # "idle" /\ x \notin Answer
    /\ \A x \in Answer : ~Running(x) /\ x.pc = "idle" /\ x \notin AccessRequest
BY DEF AccessRequest, Answer, Running, Pc, Verified, Admitted, AdminPc, TargetPc, RobotPc

(* The answers of the server.                                              *)
LEMMA Answers ==
    /\ Quiet \in Answer /\ [Quiet EXCEPT !.served = "refused"] \in Answer
    /\ [Quiet EXCEPT !.served = "refused"].served = "refused" /\ Quiet.served = "none"
    /\ \A op \in Ops \cup {"none"} : /\ [Quiet EXCEPT !.served = op] \in Answer
                                    /\ [Quiet EXCEPT !.served = op].served = op
BY DEF Quiet, Answer

(* What Observe makes of every thread.                                      *)
LEMMA ObserveAll ==
    ASSUME NEW ts \in [Thread -> AccessRequest \cup Answer], threads' = Observe(ts),
           grants' \in [Account -> [Repo -> Roles]]
    PROVE  /\ threads' \in [Thread -> AccessRequest \cup Answer]
           /\ \A t \in Thread : ts[t] \in Answer => threads'[t] = ts[t]
           /\ \A t \in Thread : ts[t] \in AccessRequest => Observed(threads'[t], ts[t])
<1>1. ASSUME NEW t \in Thread, ts[t] \in Answer PROVE threads'[t] = ts[t]
  BY <1>1, RunningIs DEF Observe
<1>2. ASSUME NEW t \in Thread, ts[t] \in AccessRequest PROVE Observed(threads'[t], ts[t])
  <2> DEFINE x == ts[t]
             p == x.calm /\ UNCHANGED world
             q == x.secretSeen \/ SecretGood(x, cred'[x.who], clock')
             r == x.accountSeen \/ AccountGood(x, acct'[x.who])
             R == x.roles \cup {grants'[x.who][x.repo]}
  <2>1. threads'[t] = [x EXCEPT !.calm = p, !.secretSeen = q, !.accountSeen = r, !.roles = R]
    BY <1>2, RunningIs DEF Observe
  <2>2. PICK p1 \in BOOLEAN, q1 \in BOOLEAN, r1 \in BOOLEAN : p1 = p /\ q1 = q /\ r1 = r
    OBVIOUS
  <2>3. R \in SUBSET Roles /\ x \in AccessRequest
    BY <1>2 DEF AccessRequest
  <2>4. threads'[t] = [x EXCEPT !.calm = p1, !.secretSeen = q1, !.accountSeen = r1, !.roles = R]
    BY <2>1, <2>2
  <2> HIDE DEF x, p, q, r, R
  <2>5. /\ threads'[t] \in AccessRequest /\ Same(threads'[t], x)
        /\ threads'[t].calm = p1 /\ threads'[t].secretSeen = q1
        /\ threads'[t].accountSeen = r1 /\ threads'[t].roles = R
    BY <2>3, <2>4 DEF AccessRequest, Same
  <2> QED
    BY <2>2, <2>5 DEF Observed, x, p, q, r, R
<1>3. DOMAIN threads' = Thread /\ threads' = [t \in Thread |-> threads'[t]]
  BY DEF Observe
<1>4. \A t \in Thread : threads'[t] \in AccessRequest \cup Answer
  BY <1>1, <1>2 DEF Observed
<1> QED
  BY <1>1, <1>2, <1>3, <1>4

(* The invariant of one request after the step is observed.                *)
LEMMA ObservedSound ==
    ASSUME UNCHANGED readOnly, NEW t \in Thread, NEW x \in AccessRequest, Observed(threads'[t], x), Ready(x)
    PROVE  Sound(threads[t])'
<1> DEFINE y == threads'[t]
<1>1. /\ Same(y, x) /\ y.calm = (x.calm /\ UNCHANGED world)
      /\ y.secretSeen = (x.secretSeen \/ SecretGood(x, cred'[x.who], clock'))
      /\ y.accountSeen = (x.accountSeen \/ AccountGood(x, acct'[x.who]))
      /\ y.roles = x.roles \cup {grants'[x.who][x.repo]}
  BY DEF Observed
<1>1a. \A who, verb, role : Allowed(who, verb, role)' <=> Allowed(who, verb, role)
  BY DEF Allowed
<1>2. Passed(threads[t], threads[t].secretSeen, threads[t].accountSeen, threads[t].roles)'
  <2>1. Passed(x, y.secretSeen, y.accountSeen, y.roles)
    BY <1>1 DEF Ready, Passed
  <2>2. /\ y.secret = "none" <=> y.pc = "anonymous"
        /\ y.pc \in {"login", "relogin", "credential"} => y.secret \in {"password", "credential"}
        /\ y.pc \in Verified => y.secretSeen
        /\ y.pc \in Admitted => y.accountSeen
        /\ y.pc \notin AdminPc => y.op \in Calls \cup {"none"}
        /\ y.pc \in AdminPc => /\ y.op \in AdminOps \cup DelegatedOps
                               /\ y.op \in AdminOps => y.who \in Admins
                               /\ y.who \in Admins \/ ("admin" \in y.roles /\ y.grant # "admin")
        /\ y.pc \in {"insert"} \cup RobotPc => y.op = "createRobot"
        /\ y.pc = "accessor" => y.op = "revokeToken"
        /\ y.pc \in {"login", "relogin", "credential", "scopes"} => y.op = "none"
        /\ y.pc \in TargetPc => y.targetId # 0
    BY <1>1, <2>1 DEF Same, Passed
  <2>3. y.who \in readOnly' => y.scope \cap {"push", "delete"} = {}
    BY <1>1, <2>1 DEF Same, Passed
  <2>4. y.pc \in {"mint", "call"} =>
          \A action \in y.scope \ {"catalog"} : \E role \in y.roles : Allowed(threads[t].who, action, role)'
    BY <1>1, <1>1a, <2>1 DEF Same, Passed
  <2> QED
    BY <2>2, <2>3, <2>4 DEF Passed
<1>3. UpToDate(threads[t], threads[t].calm, acct, grants, clock)'
  BY <1>1, ZenonT(60) DEF Same, Ready, UpToDate, grantedScopes, intersectRequestedActions
<1>4. PeerChecked(threads[t], acct, grants)'
  BY <1>1 DEF Same, Ready, PeerChecked
<1>5. grants'[y.who][y.repo] \in y.roles
  BY <1>1 DEF Same
<1> QED
  BY <1>2, <1>3, <1>4, <1>5 DEF Sound

(* Every thread after a step.                                              *)
LEMMA Observing ==
    ASSUME UNCHANGED readOnly, grants' \in [Account -> [Repo -> Roles]],
           NEW ts \in [Thread -> AccessRequest \cup Answer], threads' = Observe(ts),
           \A t \in Thread : ts[t] \in AccessRequest => Ready(ts[t])
    PROVE  threads' \in [Thread -> AccessRequest \cup Answer] /\ RequestsSound'
<1>1. /\ threads' \in [Thread -> AccessRequest \cup Answer]
      /\ \A t \in Thread : ts[t] \in Answer => threads'[t] = ts[t]
      /\ \A t \in Thread : ts[t] \in AccessRequest => Observed(threads'[t], ts[t])
  BY ObserveAll
<1>2. ASSUME NEW t \in Thread, threads'[t] \in AccessRequest PROVE Sound(threads[t])'
  <2>1. ts[t] \in AccessRequest
    BY <1>1, <1>2, RunningIs
  <2> QED
    BY <1>1, <2>1, ObservedSound
<1> QED
  BY <1>1, <1>2 DEF RequestsSound

(* A request that another one's step leaves alone.                         *)
LEMMA StillReady ==
    ASSUME NEW x \in AccessRequest, Sound(x), PeerChecked(x, acct', grants')
    PROVE  Ready(x)
<1>1. Passed(x, x.secretSeen \/ SecretGood(x, cred'[x.who], clock'),
                x.accountSeen \/ AccountGood(x, acct'[x.who]),
                x.roles \cup {grants'[x.who][x.repo]})
  BY DEF Sound, Passed
<1>2. UpToDate(x, x.calm /\ UNCHANGED world, acct', grants', clock')
  BY DEF Sound, UpToDate, world
<1> QED
  BY <1>1, <1>2 DEF Ready

(* A step that keeps the rows together and every request ready.            *)
LEMMA GeneralStep ==
    ASSUME IInv, UNCHANGED readOnly, acct' \in [Account -> [id : Nat, enabled : BOOLEAN]],
           grants' \in [Account -> [Repo -> Roles]],
           cred' \in [Account -> [id : Nat, expires : Nat, revoked : BOOLEAN]],
           clock' \in Nat, issued' \in Nat,
           NEW ts \in [Thread -> AccessRequest \cup Answer], threads' = Observe(ts),
           \A u \in Thread : ts[u] \in AccessRequest => Ready(ts[u]),
           RowsHaveOwners',
           \A a \in Robots : acct'[a].id # 0 /\ cred'[a] = NoCred /\ a \notin broken' =>
              \E u \in Thread : /\ ts[u] \in AccessRequest /\ ts[u].pc \in RobotPc
                                /\ ts[u].target = a /\ ts[u].targetId = acct'[a].id
    PROVE  IInv'
<1>1. threads' \in [Thread -> AccessRequest \cup Answer] /\ RequestsSound'
  BY Observing
<1>2. \A u \in Thread : ts[u] \in AccessRequest => Observed(threads'[u], ts[u])
  BY ObserveAll
<1>3. AccessTypes'
  BY <1>1 DEF IInv, AccessTypes
<1>4. ASSUME NEW a \in Robots, acct'[a].id # 0, cred'[a] = NoCred, a \notin broken'
      PROVE  \E u \in Thread : /\ threads'[u] \in AccessRequest /\ threads'[u].pc \in RobotPc
                               /\ threads'[u].target = a /\ threads'[u].targetId = acct'[a].id
  <2>1. PICK u \in Thread : /\ ts[u] \in AccessRequest /\ ts[u].pc \in RobotPc
                            /\ ts[u].target = a /\ ts[u].targetId = acct'[a].id
    BY <1>4
  <2> QED
    BY <1>2, <2>1 DEF Observed, Same
<1>5. HalfRobots'
  BY <1>4 DEF HalfRobots, Live, NoCred
<1> QED
  BY <1>1, <1>3, <1>5 DEF IInv

-----------------------------------------------------------------------------
(***************************************************************************)
(* Steps that read: one request goes on and nothing else changes.          *)
(***************************************************************************)

(* Such a step keeps the invariant if the request stays sound and does not *)
(* abandon the robot it is creating.                                       *)
LEMMA ReadStep ==
    ASSUME IInv, UNCHANGED <<readOnly, issued>>, UNCHANGED world, broken \subseteq broken',
           NEW t \in Thread, NEW x \in AccessRequest \cup Answer, Set(t, x), x \in AccessRequest => Ready(x),
           threads[t] \in AccessRequest /\ threads[t].pc \in RobotPc =>
              \/ threads[t].target \in broken' \/ acct[threads[t].target].id # threads[t].targetId
              \/ /\ x \in AccessRequest /\ x.pc \in RobotPc
                 /\ x.target = threads[t].target /\ x.targetId = threads[t].targetId
    PROVE  IInv'
<1> DEFINE ts == [threads EXCEPT ![t] = x]
<1>1. /\ ts \in [Thread -> AccessRequest \cup Answer] /\ threads' = Observe(ts)
      /\ ts[t] = x /\ \A u \in Thread \ {t} : ts[u] = threads[u]
  BY DEF IInv, AccessTypes, Set
<1>2. /\ UNCHANGED <<acct, grants, cred, clock>>
      /\ acct' \in [Account -> [id : Nat, enabled : BOOLEAN]]
      /\ grants' \in [Account -> [Repo -> Roles]]
      /\ cred' \in [Account -> [id : Nat, expires : Nat, revoked : BOOLEAN]]
      /\ clock' \in Nat /\ issued' \in Nat
  BY DEF IInv, AccessTypes, world
<1>3. ASSUME NEW u \in Thread, ts[u] \in AccessRequest PROVE Ready(ts[u])
  <2>1. CASE u = t
    BY <1>1, <1>3, <2>1
  <2>2. CASE u # t
    <3>1. threads[u] \in AccessRequest /\ Sound(threads[u]) /\ ts[u] = threads[u]
      BY <1>1, <1>3, <2>2 DEF IInv, RequestsSound
    <3>2. PeerChecked(threads[u], acct', grants')
      BY <1>2, <3>1 DEF Sound
    <3> QED
      BY <3>1, <3>2, StillReady
  <2> QED
    BY <2>1, <2>2
<1> HIDE DEF ts
<1>4. RowsHaveOwners'
  BY <1>2 DEF IInv, RowsHaveOwners, Live
<1>5. ASSUME NEW a \in Robots, acct'[a].id # 0, cred'[a] = NoCred, a \notin broken'
      PROVE  \E u \in Thread : /\ ts[u] \in AccessRequest /\ ts[u].pc \in RobotPc
                               /\ ts[u].target = a /\ ts[u].targetId = acct'[a].id
  <2>1. PICK u \in Thread : /\ threads[u] \in AccessRequest /\ threads[u].pc \in RobotPc
                            /\ threads[u].target = a /\ threads[u].targetId = acct[a].id
    BY <1>2, <1>5 DEF IInv, HalfRobots, Live
  <2>2. ts[u] \in AccessRequest /\ ts[u].pc \in RobotPc /\ ts[u].target = a /\ ts[u].targetId = acct[a].id
    BY <1>1, <1>5, <2>1
  <2> QED
    BY <1>2, <2>2
<1> QED
  BY <1>1, <1>2, <1>3, <1>4, <1>5, GeneralStep

(* A request that ends.                                                    *)
LEMMA EndStep ==
    ASSUME IInv, Steady, NEW t \in Thread, threads[t].pc \notin RobotPc,
           NEW x \in Answer, Set(t, x)
    PROVE  IInv'
<1>1. x \notin AccessRequest
  BY RunningIs
<1> QED
  BY <1>1, ReadStep DEF Steady, Fixed

(* A request that goes on.                                                 *)
LEMMA MoveStep ==
    ASSUME IInv, Steady, NEW t \in Thread, threads[t].pc \notin RobotPc,
           NEW x \in AccessRequest, Set(t, x), Ready(x)
    PROVE  IInv'
BY ReadStep DEF Steady, Fixed

(* What makes a request ready, when nothing else changes.                  *)
LEMMA ReadyNow ==
    ASSUME UNCHANGED world, NEW x,
           Passed(x, x.secretSeen \/ SecretGood(x, cred[x.who], clock),
                     x.accountSeen \/ AccountGood(x, acct[x.who]),
                     x.roles \cup {grants[x.who][x.repo]}),
           UpToDate(x, x.calm, acct, grants, clock), PeerChecked(x, acct, grants)
    PROVE  Ready(x)
<1>1. acct' = acct /\ grants' = grants /\ cred' = cred /\ clock' = clock
  BY DEF world
<1>2. UpToDate(x, x.calm /\ UNCHANGED world, acct', grants', clock')
  BY <1>1 DEF UpToDate
<1> QED
  BY <1>1, <1>2 DEF Ready

\* x is request y as it goes on: what identifies it, its target and what it has seen are the same.
Onward(x, y) ==
    /\ x \in AccessRequest /\ x.who = y.who /\ x.secret = y.secret /\ x.repo = y.repo
    /\ x.grant = y.grant /\ x.target = y.target /\ x.targetId = y.targetId
    /\ x.calm = y.calm /\ x.secretSeen = y.secretSeen /\ x.accountSeen = y.accountSeen
    /\ x.roles = y.roles /\ x.peerSince = y.peerSince

(* A running request is typed and sound.                                   *)
LEMMA OfThread ==
    ASSUME IInv, NEW t \in Thread, threads[t].pc # "idle"
    PROVE  /\ threads[t] \in AccessRequest /\ Sound(threads[t])
           /\ threads[t].who \in Account /\ threads[t].repo \in Repo /\ threads[t].target \in Account
           /\ readOnly \subseteq Account \ Admins
           /\ acct[threads[t].who].id \in Nat /\ grants[threads[t].who][threads[t].repo] \in Roles
<1>1. threads[t] \in AccessRequest
  BY RunningIs DEF IInv, AccessTypes
<1> QED
  BY <1>1 DEF IInv, AccessTypes, RequestsSound, AccessRequest

(* An account whose password is right, or whose credential will be tried.  *)
LEMMA LoginWithPasswordStep ==
    ASSUME IInv, NEW t \in Thread, LoginWithPassword(t)
    PROVE  IInv'
<1> DEFINE y == threads[t]
           z == [y EXCEPT !.pc = "relogin"]
           x == [y EXCEPT !.pc = "scopes", !.id = acct[y.who].id]
<1>1. y.pc = "login" /\ Steady /\ UNCHANGED world
  BY DEF LoginWithPassword, Steady
<1>2. /\ y \in AccessRequest /\ Sound(y) /\ y.who \in Account /\ readOnly \subseteq Account \ Admins
      /\ acct[y.who].id \in Nat /\ y.pc \notin RobotPc
  BY <1>1, OfThread DEF RobotPc
<1>3. CASE Refuse(t)
  BY <1>1, <1>2, <1>3, Answers, EndStep DEF Refuse
<1>4. CASE Goto(t, "relogin")
  <2>1. Onward(z, y) /\ z.pc = "relogin" /\ z.op = y.op /\ z.scope = y.scope /\ z.id = y.id
    BY <1>2 DEF AccessRequest, Onward, Pc
  <2> HIDE DEF z
  <2>2. Ready(z)
    BY <1>1, <1>2, <2>1, ReadyNow
       DEF Sound, Onward, Passed, UpToDate, PeerChecked, Verified, Admitted, AdminPc, TargetPc, RobotPc
  <2>3. Set(t, z)
    BY <1>4 DEF Goto, z
  <2> QED
    BY <1>1, <1>2, <2>1, <2>2, <2>3, MoveStep DEF Onward
<1>5. CASE /\ Live(y.who) /\ acct[y.who].enabled /\ y.who \notin Robots /\ y.secret # "credential"
           /\ Set(t, x)
  <2>1. Onward(x, y) /\ x.pc = "scopes" /\ x.op = y.op /\ x.scope = y.scope /\ x.id = acct[y.who].id
    BY <1>2 DEF AccessRequest, Onward, Pc, Verified
  <2> HIDE DEF x
  <2>2. SecretGood(x, cred[x.who], clock)
    BY <1>1, <1>2, <1>5, <2>1 DEF SecretGood, Onward, Sound, Passed
  <2>3. Ready(x)
    BY <1>1, <1>2, <2>1, <2>2, ReadyNow
       DEF Sound, Onward, Passed, UpToDate, PeerChecked, Verified, Admitted, AdminPc, TargetPc, RobotPc
  <2> QED
    BY <1>1, <1>2, <1>5, <2>1, <2>3, MoveStep DEF Onward
<1> QED
  BY <1>3, <1>4, <1>5 DEF LoginWithPassword

(* The account is there and enabled when its credential will be looked up. *)
LEMMA ReloginStep ==
    ASSUME IInv, NEW t \in Thread, Relogin(t)
    PROVE  IInv'
<1> DEFINE y == threads[t]
           x == [y EXCEPT !.pc = "credential", !.id = acct[y.who].id]
<1>1. y.pc = "relogin" /\ Steady /\ UNCHANGED world
  BY DEF Relogin, Steady
<1>2. /\ y \in AccessRequest /\ Sound(y) /\ y.who \in Account /\ readOnly \subseteq Account \ Admins
      /\ acct[y.who].id \in Nat /\ grants[y.who][y.repo] \in Roles /\ y.pc \notin RobotPc
  BY <1>1, OfThread DEF RobotPc
<1>3. CASE Refuse(t)
  BY <1>1, <1>2, <1>3, Answers, EndStep DEF Refuse
<1>4. CASE Set(t, x)
  <2>1. Onward(x, y) /\ x.pc = "credential" /\ x.op = y.op /\ x.scope = y.scope /\ x.id = acct[y.who].id
    BY <1>2 DEF AccessRequest, Onward, Pc
  <2> HIDE DEF x
  <2>2. Ready(x)
    BY <1>1, <1>2, <2>1, ReadyNow DEF Sound, Onward, Passed, UpToDate, PeerChecked, Verified, Admitted, AdminPc, TargetPc, RobotPc
  <2> QED
    BY <1>1, <1>2, <1>4, <2>1, <2>2, MoveStep DEF Onward
<1> QED
  BY <1>3, <1>4 DEF Relogin

(* A credential of this account that is active.                            *)
LEMMA GetCredentialStep ==
    ASSUME IInv, NEW t \in Thread, GetCredential(t)
    PROVE  IInv'
<1> DEFINE y == threads[t]
           x == [y EXCEPT !.pc = "scopes"]
<1>1. y.pc = "credential" /\ Steady /\ UNCHANGED world
  BY DEF GetCredential, Steady
<1>2. /\ y \in AccessRequest /\ Sound(y) /\ y.who \in Account /\ readOnly \subseteq Account \ Admins
      /\ acct[y.who].id \in Nat /\ grants[y.who][y.repo] \in Roles /\ y.pc \notin RobotPc
  BY <1>1, OfThread DEF RobotPc
<1>3. CASE Refuse(t)
  BY <1>1, <1>2, <1>3, Answers, EndStep DEF Refuse
<1>4. CASE /\ y.secret = "credential" /\ cred[y.who].id = y.id /\ ~cred[y.who].revoked
           /\ clock < cred[y.who].expires /\ Set(t, x)
  <2>1. Onward(x, y) /\ x.pc = "scopes" /\ x.op = y.op /\ x.scope = y.scope /\ x.id = y.id
    BY <1>2 DEF AccessRequest, Onward, Pc, Verified
  <2> HIDE DEF x
  <2>2. SecretGood(x, cred[x.who], clock)
    BY <1>4, <2>1 DEF SecretGood, Onward
  <2>3. Ready(x)
    BY <1>1, <1>2, <2>1, <2>2, ReadyNow DEF Sound, Onward, Passed, UpToDate, PeerChecked, Verified, Admitted, AdminPc, TargetPc, RobotPc
  <2> QED
    BY <1>1, <1>2, <1>4, <2>1, <2>3, MoveStep DEF Onward
<1> QED
  BY <1>3, <1>4 DEF GetCredential, Goto

(* A scope is granted by the role of that moment.                          *)
LEMMA GrantScopesStep ==
    ASSUME IInv, NEW t \in Thread, NEW op \in Calls \cup {"none"}, GrantScopes(t, op)
    PROVE  IInv'
<1> DEFINE y == threads[t]
           role == grants[y.who][y.repo]
           wanted == IF op \in Calls THEN Scope(V2[op].announces) ELSE {}
           s == grantedScopes(y.who, role, wanted)
           x == [y EXCEPT !.pc = "mint", !.op = op, !.scope = s]
<1>1. y.pc = "scopes" /\ Steady /\ UNCHANGED world
  BY DEF GrantScopes, Steady
<1>2. /\ y \in AccessRequest /\ Sound(y) /\ y.who \in Account /\ readOnly \subseteq Account \ Admins
      /\ acct[y.who].id \in Nat /\ grants[y.who][y.repo] \in Roles /\ y.pc \notin RobotPc
  BY <1>1, OfThread DEF RobotPc
<1>3. wanted \in SUBSET Action
  BY <1>2, ScopeTypes
<1> HIDE DEF wanted
<1>4. /\ s \in SUBSET Action /\ (y.who \in readOnly => s \cap {"push", "delete"} = {})
      /\ \A action \in s \ {"catalog"} : Allowed(y.who, action, role)
  BY <1>2, <1>3, Granted
<1>5. op \in Calls => s = grantedScopes(y.who, role, Scope(V2[op].announces))
  BY DEF wanted
<1>6. Set(t, x)
  BY DEF GrantScopes, wanted
<1> HIDE DEF s
<1>7. Onward(x, y) /\ x.pc = "mint" /\ x.op = op /\ x.scope = s /\ x.id = y.id
  BY <1>2, <1>4, Kinds, ZenonT(60) DEF AccessRequest, Onward, Pc, Verified
<1> HIDE DEF x
<1>8. Ready(x)
  <2>1. Passed(x, x.secretSeen \/ SecretGood(x, cred[x.who], clock),
                  x.accountSeen \/ AccountGood(x, acct[x.who]), x.roles \cup {role})
    BY <1>1, <1>2, <1>4, <1>7 DEF Sound, Onward, Passed, Verified, Admitted, AdminPc, TargetPc, RobotPc
  <2>2. UpToDate(x, x.calm, acct, grants, clock)
    BY <1>2, <1>5, <1>7 DEF Sound, Onward, UpToDate
  <2>3. PeerChecked(x, acct, grants)
    BY <1>7 DEF PeerChecked
  <2> QED
    BY <1>1, <1>7, <2>1, <2>2, <2>3, ReadyNow DEF Onward
<1> QED
  BY <1>1, <1>2, <1>6, <1>7, <1>8, MoveStep DEF Onward

(* The token is minted for the account that logged in.                     *)
LEMMA IssueStep ==
    ASSUME IInv, NEW t \in Thread, issueAccessToken(t)
    PROVE  IInv'
<1> DEFINE y == threads[t]
           x == [y EXCEPT !.pc = "call", !.expires = clock + AccessTTL]
<1>1. y.pc = "mint" /\ Steady /\ UNCHANGED world
  BY DEF issueAccessToken, Steady
<1>2. /\ y \in AccessRequest /\ Sound(y) /\ y.who \in Account /\ readOnly \subseteq Account \ Admins
      /\ acct[y.who].id \in Nat /\ grants[y.who][y.repo] \in Roles /\ y.pc \notin RobotPc
  BY <1>1, OfThread DEF RobotPc
<1>3. CASE Refuse(t)
  BY <1>1, <1>2, <1>3, Answers, EndStep DEF Refuse
<1>4. CASE Set(t, x)
  <2>1. /\ Onward(x, y) /\ x.pc = "call" /\ x.op = y.op /\ x.scope = y.scope /\ x.id = y.id
        /\ x.expires = clock + AccessTTL
    <3>1. clock + AccessTTL \in Nat
      BY Access_Constants DEF IInv, AccessTypes
    <3> QED
      BY <1>2, <3>1 DEF AccessRequest, Onward, Pc, Verified
  <2> HIDE DEF x
  <2>2. Ready(x)
    BY <1>1, <1>2, <2>1, ReadyNow DEF Sound, Onward, Passed, UpToDate, PeerChecked, Verified, Admitted, AdminPc, TargetPc, RobotPc
  <2> QED
    BY <1>1, <1>2, <1>4, <2>1, <2>2, MoveStep DEF Onward
<1> QED
  BY <1>3, <1>4 DEF issueAccessToken

(* Without a token a request ends with one step.                           *)
LEMMA CallAnonymouslyStep ==
    ASSUME IInv, NEW t \in Thread, NEW op \in Ops, CallAnonymously(t, op)
    PROVE  IInv'
<1>1. threads[t].pc \notin RobotPc /\ Steady
  BY DEF CallAnonymously, RobotPc
<1> QED
  BY <1>1, Answers, EndStep DEF CallAnonymously, Serve, Refuse

(* The token's row is there.                                               *)
LEMMA GetTokenStep ==
    ASSUME IInv, NEW t \in Thread, GetToken(t)
    PROVE  IInv'
<1> DEFINE y == threads[t]
           x == [y EXCEPT !.pc = "account"]
<1>1. y.pc = "call" /\ Steady /\ UNCHANGED world
  BY DEF GetToken, Steady
<1>2. /\ y \in AccessRequest /\ Sound(y) /\ y.who \in Account /\ readOnly \subseteq Account \ Admins
      /\ acct[y.who].id \in Nat /\ grants[y.who][y.repo] \in Roles /\ y.pc \notin RobotPc
  BY <1>1, OfThread DEF RobotPc
<1>3. CASE Refuse(t)
  BY <1>1, <1>2, <1>3, Answers, EndStep DEF Refuse
<1>4. CASE Set(t, x)
  <2>1. Onward(x, y) /\ x.pc = "account" /\ x.op = y.op /\ x.scope = y.scope /\ x.id = y.id
    BY <1>2 DEF AccessRequest, Onward, Pc, Verified
  <2> HIDE DEF x
  <2>2. Ready(x)
    BY <1>1, <1>2, <2>1, ReadyNow DEF Sound, Onward, Passed, UpToDate, PeerChecked, Verified, Admitted, AdminPc, TargetPc, RobotPc
  <2> QED
    BY <1>1, <1>2, <1>4, <2>1, <2>2, MoveStep DEF Onward
<1> QED
  BY <1>3, <1>4 DEF GetToken, Goto

(* The account is there and enabled.                                       *)
LEMMA GetAccountStep ==
    ASSUME IInv, NEW t \in Thread, GetAccount(t)
    PROVE  IInv'
<1> DEFINE y == threads[t]
           x == [y EXCEPT !.pc = "grants"]
<1>1. y.pc = "account" /\ Steady /\ UNCHANGED world
  BY DEF GetAccount, Steady
<1>2. /\ y \in AccessRequest /\ Sound(y) /\ y.who \in Account /\ readOnly \subseteq Account \ Admins
      /\ acct[y.who].id \in Nat /\ grants[y.who][y.repo] \in Roles /\ y.pc \notin RobotPc
  BY <1>1, OfThread DEF RobotPc
<1>3. CASE Refuse(t)
  BY <1>1, <1>2, <1>3, Answers, EndStep DEF Refuse
<1>4. CASE AccountGood(y, acct[y.who]) /\ Set(t, x)
  <2>1. Onward(x, y) /\ x.pc = "grants" /\ x.op = y.op /\ x.scope = y.scope /\ x.id = y.id
    BY <1>2 DEF AccessRequest, Onward, Pc, Verified, Admitted
  <2> HIDE DEF x
  <2>2. AccountGood(x, acct[x.who])
    BY <1>4, <2>1 DEF AccountGood, Onward
  <2>3. Ready(x)
    BY <1>1, <1>2, <2>1, <2>2, ReadyNow DEF Sound, Onward, Passed, UpToDate, PeerChecked, Verified, Admitted, AdminPc, TargetPc, RobotPc
  <2> QED
    BY <1>1, <1>2, <1>4, <2>1, <2>3, MoveStep DEF Onward
<1> QED
  BY <1>3, <1>4 DEF GetAccount, Goto

(* What a request may ask for.                                             *)
LEMMA AskTypes ==
    ASSUME readOnly \subseteq Account \ Admins, NEW x \in AccessRequest, Sound(x), x.pc = "grants",
           NEW ask \in Asks(x) \cup AdminAsks
    PROVE  /\ ask.op \in Ops /\ ask.scope \in SUBSET Action /\ ask.grant \in Roles
           /\ x.who \in readOnly => ask.scope \cap {"push", "delete"} = {}
<1>1. x.who \in Account /\ x.scope \in SUBSET Action /\ x.op \in Ops \cup {"none"}
  BY DEF AccessRequest
<1>2. CASE ask \in AdminAsks
  BY <1>2, Kinds DEF AdminAsks, Roles, Role
<1>3. CASE x.op \in Calls /\ ask = [op |-> x.op, scope |-> x.scope, grant |-> "none"]
  BY <1>1, <1>3, Kinds DEF Sound, Passed, Roles
<1>4. CASE ask = [op |-> "deleteRepository", scope |-> {}, grant |-> "none"]
  BY <1>4, Kinds DEF Roles
<1>5. CASE ask \in [op : Calls, scope : TokenScopes(x.who), grant : {"none"}]
  <2>1. ask.op \in Calls /\ ask.scope \in TokenScopes(x.who) /\ ask.grant = "none"
    BY <1>5
  <2> QED
    BY <1>1, <2>1, ScopeTypes, Kinds DEF Roles
<1> QED
  BY <1>2, <1>3, <1>4, <1>5 DEF Asks

(* Only who may administer goes on to a target.                            *)
LEMMA BuildPrincipalStep ==
    ASSUME IInv, NEW t \in Thread, NEW ask \in Asks(threads[t]) \cup AdminAsks, NEW failed \in BOOLEAN,
           threads[t].pc = "grants", BuildPrincipal(t, ask, failed)
    PROVE  IInv'
<1> DEFINE y == threads[t]
           role == IF failed THEN "none" ELSE grants[y.who][y.repo]
           x == [y EXCEPT !.role = role, !.op = ask.op, !.scope = ask.scope, !.grant = ask.grant]
           z == [x EXCEPT !.pc = "target"]
<1>1. y.pc = "grants" /\ Steady /\ UNCHANGED world
  BY DEF BuildPrincipal, Steady
<1>2. /\ y \in AccessRequest /\ Sound(y) /\ y.who \in Account /\ readOnly \subseteq Account \ Admins
      /\ acct[y.who].id \in Nat /\ grants[y.who][y.repo] \in Roles /\ y.pc \notin RobotPc
  BY <1>1, OfThread DEF RobotPc
<1>3. /\ ask.op \in Ops /\ ask.scope \in SUBSET Action /\ ask.grant \in Roles
      /\ y.who \in readOnly => ask.scope \cap {"push", "delete"} = {}
  BY <1>1, <1>2, AskTypes
<1>4. role \in Roles /\ (role = "admin" => grants[y.who][y.repo] = "admin")
  BY <1>2 DEF Roles, Role
<1>5. \/ Refuse(t) \/ GiveUp(t) \/ Serve(t, x.op)
      \/ Demanded(x) /\ x.op \in AdminOps \cup DelegatedOps /\ Set(t, z)
  BY DEF BuildPrincipal
<1> HIDE DEF role
<1>6. /\ x \in AccessRequest /\ x.pc = y.pc /\ x.who = y.who /\ x.secret = y.secret /\ x.repo = y.repo
      /\ x.id = y.id /\ x.op = ask.op /\ x.scope = ask.scope /\ x.role = role /\ x.grant = ask.grant
      /\ x.calm = y.calm /\ x.secretSeen = y.secretSeen /\ x.accountSeen = y.accountSeen
      /\ x.roles = y.roles
  BY <1>2, <1>3, <1>4 DEF AccessRequest
<1> HIDE DEF x
<1>7. CASE Refuse(t) \/ GiveUp(t) \/ Serve(t, x.op)
  BY <1>1, <1>2, <1>3, <1>6, <1>7, Answers, EndStep DEF Refuse, GiveUp, Serve
<1>8. CASE Demanded(x) /\ x.op \in AdminOps \cup DelegatedOps /\ Set(t, z)
  <2>1. Onward(z, x) /\ z.pc = "target" /\ z.op = x.op /\ z.scope = x.scope /\ z.id = x.id
    BY <1>6 DEF AccessRequest, Onward, Pc, Verified, Admitted, AdminPc
  <2> HIDE DEF z
  <2>2. /\ x.op \in AdminOps => x.who \in Admins
        /\ x.who \in Admins \/ (role = "admin" /\ x.grant # "admin")
    BY <1>6, <1>8, Kinds DEF Demanded, isRepoAdmin, AllowsAdmin
  <2>3. Ready(z)
    BY <1>1, <1>2, <1>3, <1>4, <1>6, <1>8, <2>1, <2>2, ReadyNow
       DEF Sound, Onward, Passed, UpToDate, PeerChecked, Verified, Admitted, AdminPc, TargetPc, RobotPc
  <2> QED
    BY <1>1, <1>2, <1>8, <2>1, <2>3, MoveStep DEF Onward
<1> QED
  BY <1>5, <1>7, <1>8

(* The account an administrator means, which is there unless it is to be made. *)
LEMMA GetTargetStep ==
    ASSUME IInv, NEW t \in Thread, NEW a \in Account, GetTarget(t, a)
    PROVE  IInv'
<1> DEFINE y == threads[t]
           x == [y EXCEPT !.target = a, !.targetId = acct[a].id]
<1>1. y.pc = "target" /\ Steady /\ UNCHANGED world
  <2>1. y \in AccessRequest \cup Answer
    BY DEF IInv, AccessTypes
  <2> QED
    BY <2>1 DEF GetTarget, Steady, AccessRequest, Answer
<1>2. /\ y \in AccessRequest /\ Sound(y) /\ y.who \in Account /\ y.pc \notin RobotPc
  BY <1>1, OfThread DEF RobotPc
<1>3. acct[a].id \in Nat
  BY DEF IInv, AccessTypes
<1>4. /\ x \in AccessRequest /\ x.pc = y.pc /\ x.who = y.who /\ x.secret = y.secret /\ x.repo = y.repo
      /\ x.id = y.id /\ x.op = y.op /\ x.scope = y.scope /\ x.grant = y.grant
      /\ x.target = a /\ x.targetId = acct[a].id
      /\ x.calm = y.calm /\ x.secretSeen = y.secretSeen /\ x.accountSeen = y.accountSeen
      /\ x.roles = y.roles
  BY <1>2, <1>3 DEF AccessRequest
<1>5. \/ Refuse(t)
      \/ x.op = "createRobot" /\ Set(t, [x EXCEPT !.pc = "insert"])
      \/ /\ x.op # "createRobot" /\ Live(a)
         /\ \E pc \in {"peer", "accessor", "write"} :
              /\ pc = "write" => x.op \notin DelegatedOps \/ x.who \in Admins
              /\ pc = "accessor" => x.op = "revokeToken"
              /\ Set(t, [x EXCEPT !.pc = pc])
  BY DEF GetTarget
<1> HIDE DEF x
<1>6. CASE Refuse(t)
  BY <1>1, <1>2, <1>6, Answers, EndStep DEF Refuse
<1>7. ASSUME NEW pc \in {"insert", "peer", "accessor", "write"}, Set(t, [x EXCEPT !.pc = pc]),
             pc = "write" => x.op \notin DelegatedOps \/ x.who \in Admins,
             pc = "accessor" => x.op = "revokeToken",
             pc = "insert" => x.op = "createRobot", pc # "insert" => acct[a].id # 0
      PROVE  IInv'
  <2> DEFINE z == [x EXCEPT !.pc = pc]
  <2>1. Onward(z, x) /\ z.pc = pc /\ z.op = x.op /\ z.scope = x.scope /\ z.id = x.id
    BY <1>4, <1>7 DEF AccessRequest, Onward, Pc, Verified, Admitted, AdminPc, TargetPc
  <2>2. Set(t, z)
    BY <1>7
  <2> HIDE DEF z
  <2>3. Passed(z, z.secretSeen \/ SecretGood(z, cred[z.who], clock),
                  z.accountSeen \/ AccountGood(z, acct[z.who]), z.roles \cup {grants[z.who][z.repo]})
    BY <1>1, <1>2, <1>4, <1>7, <2>1
       DEF Sound, Onward, Passed, Verified, Admitted, AdminPc, TargetPc, RobotPc
  <2>4. UpToDate(z, z.calm, acct, grants, clock) /\ PeerChecked(z, acct, grants)
    BY <1>2, <1>4, <1>7, <2>1 DEF Sound, Onward, UpToDate, PeerChecked
  <2> QED
    BY <1>1, <1>2, <2>1, <2>2, <2>3, <2>4, ReadyNow, MoveStep DEF Onward
<1> QED
  BY <1>5, <1>6, <1>7 DEF Live

(* No administrator's grant was there when the delegate looked.            *)
LEMMA CheckPeerStep ==
    ASSUME IInv, NEW t \in Thread, CheckPeer(t)
    PROVE  IInv'
<1> DEFINE y == threads[t]
           x == [y EXCEPT !.pc = "write"]
<1>1. y.pc = "peer" /\ Steady /\ UNCHANGED world
  BY DEF CheckPeer, Steady
<1>2. y \in AccessRequest /\ Sound(y) /\ y.who \in Account /\ y.pc \notin RobotPc
  BY <1>1, OfThread DEF RobotPc
<1>3. CASE Refuse(t)
  BY <1>1, <1>2, <1>3, Answers, EndStep DEF Refuse
<1>4. CASE /\ ~(acct[y.target].id = y.targetId /\ grants[y.target][y.repo] = "admin")
           /\ Set(t, x)
  <2>1. Onward(x, y) /\ x.pc = "write" /\ x.op = y.op /\ x.scope = y.scope /\ x.id = y.id
    BY <1>2 DEF AccessRequest, Onward, Pc, Verified, Admitted, AdminPc, TargetPc
  <2> HIDE DEF x
  <2>2. Ready(x)
    BY <1>1, <1>2, <1>4, <2>1, ReadyNow
       DEF Sound, Onward, Passed, UpToDate, PeerChecked, Verified, Admitted, AdminPc, TargetPc, RobotPc
  <2> QED
    BY <1>1, <1>2, <1>4, <2>1, <2>2, MoveStep DEF Onward
<1> QED
  BY <1>3, <1>4 DEF CheckPeer, Goto, AllowsAdmin

(* The credential that is to be revoked; only global administrators do.    *)
LEMMA GetAccessorStep ==
    ASSUME IInv, NEW t \in Thread, GetAccessor(t)
    PROVE  IInv'
<1> DEFINE y == threads[t]
           x == [y EXCEPT !.pc = "write"]
<1>1. y.pc = "accessor" /\ Steady /\ UNCHANGED world
  BY DEF GetAccessor, Steady
<1>2. y \in AccessRequest /\ Sound(y) /\ y.who \in Account /\ y.pc \notin RobotPc
  BY <1>1, OfThread DEF RobotPc
<1>3. CASE Refuse(t)
  BY <1>1, <1>2, <1>3, Answers, EndStep DEF Refuse
<1>4. CASE Set(t, x)
  <2>1. Onward(x, y) /\ x.pc = "write" /\ x.op = y.op /\ x.scope = y.scope /\ x.id = y.id
    BY <1>2 DEF AccessRequest, Onward, Pc, Verified, Admitted, AdminPc, TargetPc
  <2> HIDE DEF x
  <2>2. Ready(x)
    BY <1>1, <1>2, <2>1, Kinds, ReadyNow
       DEF Sound, Onward, Passed, UpToDate, PeerChecked, Verified, Admitted, AdminPc, TargetPc, RobotPc
  <2> QED
    BY <1>1, <1>2, <1>4, <2>1, <2>2, MoveStep DEF Onward
<1> QED
  BY <1>3, <1>4 DEF GetAccessor, Goto

(* A write that finds no row ends the request.                             *)
LEMMA WriteRefusedStep ==
    ASSUME IInv, NEW t \in Thread, WriteRefused(t)
    PROVE  IInv'
<1>1. threads[t].pc \notin RobotPc /\ Steady /\ Refuse(t)
  BY DEF WriteRefused, RobotPc
<1> QED
  BY <1>1, Answers, EndStep DEF Refuse

-----------------------------------------------------------------------------
(***************************************************************************)
(* A request begins.                                                       *)
(***************************************************************************)

(* What a request starts with.                                             *)
LEMMA NewRequestFields ==
    ASSUME IInv, NEW pc \in Pc, NEW who \in Account, NEW repo \in Repo,
           NEW secret \in {"none", "token", "password", "credential"}
    PROVE  LET x == NewRequest(pc, who, secret, repo)
           IN  /\ x \in AccessRequest /\ x.pc = pc /\ x.who = who /\ x.secret = secret /\ x.repo = repo
               /\ x.id = acct[who].id /\ x.op = "none" /\ x.scope = {}
<1>1. acct[who].id \in Nat /\ AccessTTL \in Nat /\ 0 \in Nat
  BY Access_Constants DEF IInv, AccessTypes
<1>2. PICK b \in BOOLEAN : b = (secret # "token")
  OBVIOUS
<1> QED
  BY <1>1, <1>2 DEF NewRequest, AccessRequest, Roles

(* It is sound: a token that is shown has not expired.                     *)
LEMMA BeginStep ==
    ASSUME IInv, NEW t \in Thread, NEW who \in Account, NEW repo \in Repo,
           NEW secret \in {"none", "token", "password", "credential"},
           NEW pc \in {"anonymous", "account", "login"},
           pc = "anonymous" <=> secret = "none", pc = "account" <=> secret = "token",
           pc = "account" => clock < AccessTTL,
           Begin(t, NewRequest(pc, who, secret, repo))
    PROVE  IInv'
<1> DEFINE x == NewRequest(pc, who, secret, repo)
<1>0. pc \in Pc
  BY DEF Pc, Verified
<1>1. /\ x \in AccessRequest /\ x.pc = pc /\ x.who = who /\ x.secret = secret /\ x.repo = repo
      /\ x.id = acct[who].id /\ x.op = "none" /\ x.scope = {}
  BY <1>0, NewRequestFields
<1>2. Set(t, x) /\ UNCHANGED <<readOnly, issued, broken>> /\ UNCHANGED world /\ ~Running(threads[t])
  BY DEF Begin, world
<1> HIDE DEF x
<1>3. pc = "account" => SecretGood(x, cred[x.who], clock)
  BY <1>1 DEF SecretGood
<1>4. Passed(x, x.secretSeen \/ SecretGood(x, cred[x.who], clock),
                x.accountSeen \/ AccountGood(x, acct[x.who]), x.roles \cup {grants[x.who][x.repo]})
  BY <1>1, <1>3 DEF Passed, Verified, Admitted, AdminPc, TargetPc, RobotPc
<1>5. UpToDate(x, x.calm, acct, grants, clock) /\ PeerChecked(x, acct, grants)
  BY <1>1, Kinds DEF UpToDate, PeerChecked
<1>6. Ready(x)
  BY <1>2, <1>4, <1>5, ReadyNow
<1>7. threads[t] \notin AccessRequest
  BY <1>2, RunningIs
<1> QED
  BY <1>1, <1>2, <1>6, <1>7, ReadStep

(* With a token, with a login, or without either.                          *)
LEMMA StartStep ==
    ASSUME IInv, NEW t \in Thread, AccessStart(t)
    PROVE  IInv'
<1>1. PICK repo \in Repo :
        \/ BeginAnonymous(t, repo)
        \/ \E who \in Account : \/ BeginWithToken(t, who, repo)
                                \/ \E secret \in {"password", "credential"} : BeginLogin(t, who, secret, repo)
  BY DEF AccessStart
<1>2. CASE BeginAnonymous(t, repo)
  <2>1. PICK who \in Account : who = CHOOSE a \in Account : TRUE
    BY Access_Constants
  <2>2. Begin(t, NewRequest("anonymous", who, "none", repo))
    BY <1>2, <2>1 DEF BeginAnonymous
  <2> QED
    BY <2>2, BeginStep
<1>3. ASSUME NEW who \in Account, BeginWithToken(t, who, repo) PROVE IInv'
  BY <1>3, BeginStep DEF BeginWithToken
<1>4. ASSUME NEW who \in Account, NEW secret \in {"password", "credential"}, BeginLogin(t, who, secret, repo)
      PROVE  IInv'
  BY <1>4, BeginStep DEF BeginLogin
<1> QED
  BY <1>1, <1>2, <1>3, <1>4

-----------------------------------------------------------------------------
(***************************************************************************)
(* Steps that write.                                                       *)
(***************************************************************************)

(* A write that ends its request, or goes on, and leaves the others be.    *)
LEMMA WriteStep ==
    ASSUME IInv, UNCHANGED readOnly, acct' \in [Account -> [id : Nat, enabled : BOOLEAN]],
           grants' \in [Account -> [Repo -> Roles]],
           cred' \in [Account -> [id : Nat, expires : Nat, revoked : BOOLEAN]],
           clock' \in Nat, issued' \in Nat,
           NEW t \in Thread, NEW x \in AccessRequest \cup Answer, Set(t, x), x \in AccessRequest => Ready(x),
           \A u \in Thread \ {t} : threads[u] \in AccessRequest => PeerChecked(threads[u], acct', grants'),
           RowsHaveOwners',
           \A a \in Robots : acct'[a].id # 0 /\ cred'[a] = NoCred /\ a \notin broken' =>
              \/ \E u \in Thread \ {t} : /\ threads[u] \in AccessRequest /\ threads[u].pc \in RobotPc
                                         /\ threads[u].target = a /\ threads[u].targetId = acct'[a].id
              \/ x \in AccessRequest /\ x.pc \in RobotPc /\ x.target = a /\ x.targetId = acct'[a].id
    PROVE  IInv'
<1> DEFINE ts == [threads EXCEPT ![t] = x]
<1>1. /\ ts \in [Thread -> AccessRequest \cup Answer] /\ threads' = Observe(ts)
      /\ ts[t] = x /\ \A u \in Thread \ {t} : ts[u] = threads[u]
  BY DEF IInv, AccessTypes, Set
<1> HIDE DEF ts
<1>2. ASSUME NEW u \in Thread, ts[u] \in AccessRequest PROVE Ready(ts[u])
  BY <1>1, <1>2, StillReady DEF IInv, RequestsSound
<1>3. ASSUME NEW a \in Robots, acct'[a].id # 0, cred'[a] = NoCred, a \notin broken'
      PROVE  \E u \in Thread : /\ ts[u] \in AccessRequest /\ ts[u].pc \in RobotPc
                               /\ ts[u].target = a /\ ts[u].targetId = acct'[a].id
  BY <1>1, <1>3
<1> QED
  BY <1>1, <1>2, <1>3, GeneralStep

(* Before a write: its target, and the robots that are not whole.          *)
LEMMA Writing ==
    ASSUME IInv, NEW t \in Thread, threads[t].pc \in TargetPc
    PROVE  /\ threads[t] \in AccessRequest /\ Sound(threads[t]) /\ threads[t].target \in Account
           /\ threads[t].targetId \in Nat \ {0} /\ threads[t].repo \in Repo /\ threads[t].grant \in Roles
           /\ threads[t].op \in Ops
           /\ \A u \in Thread : threads[u] \in AccessRequest =>
                /\ Sound(threads[u]) /\ threads[u].target \in Account /\ threads[u].repo \in Repo
                /\ threads[u].pc = "write" => threads[u].targetId # 0
<1>1. threads[t].pc # "idle"
  BY DEF TargetPc, RobotPc
<1>2. \A u \in Thread : threads[u] \in AccessRequest => Sound(threads[u])
  BY DEF IInv, RequestsSound
<1> QED
  BY <1>1, <1>2, OfThread, Kinds DEF AccessRequest, Sound, Passed, AdminPc, TargetPc

(* A credential is written.                                                *)
LEMMA CredStep ==
    ASSUME IInv, NEW t \in Thread, threads[t].pc \in TargetPc, UNCHANGED <<readOnly, issued, broken, acct, grants, clock>>,
           NEW c \in [id : Nat, expires : Nat, revoked : BOOLEAN], c # NoCred,
           c.id \in {0, acct[threads[t].target].id}, cred' = [cred EXCEPT ![threads[t].target] = c],
           NEW x \in Answer, Set(t, x)
    PROVE  IInv'
<1> DEFINE y == threads[t]
<1>1. /\ y \in AccessRequest /\ y.target \in Account
      /\ \A u \in Thread : threads[u] \in AccessRequest => Sound(threads[u])
  BY Writing
<1>2. /\ acct' \in [Account -> [id : Nat, enabled : BOOLEAN]]
      /\ grants' \in [Account -> [Repo -> Roles]]
      /\ cred' \in [Account -> [id : Nat, expires : Nat, revoked : BOOLEAN]]
      /\ clock' \in Nat /\ issued' \in Nat
  BY <1>1 DEF IInv, AccessTypes
<1>3. cred'[y.target] = c /\ \A a \in Account \ {y.target} : cred'[a] = cred[a]
  BY <1>1 DEF IInv, AccessTypes
<1>4. RowsHaveOwners'
  BY <1>1, <1>3 DEF IInv, RowsHaveOwners, Live
<1>5. ASSUME NEW a \in Robots, acct'[a].id # 0, cred'[a] = NoCred, a \notin broken'
      PROVE  \E u \in Thread \ {t} : /\ threads[u] \in AccessRequest /\ threads[u].pc \in RobotPc
                                     /\ threads[u].target = a /\ threads[u].targetId = acct'[a].id
  <2>1. a \in Account /\ a # y.target
    BY <1>3, <1>5, Access_Constants
  <2> QED
    BY <1>3, <1>5, <2>1 DEF IInv, HalfRobots, Live
<1>6. \A u \in Thread \ {t} : threads[u] \in AccessRequest => PeerChecked(threads[u], acct', grants')
  BY <1>1 DEF Sound
<1>7. x \notin AccessRequest
  BY RunningIs
<1> QED
  BY <1>2, <1>4, <1>5, <1>6, <1>7, WriteStep

(* A new credential is of the account whose row is there.                  *)
LEMMA CreateTokenStep ==
    ASSUME IInv, NEW t \in Thread, threads[t].pc \in TargetPc, SameRow(threads[t]),
           UNCHANGED <<readOnly, issued, broken, acct, grants, clock>>,
           cred' = [cred EXCEPT ![threads[t].target] =
                      [id |-> threads[t].targetId, expires |-> clock + CredentialTTL, revoked |-> FALSE]],
           Serve(t, threads[t].op)
    PROVE  IInv'
<1> DEFINE y == threads[t]
           c == [id |-> y.targetId, expires |-> clock + CredentialTTL, revoked |-> FALSE]
<1>1. y.targetId \in Nat \ {0} /\ y.op \in Ops
  BY Writing
<1>2. clock + CredentialTTL \in Nat
  BY Access_Constants DEF IInv, AccessTypes
<1>3. c \in [id : Nat, expires : Nat, revoked : BOOLEAN] /\ c # NoCred /\ c.id = acct[y.target].id
  BY <1>1, <1>2 DEF NoCred, SameRow
<1> HIDE DEF c
<1>4. cred' = [cred EXCEPT ![y.target] = c]
  BY DEF c
<1>5. [Quiet EXCEPT !.served = y.op] \in Answer /\ Set(t, [Quiet EXCEPT !.served = y.op])
  BY <1>1, Answers DEF Serve
<1> QED
  BY <1>3, <1>4, <1>5, CredStep

(* A revoked credential keeps its account.                                 *)
LEMMA RevokeStep ==
    ASSUME IInv, NEW t \in Thread, RevokeTokenByAccessor(t)
    PROVE  IInv'
<1> DEFINE y == threads[t]
           c == [cred[y.target] EXCEPT !.revoked = TRUE]
<1>1. y.pc \in TargetPc /\ Serve(t, y.op) /\ UNCHANGED <<readOnly, issued, broken, acct, grants, clock>>
  BY DEF RevokeTokenByAccessor, Fixed, TargetPc
<1>2. y.target \in Account /\ y.op \in Ops
  BY <1>1, Writing
<1>3. cred[y.target] \in [id : Nat, expires : Nat, revoked : BOOLEAN] /\ cred[y.target].id \in {0, acct[y.target].id}
  BY <1>2 DEF IInv, AccessTypes, RowsHaveOwners
<1>4. c \in [id : Nat, expires : Nat, revoked : BOOLEAN] /\ c # NoCred /\ c.id \in {0, acct[y.target].id}
  BY <1>3 DEF NoCred
<1>5. cred' = [cred EXCEPT ![y.target] = c]
  BY <1>2 DEF RevokeTokenByAccessor, IInv, AccessTypes
<1> HIDE DEF c
<1>6. [Quiet EXCEPT !.served = y.op] \in Answer /\ Set(t, [Quiet EXCEPT !.served = y.op])
  BY <1>1, <1>2, Answers DEF Serve
<1> QED
  BY <1>1, <1>4, <1>5, <1>6, CredStep

(* The account goes with all its rows.                                     *)
LEMMA DeleteRobotStep ==
    ASSUME IInv, NEW t \in Thread, DeleteRobot(t)
    PROVE  IInv'
<1> DEFINE y == threads[t]
           b == y.target
<1>1. y.pc = "write" /\ y.pc \in TargetPc /\ Serve(t, y.op) /\ UNCHANGED <<readOnly, issued, clock>>
  BY DEF DeleteRobot, TargetPc
<1>2. /\ b \in Account /\ y.op \in Ops
      /\ \A u \in Thread : threads[u] \in AccessRequest =>
           /\ Sound(threads[u]) /\ threads[u].target \in Account /\ threads[u].repo \in Repo
           /\ threads[u].pc = "write" => threads[u].targetId # 0
  BY <1>1, Writing
<1>3. /\ acct' = [acct EXCEPT ![b] = NoAccount] /\ grants' = [grants EXCEPT ![b] = NoGrants]
      /\ cred' = [cred EXCEPT ![b] = NoCred] /\ broken' = broken \ {b}
  BY DEF DeleteRobot
<1>4. /\ NoAccount \in [id : Nat, enabled : BOOLEAN] /\ NoAccount.id = 0
      /\ NoGrants \in [Repo -> Roles]
      /\ NoCred \in [id : Nat, expires : Nat, revoked : BOOLEAN] /\ NoCred.id = 0
  BY DEF NoAccount, NoGrants, NoCred, Roles
<1>5. /\ acct' \in [Account -> [id : Nat, enabled : BOOLEAN]]
      /\ grants' \in [Account -> [Repo -> Roles]]
      /\ cred' \in [Account -> [id : Nat, expires : Nat, revoked : BOOLEAN]]
      /\ clock' \in Nat /\ issued' \in Nat
  BY <1>1, <1>3, <1>4 DEF IInv, AccessTypes
<1>6. /\ acct'[b] = NoAccount /\ grants'[b] = NoGrants /\ cred'[b] = NoCred
      /\ \A a \in Account \ {b} : acct'[a] = acct[a] /\ grants'[a] = grants[a] /\ cred'[a] = cred[a]
  BY <1>2, <1>3 DEF IInv, AccessTypes
<1>7. RowsHaveOwners'
  <2>1. ASSUME NEW a \in Account
        PROVE  (acct'[a].id = 0 => grants'[a] = NoGrants) /\ cred'[a].id \in {0, acct'[a].id}
    BY <1>4, <1>6 DEF IInv, RowsHaveOwners, Live
  <2> QED
    BY <2>1 DEF RowsHaveOwners, Live, NoGrants
<1>8. ASSUME NEW a \in Robots, acct'[a].id # 0, cred'[a] = NoCred, a \notin broken'
      PROVE  \E u \in Thread \ {t} : /\ threads[u] \in AccessRequest /\ threads[u].pc \in RobotPc
                                     /\ threads[u].target = a /\ threads[u].targetId = acct'[a].id
  <2>1. a \in Account /\ a # b
    BY <1>4, <1>6, <1>8, Access_Constants
  <2> QED
    BY <1>1, <1>3, <1>6, <1>8, <2>1 DEF IInv, HalfRobots, Live, RobotPc
<1>9. \A u \in Thread \ {t} : threads[u] \in AccessRequest => PeerChecked(threads[u], acct', grants')
  BY <1>2, <1>4, <1>6 DEF Sound, PeerChecked
<1>10. /\ [Quiet EXCEPT !.served = y.op] \in Answer /\ [Quiet EXCEPT !.served = y.op] \notin AccessRequest
       /\ Set(t, [Quiet EXCEPT !.served = y.op])
  BY <1>1, <1>2, Answers, RunningIs DEF Serve
<1> QED
  BY <1>1, <1>5, <1>7, <1>8, <1>9, <1>10, WriteStep

(* An account's row is written: the account is there already, or it has no *)
(* grants and no credential.                                               *)
LEMMA AccountStep ==
    ASSUME IInv, NEW t \in Thread, NEW b \in Account, NEW row \in [id : Nat, enabled : BOOLEAN],
           acct[b].id \in {0, row.id}, row.id # 0, threads[t].pc \notin RobotPc,
           acct' \in [Account -> [id : Nat, enabled : BOOLEAN]],
           acct'[b] = row, \A a \in Account \ {b} : acct'[a] = acct[a],
           UNCHANGED <<readOnly, grants, cred, clock>>, issued' \in Nat, broken \subseteq broken',
           NEW x \in AccessRequest \cup Answer, Set(t, x), x \in AccessRequest => Ready(x),
           Live(b) \/ b \in broken' \/ (x \in AccessRequest /\ x.pc \in RobotPc /\ x.target = b /\ x.targetId = row.id)
    PROVE  IInv'
<1>1. /\ grants' \in [Account -> [Repo -> Roles]]
      /\ cred' \in [Account -> [id : Nat, expires : Nat, revoked : BOOLEAN]]
      /\ clock' \in Nat
  BY DEF IInv, AccessTypes
<1>2. acct'[b] = row /\ \A a \in Account \ {b} : acct'[a] = acct[a]
  OBVIOUS
<1>3. acct[b].id = 0 => grants[b] = NoGrants /\ cred[b].id = 0
  BY DEF IInv, RowsHaveOwners, Live
<1>4. RowsHaveOwners'
  <2>1. ASSUME NEW a \in Account
        PROVE  (acct'[a].id = 0 => grants'[a] = NoGrants) /\ cred'[a].id \in {0, acct'[a].id}
    BY <1>2, <1>3 DEF IInv, RowsHaveOwners, Live
  <2> QED
    BY <2>1 DEF RowsHaveOwners, Live, NoGrants
<1>5. ASSUME NEW a \in Robots, acct'[a].id # 0, cred'[a] = NoCred, a \notin broken'
      PROVE  \/ \E u \in Thread \ {t} : /\ threads[u] \in AccessRequest /\ threads[u].pc \in RobotPc
                                        /\ threads[u].target = a /\ threads[u].targetId = acct'[a].id
             \/ x \in AccessRequest /\ x.pc \in RobotPc /\ x.target = a /\ x.targetId = acct'[a].id
  <2>1. a \in Account
    BY Access_Constants
  <2>2. CASE acct[a].id # 0
    <3>1. acct'[a].id = acct[a].id
      BY <1>2, <2>1, <2>2
    <3> QED
      BY <1>5, <2>2, <3>1 DEF IInv, HalfRobots, Live
  <2>3. CASE acct[a].id = 0
    BY <1>2, <1>5, <2>1, <2>3 DEF Live
  <2> QED
    BY <2>2, <2>3
<1>6. ASSUME NEW u \in Thread \ {t}, threads[u] \in AccessRequest
      PROVE  PeerChecked(threads[u], acct', grants')
  <2>1. Sound(threads[u]) /\ threads[u].target \in Account /\ threads[u].repo \in Repo
    BY <1>6 DEF IInv, RequestsSound, AccessRequest
  <2>2. NoGrants[threads[u].repo] # "admin"
    BY <2>1 DEF NoGrants
  <2> QED
    BY <1>2, <1>3, <2>1, <2>2 DEF Sound, PeerChecked
<1>7. \A u \in Thread \ {t} : threads[u] \in AccessRequest => PeerChecked(threads[u], acct', grants')
  BY <1>6
<1>8. \A a \in Robots : acct'[a].id # 0 /\ cred'[a] = NoCred /\ a \notin broken' =>
         \/ \E u \in Thread \ {t} : /\ threads[u] \in AccessRequest /\ threads[u].pc \in RobotPc
                                    /\ threads[u].target = a /\ threads[u].targetId = acct'[a].id
         \/ x \in AccessRequest /\ x.pc \in RobotPc /\ x.target = a /\ x.targetId = acct'[a].id
  BY <1>5
<1>9. readOnly' = readOnly /\ (x \in AccessRequest => Ready(x)) /\ Set(t, x)
  OBVIOUS
<1> QED
  BY <1>1, <1>4, <1>7, <1>8, <1>9, WriteStep

(* The row that was read comes back, disabled or enabled.                  *)
LEMMA SetUserEnabledStep ==
    ASSUME IInv, NEW t \in Thread, SetUserEnabled(t)
    PROVE  IInv'
<1> DEFINE y == threads[t]
<1>1. /\ y.pc \in TargetPc /\ y.pc \notin RobotPc /\ Serve(t, y.op)
      /\ UNCHANGED <<readOnly, issued, grants, cred, clock>>
      /\ acct[y.target].id \in {0, y.targetId} /\ broken \subseteq broken'
      /\ Live(y.target) \/ y.target \in broken'
  BY DEF SetUserEnabled, TargetPc, RobotPc
<1>2. y.target \in Account /\ y.targetId \in Nat \ {0} /\ y.op \in Ops
  BY <1>1, Writing
<1>3. PICK e \in BOOLEAN : e = (y.op = "enable")
  OBVIOUS
<1>4. acct' = [acct EXCEPT ![y.target] = [id |-> y.targetId, enabled |-> e]]
  BY <1>3 DEF SetUserEnabled
<1>5. /\ [Quiet EXCEPT !.served = y.op] \in Answer /\ [Quiet EXCEPT !.served = y.op] \notin AccessRequest
      /\ Set(t, [Quiet EXCEPT !.served = y.op])
  BY <1>1, <1>2, Answers, RunningIs DEF Serve
<1>6. /\ [id |-> y.targetId, enabled |-> e] \in [id : Nat, enabled : BOOLEAN]
      /\ [id |-> y.targetId, enabled |-> e].id = y.targetId
  BY <1>2
<1>7. /\ issued' \in Nat /\ acct' \in [Account -> [id : Nat, enabled : BOOLEAN]]
      /\ acct'[y.target] = [id |-> y.targetId, enabled |-> e]
      /\ \A a \in Account \ {y.target} : acct'[a] = acct[a]
  BY <1>1, <1>2, <1>4, <1>6 DEF IInv, AccessTypes
<1> QED
  BY <1>1, <1>2, <1>5, <1>6, <1>7, AccountStep

(* A new robot has the request that makes it.                              *)
LEMMA InsertRobotStep ==
    ASSUME IInv, NEW t \in Thread, InsertRobot(t)
    PROVE  IInv'
<1> DEFINE y == threads[t]
           x == [y EXCEPT !.pc = "robotGrant", !.targetId = issued + 1]
           row == [id |-> issued + 1, enabled |-> TRUE]
<1>1. y.pc = "insert" /\ y.pc \notin RobotPc
  BY DEF InsertRobot, RobotPc
<1>2. y \in AccessRequest /\ Sound(y) /\ y.target \in Account /\ issued \in Nat
  BY <1>1, OfThread DEF IInv, AccessTypes
<1>3. CASE Steady /\ Refuse(t)
  BY <1>1, <1>3, Answers, EndStep DEF Refuse
<1>4. CASE ~Live(y.target) /\ ~(Steady /\ Refuse(t))
  <2>1. /\ acct' = [acct EXCEPT ![y.target] = row] /\ issued' = issued + 1 /\ Set(t, x)
        /\ UNCHANGED <<readOnly, broken, grants, cred, clock>>
    BY <1>4 DEF InsertRobot
  <2>2. row \in [id : Nat, enabled : BOOLEAN] /\ row.id = issued + 1 /\ row.id # 0 /\ issued' \in Nat
    BY <1>2, <2>1
  <2>3. /\ x \in AccessRequest /\ x.pc = "robotGrant" /\ x.who = y.who /\ x.secret = y.secret /\ x.repo = y.repo
        /\ x.op = y.op /\ x.scope = y.scope /\ x.grant = y.grant /\ x.target = y.target /\ x.targetId = issued + 1
        /\ x.calm = y.calm /\ x.secretSeen = y.secretSeen /\ x.accountSeen = y.accountSeen
        /\ x.roles = y.roles /\ x.id = y.id
    <3>1. issued + 1 \in Nat /\ "robotGrant" \in Pc
      BY <1>2 DEF Pc, Verified, Admitted, AdminPc, TargetPc, RobotPc
    <3> QED
      BY <1>2, <3>1 DEF AccessRequest
  <2> HIDE DEF x, row
  <2>4. Passed(x, x.secretSeen \/ SecretGood(x, cred'[x.who], clock'),
                  x.accountSeen \/ AccountGood(x, acct'[x.who]), x.roles \cup {grants'[x.who][x.repo]})
    BY <1>1, <1>2, <2>2, <2>3 DEF Sound, Passed, Verified, Admitted, AdminPc, TargetPc, RobotPc
  <2>5. UpToDate(x, x.calm /\ UNCHANGED world, acct', grants', clock') /\ PeerChecked(x, acct', grants')
    BY <1>2, <2>3 DEF Sound, UpToDate, PeerChecked, world
  <2>6. Ready(x)
    BY <2>4, <2>5 DEF Ready
  <2>7. acct[y.target].id = 0
    BY <1>4 DEF Live
  <2>8. x.pc \in RobotPc /\ x.targetId = row.id /\ x.target = y.target /\ x \in AccessRequest
    BY <2>2, <2>3 DEF RobotPc
  <2>9. /\ acct' \in [Account -> [id : Nat, enabled : BOOLEAN]] /\ acct'[y.target] = row
        /\ \A a \in Account \ {y.target} : acct'[a] = acct[a]
    BY <1>2, <2>1, <2>2 DEF IInv, AccessTypes
  <2>10. UNCHANGED <<readOnly, grants, cred, clock>> /\ Set(t, x) /\ broken \subseteq broken'
    BY <2>1
  <2> QED
    BY <1>1, <1>2, <2>2, <2>6, <2>7, <2>8, <2>9, <2>10, AccountStep
<1> QED
  BY <1>3, <1>4 DEF InsertRobot

(* A grant is written: whoever looked before it was made is told.          *)
LEMMA GrantStep ==
    ASSUME IInv, NEW t \in Thread, threads[t].pc \in TargetPc, SameRow(threads[t]), NEW role \in Roles,
           UNCHANGED <<readOnly, issued, broken>>,
           NEW x \in AccessRequest \cup Answer, x \in AccessRequest => Ready(x),
           WriteGrant(t, threads[t].target, threads[t].repo, role, x),
           threads[t].pc \in RobotPc => /\ x \in AccessRequest /\ x.pc \in RobotPc
                                        /\ x.target = threads[t].target /\ x.targetId = threads[t].targetId
    PROVE  IInv'
<1> DEFINE y == threads[t]
           b == y.target
           r == y.repo
           Told(u) == threads[u].pc = "write" /\ threads[u].target = b /\ threads[u].repo = r /\ role = "admin"
           ts == [u \in Thread |-> IF u = t THEN x
                                   ELSE IF Told(u) THEN [threads[u] EXCEPT !.peerSince = TRUE] ELSE threads[u]]
<1>1. /\ y \in AccessRequest /\ b \in Account /\ y.targetId \in Nat \ {0} /\ r \in Repo
      /\ \A u \in Thread : threads[u] \in AccessRequest =>
           Sound(threads[u]) /\ threads[u].target \in Account /\ threads[u].repo \in Repo
  BY Writing
<1>2. /\ grants' = [grants EXCEPT ![b][r] = role] /\ UNCHANGED <<acct, cred, clock>> /\ threads' = Observe(ts)
  BY DEF WriteGrant
<1>3. /\ acct' \in [Account -> [id : Nat, enabled : BOOLEAN]]
      /\ grants' \in [Account -> [Repo -> Roles]]
      /\ cred' \in [Account -> [id : Nat, expires : Nat, revoked : BOOLEAN]]
      /\ clock' \in Nat /\ issued' \in Nat
  BY <1>1, <1>2 DEF IInv, AccessTypes
<1>4. /\ grants'[b][r] = role
      /\ \A a \in Account, q \in Repo : a # b \/ q # r => grants'[a][q] = grants[a][q]
      /\ \A a \in Account \ {b} : grants'[a] = grants[a]
  BY <1>1, <1>2 DEF IInv, AccessTypes
<1>5. ASSUME NEW u \in Thread, u # t
      PROVE  \/ ts[u] \in Answer /\ threads[u] \in Answer
             \/ /\ ts[u] \in AccessRequest /\ threads[u] \in AccessRequest /\ Ready(ts[u])
                /\ ts[u].pc = threads[u].pc /\ ts[u].target = threads[u].target
                /\ ts[u].targetId = threads[u].targetId
  <2>1. CASE threads[u] \in Answer
    <3>1. threads[u].pc = "idle"
      BY <2>1 DEF Answer
    <3> QED
      BY <1>5, <2>1, <3>1
  <2>2. CASE threads[u] \in AccessRequest /\ ~Told(u)
    <3>1. ts[u] = threads[u]
      BY <1>5, <2>2
    <3>2. Sound(threads[u]) /\ threads[u].target \in Account /\ threads[u].repo \in Repo
      BY <1>1, <2>2
    <3>3. PeerChecked(threads[u], acct', grants')
      BY <1>2, <1>4, <2>2, <3>2 DEF Sound, PeerChecked
    <3> QED
      BY <2>2, <3>1, <3>2, <3>3, StillReady
  <2>3. CASE threads[u] \in AccessRequest /\ Told(u)
    <3> DEFINE z == threads[u]
               w == [z EXCEPT !.peerSince = TRUE]
    <3>1. ts[u] = w
      BY <1>5, <2>3
    <3>2. /\ w \in AccessRequest /\ w.pc = z.pc /\ w.who = z.who /\ w.secret = z.secret /\ w.repo = z.repo
          /\ w.id = z.id /\ w.op = z.op /\ w.scope = z.scope /\ w.expires = z.expires /\ w.grant = z.grant
          /\ w.target = z.target /\ w.targetId = z.targetId /\ w.peerSince
          /\ w.calm = z.calm /\ w.secretSeen = z.secretSeen /\ w.accountSeen = z.accountSeen
          /\ w.roles = z.roles
      BY <2>3 DEF AccessRequest
    <3>3. Sound(z)
      BY <1>1, <2>3
    <3> HIDE DEF w
    <3>4. Sound(w) /\ PeerChecked(w, acct', grants')
      BY <3>2, <3>3 DEF Sound, Passed, UpToDate, PeerChecked
    <3> QED
      BY <2>3, <3>1, <3>2, <3>4, StillReady
  <2> QED
    BY <2>1, <2>2, <2>3 DEF IInv, AccessTypes
<1>6. ts[t] = x
  OBVIOUS
<1>7. ts = [u \in Thread |-> ts[u]] /\ ts \in [Thread -> AccessRequest \cup Answer]
  BY <1>5, <1>6
<1> HIDE DEF ts
<1>8. \A u \in Thread : ts[u] \in AccessRequest => Ready(ts[u])
  BY <1>5, <1>6, RunningIs
<1>9. RowsHaveOwners'
  <2>1. acct[b].id # 0
    BY <1>1 DEF SameRow
  <2>2. ASSUME NEW a \in Account
        PROVE  (acct'[a].id = 0 => grants'[a] = NoGrants) /\ cred'[a].id \in {0, acct'[a].id}
    BY <1>2, <1>4, <2>1 DEF IInv, RowsHaveOwners, Live
  <2> QED
    BY <2>2 DEF RowsHaveOwners, Live, NoGrants
<1>10. ASSUME NEW a \in Robots, acct'[a].id # 0, cred'[a] = NoCred, a \notin broken'
       PROVE  \E u \in Thread : /\ ts[u] \in AccessRequest /\ ts[u].pc \in RobotPc
                                /\ ts[u].target = a /\ ts[u].targetId = acct'[a].id
  <2>1. PICK u \in Thread : /\ threads[u] \in AccessRequest /\ threads[u].pc \in RobotPc
                            /\ threads[u].target = a /\ threads[u].targetId = acct[a].id
    BY <1>2, <1>10 DEF IInv, HalfRobots, Live
  <2>2. CASE u = t
    BY <1>2, <1>6, <2>1, <2>2
  <2>3. CASE u # t
    BY <1>2, <1>5, <2>1, <2>3, RunningIs
  <2> QED
    BY <2>2, <2>3
<1> QED
  BY <1>2, <1>3, <1>7, <1>8, <1>9, <1>10, GeneralStep, ZenonT(60)

(* An administrator's write of a grant.                                    *)
LEMMA PutOrDeleteGrantStep ==
    ASSUME IInv, NEW t \in Thread, PutRepoGrant(t) \/ DeleteRepoGrant(t)
    PROVE  IInv'
<1> DEFINE y == threads[t]
           x == [Quiet EXCEPT !.served = y.op]
<1>1. PICK role \in {y.grant, "none"} : WriteGrant(t, y.target, y.repo, role, x)
  BY DEF PutRepoGrant, DeleteRepoGrant
<1>2. /\ y.pc \in TargetPc /\ y.pc \notin RobotPc /\ SameRow(y) /\ UNCHANGED <<readOnly, issued, broken>>
  BY DEF PutRepoGrant, DeleteRepoGrant, TargetPc, RobotPc, Fixed
<1>3. y.grant \in Roles /\ role \in Roles /\ y.op \in Ops
  BY <1>1, <1>2, Writing DEF Roles
<1>4. x \in Answer /\ x \notin AccessRequest
  BY <1>3, Answers, RunningIs
<1> QED
  BY <1>1, <1>2, <1>3, <1>4, GrantStep

(* A creation that cannot go on is remembered if its account is there.     *)
LEMMA LeaveRobotStep ==
    ASSUME IInv, NEW t \in Thread, LeaveRobot(t)
    PROVE  IInv'
<1>1. /\ UNCHANGED <<readOnly, issued>> /\ UNCHANGED world /\ broken \subseteq broken'
      /\ threads[t].target \in broken' \/ acct[threads[t].target].id # threads[t].targetId
  BY DEF LeaveRobot, SameRow
<1>2. [Quiet EXCEPT !.served = "refused"] \in Answer /\ Set(t, [Quiet EXCEPT !.served = "refused"])
  BY Answers DEF LeaveRobot, Refuse
<1>3. [Quiet EXCEPT !.served = "refused"] \notin AccessRequest
  BY <1>2, RunningIs
<1> QED
  BY <1>1, <1>2, <1>3, ReadStep

(* So is one that is cut off.                                              *)
LEMMA CutStep ==
    ASSUME IInv, NEW t \in Thread, Cut(t)
    PROVE  IInv'
<1>1. /\ UNCHANGED <<readOnly, issued>> /\ UNCHANGED world /\ broken \subseteq broken'
      /\ threads[t].pc \in RobotPc =>
           threads[t].target \in broken' \/ acct[threads[t].target].id # threads[t].targetId
  BY DEF Cut, SameRow, RobotPc
<1>2. Quiet \in Answer /\ Quiet \notin AccessRequest /\ Set(t, Quiet)
  BY Answers, RunningIs DEF Cut, GiveUp
<1> QED
  BY <1>1, <1>2, ReadStep

(* The request that creates a robot goes on with it.                       *)
LEMMA RobotOnward ==
    ASSUME NEW y \in AccessRequest, Sound(y), y.pc \in RobotPc, NEW pc \in RobotPc
    PROVE  LET x == [y EXCEPT !.pc = pc]
           IN  /\ x \in AccessRequest /\ x.pc = pc /\ Ready(x)
               /\ x.target = y.target /\ x.targetId = y.targetId
<1> DEFINE x == [y EXCEPT !.pc = pc]
<1>1. Onward(x, y) /\ x.pc = pc /\ x.op = y.op /\ x.scope = y.scope /\ x.id = y.id
  BY DEF AccessRequest, Onward, Pc, Verified, Admitted, AdminPc, TargetPc, RobotPc
<1> HIDE DEF x
<1>2. Passed(x, x.secretSeen \/ SecretGood(x, cred'[x.who], clock'),
                x.accountSeen \/ AccountGood(x, acct'[x.who]), x.roles \cup {grants'[x.who][x.repo]})
  BY <1>1 DEF Sound, Onward, Passed, Verified, Admitted, AdminPc, TargetPc, RobotPc
<1>3. UpToDate(x, x.calm /\ UNCHANGED world, acct', grants', clock') /\ PeerChecked(x, acct', grants')
  BY <1>1 DEF Sound, Onward, UpToDate, PeerChecked, RobotPc, world
<1>4. Ready(x)
  BY <1>2, <1>3 DEF Ready
<1> QED
  BY <1>1, <1>4 DEF Onward, x

(* Its grant, its account read back, its credential.                       *)
LEMMA RobotStep ==
    ASSUME IInv, NEW t \in Thread,
           GrantRobot(t) \/ (\E tooLong \in BOOLEAN : GetRobot(t, tooLong)) \/ CreateRobotToken(t)
    PROVE  IInv'
<1> DEFINE y == threads[t]
<1>1. y.pc \in RobotPc /\ y.pc \in TargetPc
  BY DEF GrantRobot, GetRobot, CreateRobotToken, RobotPc, TargetPc
<1>2. y \in AccessRequest /\ Sound(y) /\ y.grant \in Roles
  BY <1>1, Writing
<1>3. CASE LeaveRobot(t)
  BY <1>3, LeaveRobotStep
<1>4. CASE GrantRobot(t) /\ ~LeaveRobot(t)
  <2> DEFINE x == [y EXCEPT !.pc = "robotAccount"]
  <2>1. /\ SameRow(y) /\ UNCHANGED <<readOnly, issued, broken>>
        /\ WriteGrant(t, y.target, y.repo, y.grant, x)
    BY <1>4 DEF GrantRobot, Fixed
  <2>2. x \in AccessRequest /\ x.pc \in RobotPc /\ Ready(x) /\ x.target = y.target /\ x.targetId = y.targetId
    BY <1>1, <1>2, RobotOnward DEF RobotPc
  <2> HIDE DEF x
  <2> QED
    BY <1>1, <1>2, <2>1, <2>2, GrantStep
<1>5. CASE (\E tooLong \in BOOLEAN : GetRobot(t, tooLong)) /\ ~LeaveRobot(t)
  <2> DEFINE x == [y EXCEPT !.pc = "robotToken"]
  <2>1. Steady /\ Set(t, x)
    BY <1>5 DEF GetRobot, Goto
  <2>2. x \in AccessRequest /\ x.pc \in RobotPc /\ Ready(x) /\ x.target = y.target /\ x.targetId = y.targetId
    BY <1>1, <1>2, RobotOnward DEF RobotPc
  <2> HIDE DEF x
  <2>3. UNCHANGED <<readOnly, issued>> /\ UNCHANGED world /\ broken \subseteq broken'
    BY <2>1 DEF Steady, Fixed
  <2> QED
    BY <2>1, <2>2, <2>3, ReadStep
<1>6. CASE CreateRobotToken(t) /\ ~LeaveRobot(t)
  <2>1. /\ SameRow(y) /\ UNCHANGED <<readOnly, issued, broken, acct, grants, clock>>
        /\ cred' = [cred EXCEPT ![y.target] =
                      [id |-> y.targetId, expires |-> clock + CredentialTTL, revoked |-> FALSE]]
        /\ Serve(t, y.op)
    BY <1>6 DEF CreateRobotToken, Fixed
  <2> QED
    BY <1>1, <2>1, CreateTokenStep
<1> QED
  BY <1>3, <1>4, <1>5, <1>6

(* Time passes: what was up to date may not be any more.                   *)
LEMMA TickStep ==
    ASSUME IInv, Tick
    PROVE  IInv'
<1>1. /\ UNCHANGED <<readOnly, issued, broken, acct, grants, cred>> /\ clock' = clock + 1
      /\ threads' = Observe(threads)
  BY DEF Tick, Fixed
<1>2. /\ acct' \in [Account -> [id : Nat, enabled : BOOLEAN]]
      /\ grants' \in [Account -> [Repo -> Roles]]
      /\ cred' \in [Account -> [id : Nat, expires : Nat, revoked : BOOLEAN]]
      /\ clock' \in Nat /\ issued' \in Nat /\ threads \in [Thread -> AccessRequest \cup Answer]
  BY <1>1 DEF IInv, AccessTypes
<1>3. ASSUME NEW u \in Thread, threads[u] \in AccessRequest PROVE Ready(threads[u])
  <2>1. Sound(threads[u])
    BY <1>3 DEF IInv, RequestsSound
  <2>2. PeerChecked(threads[u], acct', grants')
    BY <1>1, <2>1 DEF Sound
  <2> QED
    BY <1>3, <2>1, <2>2, StillReady
<1>4. RowsHaveOwners'
  BY <1>1 DEF IInv, RowsHaveOwners, Live
<1>5. \A a \in Robots : acct'[a].id # 0 /\ cred'[a] = NoCred /\ a \notin broken' =>
         \E u \in Thread : /\ threads[u] \in AccessRequest /\ threads[u].pc \in RobotPc
                           /\ threads[u].target = a /\ threads[u].targetId = acct'[a].id
  BY <1>1 DEF IInv, HalfRobots, Live
<1> QED
  BY <1>1, <1>2, <1>3, <1>4, <1>5, GeneralStep

-----------------------------------------------------------------------------
(***************************************************************************)
(* The invariant is one.                                                   *)
(***************************************************************************)

(* It holds at first: nobody is asking anything, and robots are whole.     *)
LEMMA InitInv ==
    ASSUME AccessInit
    PROVE  IInv
<1>1. PICK robots \in SUBSET Robots :
        /\ acct = [a \in Account |-> IF a \in Robots \ robots THEN NoAccount ELSE [id |-> 1, enabled |-> TRUE]]
        /\ grants \in [Account -> [Repo -> InitialRole]]
        /\ \A a \in Account : ~Live(a) \/ a \in Admins => grants[a] = NoGrants
        /\ cred = [a \in Account |-> IF a \in robots THEN [id |-> 1, expires |-> CredentialTTL, revoked |-> FALSE]
                                     ELSE NoCred]
  BY DEF AccessInit
<1>2. /\ readOnly \subseteq Account \ Admins /\ clock = 0 /\ issued = 1
      /\ threads = [t \in Thread |-> Quiet]
  BY DEF AccessInit
<1>3. InitialRole \subseteq Roles /\ CredentialTTL \in Nat /\ Robots \subseteq Account
  BY Access_Constants DEF Roles, Role
<1>4. acct \in [Account -> [id : Nat, enabled : BOOLEAN]]
  BY <1>1 DEF NoAccount
<1>5. cred \in [Account -> [id : Nat, expires : Nat, revoked : BOOLEAN]]
  BY <1>1, <1>3 DEF NoCred
<1>6. grants \in [Account -> [Repo -> Roles]]
  BY <1>1, <1>3
<1>7. AccessTypes
  BY <1>2, <1>4, <1>5, <1>6, Answers DEF AccessTypes
<1>8. RequestsSound
  BY <1>2, Answers, RunningIs DEF RequestsSound
<1>9. RowsHaveOwners
  <2>1. ASSUME NEW a \in Account PROVE (~Live(a) => grants[a] = NoGrants) /\ cred[a].id \in {0, acct[a].id}
    BY <1>1 DEF NoCred, NoAccount
  <2> QED
    BY <2>1 DEF RowsHaveOwners
<1>10. HalfRobots
  <2>1. ASSUME NEW a \in Robots, acct[a].id # 0 PROVE cred[a] # NoCred
    <3>1. a \in robots
      BY <1>1, <1>3, <2>1 DEF NoAccount
    <3> QED
      BY <1>1, <1>3, <3>1 DEF NoCred
  <2> QED
    BY <2>1 DEF HalfRobots, Live
<1> QED
  BY <1>7, <1>8, <1>9, <1>10 DEF IInv

(* It is kept by every step of a request.                                  *)
LEMMA StepInv ==
    ASSUME IInv, NEW t \in Thread, AccessStep(t)
    PROVE  IInv'
<1>1. ASSUME NEW op \in Calls \cup {"deleteRepository"}, CallAnonymously(t, op) PROVE IInv'
  BY <1>1, CallAnonymouslyStep, Kinds
<1>2. ASSUME NEW op \in Calls \cup {"none"}, GrantScopes(t, op) PROVE IInv'
  BY <1>2, GrantScopesStep
<1>3. ASSUME threads[t].pc = "grants", NEW ask \in (IF t \in Client THEN Asks(threads[t]) ELSE AdminAsks),
             NEW failed \in BOOLEAN, BuildPrincipal(t, ask, failed)
      PROVE  IInv'
  BY <1>3, BuildPrincipalStep
<1>4. ASSUME NEW a \in Account, GetTarget(t, a) PROVE IInv'
  BY <1>4, GetTargetStep
<1>5. CASE CreateToken(t)
  <2>1. /\ threads[t].pc \in TargetPc /\ SameRow(threads[t])
        /\ UNCHANGED <<readOnly, issued, broken, acct, grants, clock>>
        /\ cred' = [cred EXCEPT ![threads[t].target] =
                      [id |-> threads[t].targetId, expires |-> clock + CredentialTTL, revoked |-> FALSE]]
        /\ Serve(t, threads[t].op)
    BY <1>5 DEF CreateToken, Fixed, TargetPc
  <2> QED
    BY <2>1, CreateTokenStep
<1>6. CASE LoginWithPassword(t) \/ Relogin(t) \/ GetCredential(t) \/ issueAccessToken(t) \/ GetToken(t) \/ GetAccount(t)
  BY <1>6, LoginWithPasswordStep, ReloginStep, GetCredentialStep, IssueStep, GetTokenStep, GetAccountStep
<1>7. CASE CheckPeer(t) \/ GetAccessor(t) \/ PutRepoGrant(t) \/ DeleteRepoGrant(t) \/ RevokeTokenByAccessor(t)
  BY <1>7, CheckPeerStep, GetAccessorStep, PutOrDeleteGrantStep, RevokeStep
<1>8. CASE DeleteRobot(t) \/ SetUserEnabled(t) \/ WriteRefused(t) \/ InsertRobot(t) \/ Cut(t)
  BY <1>8, DeleteRobotStep, SetUserEnabledStep, WriteRefusedStep, InsertRobotStep, CutStep
<1>9. CASE GrantRobot(t) \/ (\E tooLong \in BOOLEAN : GetRobot(t, tooLong)) \/ CreateRobotToken(t)
  BY <1>9, RobotStep
<1> QED
  BY <1>1, <1>2, <1>3, <1>4, <1>5, <1>6, <1>7, <1>8, <1>9 DEF AccessStep

(* A step that changes nothing.                                            *)
LEMMA StutterInv ==
    ASSUME IInv, UNCHANGED accessVars
    PROVE  IInv'
<1>1. UNCHANGED <<readOnly, acct, grants, cred, clock, issued, threads, broken>>
  BY DEF accessVars
<1>2. AccessTypes' /\ RowsHaveOwners' /\ HalfRobots'
  BY <1>1 DEF IInv, AccessTypes, RowsHaveOwners, HalfRobots, Live
<1>3. \A x : Sound(x)' <=> Sound(x)
  BY <1>1 DEF Sound, Passed, UpToDate, PeerChecked, Allowed, grantedScopes, intersectRequestedActions
<1>4. RequestsSound'
  BY <1>1, <1>3 DEF IInv, RequestsSound
<1> QED
  BY <1>2, <1>4 DEF IInv

(* So it is always true.                                                   *)
LEMMA InvAlways == AccessSpec => []IInv
<1>1. AccessInit => IInv
  BY InitInv
<1>2. IInv /\ [AccessNext]_accessVars => IInv'
  BY StartStep, StepInv, TickStep, StutterInv DEF AccessNext
<1> QED
  BY <1>1, <1>2, PTL DEF AccessSpec

-----------------------------------------------------------------------------
(***************************************************************************)
(* Robots.                                                                 *)
(***************************************************************************)

(* In every behaviour no row outlives its account, and a robot without a   *)
(* credential is being created, or was left by a creation that failed or   *)
(* by a late SetUserEnabled.  (service.go CreateRobot, DeleteRobot,        *)
(* SetUserEnabled; store.go DeleteUser)                                    *)
THEOREM RobotsAlwaysWhole == AccessSpec => []RobotsWhole
<1>1. IInv => RobotsWhole
  BY DEF IInv, RobotsWhole, HalfRobots, HalfRobotsExplained, RobotPc
<1> QED
  BY <1>1, InvAlways, PTL

-----------------------------------------------------------------------------
(***************************************************************************)
(* Whose step it is.                                                       *)
(***************************************************************************)

\* The step of t leaves the others where they are ...
Apart(t) ==
    /\ \A u \in Thread \ {t} : threads[u] \in AccessRequest =>
          threads'[u].pc = threads[u].pc /\ threads'[u].secret = threads[u].secret
    /\ \A u \in Thread \ {t} : threads[u] \in Answer => threads'[u] = threads[u]

\* ... and t is done, or authenticates as before.
Own(t) == Apart(t) /\ (threads'[t].pc = "idle" \/ threads'[t].secret = threads[t].secret)

(* A step of one request.                                                  *)
LEMMA SetApart ==
    ASSUME IInv, NEW t \in Thread, NEW x, Set(t, x)
    PROVE  Apart(t)
<1> DEFINE ts == [threads EXCEPT ![t] = x]
<1>1. threads' = Observe(ts) /\ \A u \in Thread \ {t} : ts[u] = threads[u]
  BY DEF Set, IInv, AccessTypes
<1> HIDE DEF ts
<1>2. ASSUME NEW u \in Thread \ {t}, threads[u] \in AccessRequest
      PROVE  threads'[u].pc = threads[u].pc /\ threads'[u].secret = threads[u].secret
  BY <1>1, <1>2 DEF Observe, AccessRequest
<1>3. ASSUME NEW u \in Thread \ {t}, threads[u] \in Answer PROVE threads'[u] = threads[u]
  BY <1>1, <1>3, RunningIs DEF Observe
<1> QED
  BY <1>2, <1>3 DEF Apart

(* A step of one request that answers it or keeps its secret.              *)
LEMMA SetOwn ==
    ASSUME IInv, NEW t \in Thread, NEW x, Set(t, x),
           x \in Answer \/ ({"pc", "secret"} \subseteq DOMAIN x /\ x.secret = threads[t].secret)
    PROVE  Own(t)
<1> DEFINE ts == [threads EXCEPT ![t] = x]
<1>1. threads' = Observe(ts) /\ ts[t] = x
  BY DEF Set, IInv, AccessTypes
<1> HIDE DEF ts
<1>2. CASE x \in Answer
  BY <1>1, <1>2, RunningIs, SetApart DEF Observe, Own
<1>3. CASE {"pc", "secret"} \subseteq DOMAIN x /\ x.secret = threads[t].secret
  BY <1>1, <1>3, SetApart DEF Observe, Own
<1> QED
  BY <1>2, <1>3

(* A step that writes a grant.                                             *)
LEMMA GrantOwn ==
    ASSUME IInv, NEW t \in Thread, NEW a, NEW r, NEW role, NEW x, WriteGrant(t, a, r, role, x),
           x \in Answer \/ ({"pc", "secret"} \subseteq DOMAIN x /\ x.secret = threads[t].secret)
    PROVE  Own(t)
<1> DEFINE Told(u) == threads[u].pc = "write" /\ threads[u].target = a /\ threads[u].repo = r /\ role = "admin"
           ts == [u \in Thread |-> IF u = t THEN x
                                   ELSE IF Told(u) THEN [threads[u] EXCEPT !.peerSince = TRUE] ELSE threads[u]]
<1>1. threads' = Observe(ts) /\ ts[t] = x
  BY DEF WriteGrant
<1>2. ASSUME NEW u \in Thread \ {t}, threads[u] \in AccessRequest
      PROVE  /\ {"pc", "secret"} \subseteq DOMAIN ts[u]
             /\ ts[u].pc = threads[u].pc /\ ts[u].secret = threads[u].secret
  BY <1>2 DEF AccessRequest
<1>3. ASSUME NEW u \in Thread \ {t}, threads[u] \in Answer PROVE ts[u] = threads[u]
  BY <1>3 DEF Answer
<1> HIDE DEF ts
<1>4. ASSUME NEW u \in Thread \ {t}, threads[u] \in AccessRequest
      PROVE  threads'[u].pc = threads[u].pc /\ threads'[u].secret = threads[u].secret
  BY <1>1, <1>2, <1>4 DEF Observe
<1>5. ASSUME NEW u \in Thread \ {t}, threads[u] \in Answer PROVE threads'[u] = threads[u]
  BY <1>1, <1>3, <1>5, RunningIs DEF Observe
<1>6. threads'[t].pc = "idle" \/ threads'[t].secret = threads[t].secret
  <2>1. CASE x \in Answer
    BY <1>1, <2>1, RunningIs DEF Observe
  <2>2. CASE {"pc", "secret"} \subseteq DOMAIN x /\ x.secret = threads[t].secret
    BY <1>1, <2>2 DEF Observe
  <2> QED
    BY <2>1, <2>2
<1> QED
  BY <1>4, <1>5, <1>6 DEF Own, Apart

(* Answers end a request.                                                  *)
LEMMA AnswerOwn ==
    ASSUME IInv, NEW t \in Thread, Refuse(t) \/ GiveUp(t) \/ (\E op \in Ops \cup {"none"} : Serve(t, op))
    PROVE  Own(t)
BY Answers, SetOwn DEF Refuse, GiveUp, Serve

(* So does every step of a request.                                        *)
LEMMA StepOwn ==
    ASSUME IInv, NEW t \in Thread, AccessStep(t)
    PROVE  Own(t) /\ threads[t] \in AccessRequest
<1> DEFINE y == threads[t]
<1>0. y \in AccessRequest \cup Answer
  BY DEF IInv, AccessTypes
<1>1. y \in AccessRequest
  <2>1. CASE Cut(t)
    BY <1>0, <2>1, RunningIs DEF Cut
  <2>2. CASE \E a \in Account : GetTarget(t, a)
    BY <1>0, <2>2 DEF GetTarget, Answer
  <2>3. CASE y.pc # "idle"
    BY <1>0, <2>3, RunningIs
  <2> QED
    BY <2>1, <2>2, <2>3
       DEF AccessStep, CallAnonymously, LoginWithPassword, Relogin, GetCredential, GrantScopes,
           issueAccessToken, GetToken, GetAccount, CheckPeer, GetAccessor, PutRepoGrant,
           DeleteRepoGrant, CreateToken, RevokeTokenByAccessor, DeleteRobot, SetUserEnabled,
           WriteRefused, InsertRobot, GrantRobot, GetRobot, CreateRobotToken
<1> SUFFICES Own(t)
  BY <1>1
<1>2. y.op \in Ops \cup {"none"}
  BY <1>1 DEF AccessRequest
<1>3. CASE \E op \in Calls \cup {"deleteRepository"} : CallAnonymously(t, op)
  BY <1>3, AnswerOwn, Kinds DEF CallAnonymously
<1>4. CASE Refuse(t) \/ GiveUp(t) \/ Serve(t, y.op)
  BY <1>2, <1>4, AnswerOwn
<1>5. CASE LoginWithPassword(t) /\ ~Refuse(t)
  <2> DEFINE x == [y EXCEPT !.pc = "scopes", !.id = acct[y.who].id]
             z == [y EXCEPT !.pc = "relogin"]
  <2>1. Set(t, x) \/ Set(t, z)
    BY <1>5 DEF LoginWithPassword, Goto
  <2>2. /\ {"pc", "secret"} \subseteq DOMAIN x /\ x.secret = y.secret
        /\ {"pc", "secret"} \subseteq DOMAIN z /\ z.secret = y.secret
    BY <1>1 DEF AccessRequest
  <2> HIDE DEF x, z
  <2> QED
    BY <2>1, <2>2, SetOwn
<1>6. CASE Relogin(t) /\ ~Refuse(t)
  <2> DEFINE x == [y EXCEPT !.pc = "credential", !.id = acct[y.who].id]
  <2>1. Set(t, x)
    BY <1>6 DEF Relogin
  <2>2. {"pc", "secret"} \subseteq DOMAIN x /\ x.secret = y.secret
    BY <1>1 DEF AccessRequest
  <2> HIDE DEF x
  <2> QED
    BY <2>1, <2>2, SetOwn
<1>7. CASE /\ \/ GetCredential(t) \/ GetToken(t) \/ GetAccount(t) \/ CheckPeer(t) \/ GetAccessor(t)
              \/ \E tooLong \in BOOLEAN : GetRobot(t, tooLong)
           /\ ~Refuse(t)
  <2>1. PICK pc : Set(t, [y EXCEPT !.pc = pc])
    BY <1>7 DEF GetCredential, GetToken, GetAccount, CheckPeer, GetAccessor, GetRobot, LeaveRobot, Goto
  <2>2. {"pc", "secret"} \subseteq DOMAIN [y EXCEPT !.pc = pc] /\ [y EXCEPT !.pc = pc].secret = y.secret
    BY <1>1 DEF AccessRequest
  <2> QED
    BY <2>1, <2>2, SetOwn
<1>8. CASE \E op \in Calls \cup {"none"} : GrantScopes(t, op)
  <2>1. PICK op, s : Set(t, [y EXCEPT !.pc = "mint", !.op = op, !.scope = s])
    BY <1>8 DEF GrantScopes
  <2> DEFINE x == [y EXCEPT !.pc = "mint", !.op = op, !.scope = s]
  <2>2. {"pc", "secret"} \subseteq DOMAIN x /\ x.secret = y.secret
    BY <1>1 DEF AccessRequest
  <2>3. Set(t, x)
    BY <2>1
  <2> HIDE DEF x
  <2> QED
    BY <2>2, <2>3, SetOwn
<1>9. CASE issueAccessToken(t) /\ ~Refuse(t)
  <2> DEFINE x == [y EXCEPT !.pc = "call", !.expires = clock + AccessTTL]
  <2>1. Set(t, x)
    BY <1>9 DEF issueAccessToken
  <2>2. {"pc", "secret"} \subseteq DOMAIN x /\ x.secret = y.secret
    BY <1>1 DEF AccessRequest
  <2> HIDE DEF x
  <2> QED
    BY <2>1, <2>2, SetOwn
<1>10. ASSUME NEW ask \in (IF t \in Client THEN Asks(y) ELSE AdminAsks), NEW failed \in BOOLEAN,
              BuildPrincipal(t, ask, failed), y.pc = "grants"
       PROVE  Own(t)
  <2>1. ask.op \in Ops
    <3>1. Sound(y) /\ readOnly \subseteq Account \ Admins
      BY <1>10, OfThread
    <3> QED
      BY <1>1, <1>10, <3>1, AskTypes
  <2> DEFINE role == IF failed THEN "none" ELSE grants[y.who][y.repo]
             x == [y EXCEPT !.role = role, !.op = ask.op, !.scope = ask.scope, !.grant = ask.grant]
             z == [x EXCEPT !.pc = "target"]
  <2>2. Refuse(t) \/ GiveUp(t) \/ Serve(t, x.op) \/ Set(t, z)
    BY <1>10 DEF BuildPrincipal
  <2> HIDE DEF role
  <2>3. {"pc", "secret"} \subseteq DOMAIN z /\ z.secret = y.secret /\ x.op = ask.op
    BY <1>1 DEF AccessRequest
  <2> HIDE DEF x, z
  <2> QED
    BY <2>1, <2>2, <2>3, AnswerOwn, SetOwn
<1>11. ASSUME NEW a \in Account, GetTarget(t, a) PROVE Own(t)
  <2> DEFINE x == [y EXCEPT !.target = a, !.targetId = acct[a].id]
  <2>1. Refuse(t) \/ \E pc : Set(t, [x EXCEPT !.pc = pc])
    BY <1>11 DEF GetTarget
  <2>2. \A pc : {"pc", "secret"} \subseteq DOMAIN [x EXCEPT !.pc = pc] /\ [x EXCEPT !.pc = pc].secret = y.secret
    BY <1>1 DEF AccessRequest
  <2> HIDE DEF x
  <2> QED
    BY <2>1, <2>2, AnswerOwn, SetOwn
<1>12. CASE PutRepoGrant(t) \/ DeleteRepoGrant(t)
  <2>1. \E role : WriteGrant(t, y.target, y.repo, role, [Quiet EXCEPT !.served = y.op])
    BY <1>12 DEF PutRepoGrant, DeleteRepoGrant
  <2> QED
    BY <1>2, <2>1, Answers, GrantOwn
<1>13. CASE InsertRobot(t) /\ ~Refuse(t)
  <2> DEFINE x == [y EXCEPT !.pc = "robotGrant", !.targetId = issued + 1]
  <2>1. Set(t, x)
    BY <1>13 DEF InsertRobot
  <2>2. {"pc", "secret"} \subseteq DOMAIN x /\ x.secret = y.secret
    BY <1>1 DEF AccessRequest
  <2> HIDE DEF x
  <2> QED
    BY <2>1, <2>2, SetOwn
<1>14. CASE GrantRobot(t) /\ ~Refuse(t)
  <2> DEFINE x == [y EXCEPT !.pc = "robotAccount"]
  <2>1. WriteGrant(t, y.target, y.repo, y.grant, x)
    BY <1>14 DEF GrantRobot, LeaveRobot
  <2>2. {"pc", "secret"} \subseteq DOMAIN x /\ x.secret = y.secret
    BY <1>1 DEF AccessRequest
  <2> HIDE DEF x
  <2> QED
    BY <2>1, <2>2, GrantOwn
<1>15. CASE \/ CreateToken(t) \/ RevokeTokenByAccessor(t) \/ DeleteRobot(t) \/ SetUserEnabled(t)
            \/ WriteRefused(t) \/ CreateRobotToken(t) \/ Cut(t)
  BY <1>4, <1>15 DEF CreateToken, RevokeTokenByAccessor, DeleteRobot, SetUserEnabled, WriteRefused,
                     CreateRobotToken, Cut, LeaveRobot
<1> QED
  BY <1>1, <1>3, <1>4, <1>5, <1>6, <1>7, <1>8, <1>9, <1>10, <1>11, <1>12, <1>13, <1>14, <1>15 DEF AccessStep

(* Who goes on, or is answered, has taken the step.                        *)
LEMMA Mover ==
    ASSUME IInv, [AccessNext]_accessVars, NEW t \in Thread, threads[t] \in AccessRequest,
           threads'[t].pc # threads[t].pc
    PROVE  AccessStep(t)
<1>1. CASE UNCHANGED accessVars
  BY <1>1 DEF accessVars
<1>2. CASE Tick
  BY <1>2 DEF Tick, Observe, AccessRequest
<1>3. ASSUME NEW u \in Thread, AccessStart(u) PROVE FALSE
  <2>1. PICK x : Begin(u, x)
    BY <1>3 DEF AccessStart, BeginAnonymous, BeginWithToken, BeginLogin
  <2>2. u # t
    BY <2>1, RunningIs DEF Begin
  <2> QED
    BY <2>1, <2>2, SetApart DEF Begin, Apart
<1>4. ASSUME NEW u \in Thread, u # t, AccessStep(u) PROVE FALSE
  BY <1>4, StepOwn DEF Own, Apart
<1> QED
  BY <1>1, <1>2, <1>3, <1>4 DEF AccessNext

\* Only the requests of a client log in: operators keep a session open.
Sessions ==
    \A t \in Thread : threads[t] \in AccessRequest /\ threads[t].secret # "token" => t \in Client

(* A request that begins has the secret it was given.                      *)
LEMMA StartSecret ==
    ASSUME IInv, NEW t \in Thread, AccessStart(t)
    PROVE  Apart(t) /\ (threads'[t].secret = "token" \/ t \in Client)
<1>1. \/ t \in Client
      \/ \E who \in Account, repo \in Repo : Begin(t, NewRequest("account", who, "token", repo))
  BY DEF AccessStart, BeginWithToken
<1>2. PICK begun : Begin(t, begun)
  BY DEF AccessStart, BeginAnonymous, BeginWithToken, BeginLogin
<1>3. ASSUME NEW who \in Account, NEW repo \in Repo, Begin(t, NewRequest("account", who, "token", repo))
      PROVE  threads'[t].secret = "token"
  <2> DEFINE x == NewRequest("account", who, "token", repo)
             ts == [threads EXCEPT ![t] = x]
  <2>1. "account" \in Pc
    BY DEF Pc, Verified
  <2>2. x \in AccessRequest /\ x.secret = "token"
    BY <2>1, NewRequestFields
  <2>3. Set(t, x)
    BY <1>3 DEF Begin
  <2> HIDE DEF x
  <2>4. threads' = Observe(ts) /\ ts[t] = x
    BY <2>3 DEF Set, IInv, AccessTypes
  <2> HIDE DEF ts
  <2> QED
    BY <2>2, <2>4 DEF Observe, AccessRequest
<1> QED
  BY <1>1, <1>2, <1>3, SetApart DEF Begin

(* Operators' sessions stay what they are.                                 *)
LEMMA SessionsAlways == AccessSpec => []Sessions
<1>1. AccessInit => Sessions
  BY Answers, RunningIs DEF AccessInit, Sessions
<1>2. ASSUME IInv, Sessions, IInv', [AccessNext]_accessVars PROVE Sessions'
  <2>1. CASE UNCHANGED accessVars
    BY <1>2, <2>1 DEF accessVars, Sessions
  <2>2. CASE Tick
    <3>1. ASSUME NEW u \in Thread, threads'[u] \in AccessRequest
          PROVE  threads[u] \in AccessRequest /\ threads'[u].secret = threads[u].secret
      <4>1. threads[u] \in AccessRequest \cup Answer
        BY <1>2 DEF IInv, AccessTypes
      <4>2. CASE threads[u] \in AccessRequest
        BY <2>2, <4>2 DEF Tick, Observe, AccessRequest
      <4>3. CASE threads[u] \in Answer
        BY <2>2, <3>1, <4>3, RunningIs DEF Tick, Observe
      <4> QED
        BY <4>1, <4>2, <4>3
    <3> QED
      BY <1>2, <3>1 DEF Sessions
  <2>3. ASSUME NEW t \in Thread, Apart(t), threads'[t].secret = "token" \/ t \in Client \/ threads'[t].pc = "idle"
        PROVE  Sessions'
    <3>1. ASSUME NEW u \in Thread, threads'[u] \in AccessRequest, threads'[u].secret # "token" PROVE u \in Client
      <4>1. CASE u = t
        BY <2>3, <3>1, <4>1, RunningIs
      <4>2. CASE u # t
        <5>1. threads[u] \in AccessRequest
          BY <1>2, <2>3, <3>1, <4>2, RunningIs DEF Apart, IInv, AccessTypes
        <5> QED
          BY <1>2, <2>3, <3>1, <4>2, <5>1 DEF Apart, Sessions
      <4> QED
        BY <4>1, <4>2
    <3> QED
      BY <3>1 DEF Sessions
  <2>4. ASSUME NEW t \in Thread, AccessStart(t) PROVE Sessions'
    BY <1>2, <2>3, <2>4, StartSecret
  <2>5. ASSUME NEW t \in Thread, AccessStep(t) PROVE Sessions'
    <3>1. Own(t) /\ threads[t] \in AccessRequest
      BY <1>2, <2>5, StepOwn
    <3> QED
      BY <1>2, <2>3, <3>1 DEF Own, Sessions
  <2> QED
    BY <1>2, <2>1, <2>2, <2>4, <2>5 DEF AccessNext
<1> QED
  BY <1>1, <1>2, InvAlways, PTL DEF AccessSpec

-----------------------------------------------------------------------------
(***************************************************************************)
(* What logins and delegates may gain.                                     *)
(***************************************************************************)

(* Which step changes grants.                                              *)
LEMMA GrantsKept ==
    ASSUME NEW t \in Thread, AccessStep(t), grants' # grants
    PROVE  PutRepoGrant(t) \/ DeleteRepoGrant(t) \/ GrantRobot(t) \/ DeleteRobot(t)
<1>1. ~Steady /\ ~LeaveRobot(t)
  BY DEF Steady, LeaveRobot, world
<1> QED
  BY <1>1 DEF AccessStep, CallAnonymously, LoginWithPassword, Relogin, GetCredential, GrantScopes,
              issueAccessToken, GetToken, GetAccount, BuildPrincipal, GetTarget, CheckPeer, GetAccessor,
              CreateToken, RevokeTokenByAccessor, SetUserEnabled, WriteRefused, InsertRobot, GetRobot,
              CreateRobotToken, Cut, world

(* What a request that is no global administrator's does to a grant.       *)
LEMMA Delegate ==
    ASSUME IInv, NEW t \in Thread, AccessStep(t), threads[t] \in AccessRequest, threads[t].who \notin Admins,
           NEW a \in Account, NEW r \in Repo, grants'[a][r] # grants[a][r]
    PROVE  grants'[a][r] # "admin" /\ (grants[a][r] = "admin" => threads[t].peerSince)
<1> DEFINE y == threads[t]
<1>1. Sound(y)
  BY DEF IInv, RequestsSound
<1>2. y.pc \in AdminPc => y.op \notin AdminOps
  BY <1>1 DEF Sound, Passed
<1>3. PutRepoGrant(t) \/ DeleteRepoGrant(t)
  <2>1. ~GrantRobot(t)
    BY <1>1, <1>2, Kinds DEF GrantRobot, Sound, Passed, AdminPc, TargetPc, RobotPc
  <2>2. ~DeleteRobot(t)
    BY <1>2, Kinds DEF DeleteRobot, AdminPc, TargetPc
  <2> QED
    BY <2>1, <2>2, GrantsKept
<1>4. y.pc = "write" /\ SameRow(y) /\ y.op \in DelegatedOps /\ y.grant # "admin"
  <2>1. y.pc = "write" /\ SameRow(y) /\ y.op \in {"putGrant", "putRepositoryGrant", "deleteGrant", "deleteRepositoryGrant"}
    BY <1>3 DEF PutRepoGrant, DeleteRepoGrant
  <2> QED
    BY <1>1, <1>2, <2>1, Kinds DEF Sound, Passed, AdminPc, TargetPc
<1>5. PICK role : grants' = [grants EXCEPT ![y.target][y.repo] = role] /\ role \in {y.grant, "none"}
  BY <1>3 DEF PutRepoGrant, DeleteRepoGrant, WriteGrant
<1>6. y.target \in Account /\ y.repo \in Repo
  BY DEF AccessRequest
<1>7. a = y.target /\ r = y.repo /\ grants'[a][r] = role
  BY <1>5, <1>6 DEF IInv, AccessTypes
<1> QED
  BY <1>1, <1>4, <1>5, <1>7 DEF Sound, PeerChecked, SameRow

(* In every behaviour a login grants no action that its account's role did *)
(* not cover, only a global administrator makes somebody a repository      *)
(* administrator, and a delegate overwrites the grant of one only if it    *)
(* was made after the delegate looked.  (service.go intersectRequested-    *)
(* Actions, PutRepositoryGrant, DeleteRepositoryGrant)                     *)
THEOREM EscalationIsBounded == AccessSpec => EscalationBounds
<1> DEFINE Bound == \A t \in Thread, a \in Account, r \in Repo :
                      ( /\ Running(threads[t]) /\ threads'[t].pc # threads[t].pc
                        /\ grants'[a][r] # grants[a][r] /\ threads[t].who \notin Admins ) =>
                           /\ grants'[a][r] # "admin"
                           /\ grants[a][r] = "admin" => threads[t].peerSince
<1>1. IInv => ScopesWithinRights
  <2>1. ASSUME IInv, NEW t \in Thread, threads[t].pc \in {"mint", "call"},
               NEW action \in threads[t].scope \ {"catalog"}
        PROVE  \E role \in threads[t].roles \cup {grants[threads[t].who][threads[t].repo]} :
                  Allowed(threads[t].who, action, role)
    <3>1. Sound(threads[t])
      BY <2>1, OfThread
    <3> QED
      BY <2>1, <3>1 DEF Sound, Passed
  <2> QED
    BY <2>1 DEF ScopesWithinRights
<1>2. ASSUME IInv, [AccessNext]_accessVars PROVE Bound
  <2> SUFFICES ASSUME NEW t \in Thread, NEW a \in Account, NEW r \in Repo,
                      Running(threads[t]), threads'[t].pc # threads[t].pc,
                      grants'[a][r] # grants[a][r], threads[t].who \notin Admins
               PROVE  grants'[a][r] # "admin" /\ (grants[a][r] = "admin" => threads[t].peerSince)
    OBVIOUS
  <2>1. threads[t] \in AccessRequest
    BY <1>2, RunningIs DEF IInv, AccessTypes
  <2> QED
    BY <1>2, <2>1, Mover, Delegate
<1>3. IInv /\ IInv' /\ [AccessNext]_accessVars => [ScopesWithinRights' /\ Bound]_accessVars
  <2>1. IInv' => ScopesWithinRights'
    BY <1>1, PTL
  <2> QED
    BY <1>2, <2>1
<1> QED
  BY <1>3, InvAlways, PTL DEF AccessSpec, EscalationBounds

-----------------------------------------------------------------------------
(***************************************************************************)
(* Who is served and who is refused.                                       *)
(***************************************************************************)

(* What a thread shows after its step.                                     *)
LEMMA Shown ==
    ASSUME IInv, NEW t \in Thread
    PROVE  /\ \A x \in Answer : Set(t, x) => threads'[t] = x
           /\ \A x : Set(t, x) /\ "pc" \in DOMAIN x /\ x.pc # "idle" => Running(threads'[t])
           /\ Refuse(t) => threads'[t].served = "refused"
           /\ GiveUp(t) => threads'[t].served = "none"
           /\ \A op \in Ops : Serve(t, op) => threads'[t].served = op
<1>1. ASSUME NEW x, Set(t, x) PROVE \E ts : threads' = Observe(ts) /\ ts[t] = x
  <2> DEFINE ts == [threads EXCEPT ![t] = x]
  <2>1. threads' = Observe(ts) /\ ts[t] = x
    BY <1>1 DEF Set, IInv, AccessTypes
  <2> QED
    BY <2>1
<1>2. ASSUME NEW x \in Answer, Set(t, x) PROVE threads'[t] = x
  <2>1. PICK ts : threads' = Observe(ts) /\ ts[t] = x
    BY <1>1, <1>2
  <2> QED
    BY <1>2, <2>1, RunningIs DEF Observe
<1>3. ASSUME NEW x, Set(t, x), "pc" \in DOMAIN x, x.pc # "idle" PROVE Running(threads'[t])
  <2>1. PICK ts : threads' = Observe(ts) /\ ts[t] = x
    BY <1>1, <1>3
  <2>2. threads'[t].pc = x.pc
    BY <1>3, <2>1 DEF Observe
  <2> QED
    BY <1>3, <2>2 DEF Running
<1> QED
  BY <1>2, <1>3, Answers DEF Refuse, GiveUp, Serve

(* A request that may administer is entitled to what it asks for.          *)
LEMMA AdminEntitled ==
    ASSUME NEW y \in AccessRequest, Sound(y), y.pc \in AdminPc
    PROVE  /\ y.secret # "none" /\ y.secretSeen /\ y.accountSeen /\ y.op \in Ops
           /\ \E role \in y.roles : Entitled(y.who, y.op, role)
<1>1. /\ y.secret # "none" /\ y.secretSeen /\ y.accountSeen
      /\ y.op \in AdminOps \cup DelegatedOps /\ (y.op \in AdminOps => y.who \in Admins)
      /\ y.who \in Admins \/ "admin" \in y.roles
  BY DEF Sound, Passed, Verified, Admitted, AdminPc, TargetPc, RobotPc
<1>2. grants[y.who][y.repo] \in y.roles
  BY DEF Sound
<1>3. CASE y.who \in Admins
  BY <1>1, <1>2, <1>3, Kinds DEF Entitled
<1>4. CASE y.who \notin Admins
  BY <1>1, <1>4, Kinds DEF Entitled
<1> QED
  BY <1>1, <1>3, <1>4, Kinds

(* A principal that is served at once is entitled too.                     *)
LEMMA PrincipalEntitled ==
    ASSUME readOnly \subseteq Account \ Admins, NEW x, x.who \in Account, Demanded(x),
           x.op \in Calls \cup {"deleteRepository"},
           x.who \in readOnly => x.scope \cap {"push", "delete"} = {},
           NEW role, x.role \in {"none", role}
    PROVE  Entitled(x.who, x.op, role)
<1>1. CASE x.op \in Calls
  <2> DEFINE verb == V2[x.op].demands
  <2>1. verb \in Verb /\ principalAuthorize(x, verb)
    BY <1>1, Announced, Kinds DEF Demanded
  <2> HIDE DEF verb
  <2>2. Allowed(x.who, verb, x.role)
    BY <2>1, LetThrough
  <2>3. Allowed(x.who, verb, role)
    BY <2>1, <2>2, AllowedWithoutGrant
  <2> QED
    BY <1>1, <2>3, Kinds DEF Entitled, verb
<1>2. CASE x.op = "deleteRepository"
  BY <1>2, Kinds DEF Demanded, isRepoAdmin, AllowsAdmin, Entitled
<1> QED
  BY <1>1, <1>2

(* What the controller of an open registry leaves open.                    *)
LEMMA OpenCalls ==
    ASSUME NEW op \in Calls, configurableAuthorize(V2[op].demands, controller.flags)
    PROVE  OpenToAnybody(op)
<1>1. op \in {"startUpload", "upload", "putManifest"} => V2[op].demands = "push"
  BY DEF V2, handleUploadStart, handleUploadState, handleManifest
<1>2. op = "deleteManifest" => V2[op].demands = "delete"
  BY DEF V2, handleManifest
<1>3. op \notin {"startUpload", "upload", "putManifest"} => V2[op].demands # "push"
  BY DEF Calls, V2, handleCatalog, handleBlobRead, handleManifest, handleManifestScanStatus,
         handleTags, handleReferrers
<1> QED
  BY <1>1, <1>2, <1>3 DEF OpenToAnybody, configurableAuthorize

(* A step that serves its request.                                         *)
LEMMA ServingStep ==
    ASSUME IInv, NEW t \in Thread, AccessStep(t), threads[t] \in AccessRequest,
           ~Running(threads'[t]), threads'[t].served \in Ops
    PROVE  IF threads[t].secret = "none"
           THEN controller.kind = "local" \/ (controller.kind = "configurable" /\ OpenToAnybody(threads'[t].served))
           ELSE /\ threads[t].secretSeen /\ threads[t].accountSeen
                /\ \E role \in threads[t].roles : Entitled(threads[t].who, threads'[t].served, role)
<1> DEFINE y == threads[t]
<1>1. /\ Sound(y) /\ y.who \in Account /\ readOnly \subseteq Account \ Admins
      /\ grants[y.who][y.repo] \in Roles /\ y.op \in Ops \cup {"none"}
  BY OfThread, RunningIs DEF AccessRequest
<1>2. ~Refuse(t) /\ ~GiveUp(t)
  BY Shown, Kinds
<1>3. ASSUME NEW op \in Calls \cup {"deleteRepository"}, CallAnonymously(t, op)
      PROVE  /\ y.secret = "none"
             /\ controller.kind = "local" \/ (controller.kind = "configurable" /\ OpenToAnybody(threads'[t].served))
  <2>1. y.secret = "none" /\ anonymousAuthorize(op) /\ Serve(t, op)
    BY <1>1, <1>2, <1>3 DEF CallAnonymously, Sound, Passed
  <2>2. threads'[t].served = op
    BY <2>1, Shown, Kinds
  <2> QED
    BY <2>1, <2>2, OpenCalls DEF anonymousAuthorize
<1>4. ASSUME NEW ask \in Asks(y) \cup AdminAsks, NEW failed \in BOOLEAN,
             y.pc = "grants", BuildPrincipal(t, ask, failed)
      PROVE  /\ y.secret # "none" /\ y.secretSeen /\ y.accountSeen
             /\ \E role \in y.roles : Entitled(y.who, threads'[t].served, role)
  <2> DEFINE role == IF failed THEN "none" ELSE grants[y.who][y.repo]
             x == [y EXCEPT !.role = role, !.op = ask.op, !.scope = ask.scope, !.grant = ask.grant]
             z == [x EXCEPT !.pc = "target"]
  <2>1. /\ ask.op \in Ops /\ ask.scope \in SUBSET Action /\ ask.grant \in Roles
        /\ y.who \in readOnly => ask.scope \cap {"push", "delete"} = {}
    BY <1>1, <1>4, AskTypes
  <2>2. \/ Demanded(x) /\ x.op \notin AdminOps \cup DelegatedOps /\ Serve(t, x.op)
        \/ Set(t, z)
    BY <1>2, <1>4 DEF BuildPrincipal
  <2>3. role \in {"none", grants[y.who][y.repo]}
    OBVIOUS
  <2> HIDE DEF role
  <2>4. /\ "pc" \in DOMAIN z /\ z.pc = "target" /\ x.op = ask.op /\ x.who = y.who
        /\ x.scope = ask.scope /\ x.role = role
    BY DEF AccessRequest
  <2> HIDE DEF x, z
  <2>5. Demanded(x) /\ x.op \in Calls \cup {"deleteRepository"} /\ Serve(t, x.op)
    BY <2>1, <2>2, <2>4, Shown, Kinds
  <2>6. Entitled(x.who, x.op, grants[y.who][y.repo])
    BY <1>1, <2>1, <2>3, <2>4, <2>5, PrincipalEntitled
  <2>7. threads'[t].served = x.op
    BY <2>1, <2>4, <2>5, Shown
  <2>8. /\ y.secret # "none" /\ y.secretSeen /\ y.accountSeen /\ grants[y.who][y.repo] \in y.roles
    BY <1>1, <1>4 DEF Sound, Passed, Verified, Admitted
  <2> QED
    BY <2>4, <2>6, <2>7, <2>8
<1>5. ASSUME Serve(t, y.op), y.pc \in AdminPc
      PROVE  /\ y.secret # "none" /\ y.secretSeen /\ y.accountSeen
             /\ \E role \in y.roles : Entitled(y.who, threads'[t].served, role)
  BY <1>1, <1>5, AdminEntitled, Shown
<1>6. CASE PutRepoGrant(t) \/ DeleteRepoGrant(t)
  <2> DEFINE a == [Quiet EXCEPT !.served = y.op]
  <2>1. y.pc \in AdminPc /\ \E role : WriteGrant(t, y.target, y.repo, role, a)
    BY <1>6 DEF PutRepoGrant, DeleteRepoGrant, AdminPc, TargetPc
  <2>2. a \in Answer /\ a.served = y.op
    BY <1>1, Answers
  <2> HIDE DEF a
  <2>3. threads'[t] = a
    BY <2>1, <2>2, RunningIs DEF WriteGrant, Observe
  <2> QED
    BY <1>1, <2>1, <2>2, <2>3, AdminEntitled
<1>7. CASE GrantRobot(t)
  <2> DEFINE x == [y EXCEPT !.pc = "robotAccount"]
  <2>1. \E role : WriteGrant(t, y.target, y.repo, role, x)
    BY <1>2, <1>7 DEF GrantRobot, LeaveRobot
  <2>2. "pc" \in DOMAIN x /\ x.pc = "robotAccount"
    BY DEF AccessRequest
  <2> HIDE DEF x
  <2>3. PICK role : WriteGrant(t, y.target, y.repo, role, x)
    BY <2>1
  <2> DEFINE ts == [u \in Thread |->
                      IF u = t THEN x
                      ELSE IF /\ threads[u].pc = "write" /\ threads[u].target = y.target
                              /\ threads[u].repo = y.repo /\ role = "admin"
                      THEN [threads[u] EXCEPT !.peerSince = TRUE] ELSE threads[u]]
  <2>4. threads' = Observe(ts) /\ ts[t] = x
    BY <2>3 DEF WriteGrant
  <2> HIDE DEF ts
  <2>5. threads'[t].pc = x.pc
    BY <2>2, <2>4 DEF Observe
  <2> QED
    BY <2>2, <2>5 DEF Running
<1>8. CASE CreateToken(t) \/ RevokeTokenByAccessor(t) \/ DeleteRobot(t) \/ SetUserEnabled(t) \/ CreateRobotToken(t)
  BY <1>2, <1>5, <1>8 DEF CreateToken, RevokeTokenByAccessor, DeleteRobot, SetUserEnabled, CreateRobotToken,
                          LeaveRobot, AdminPc, TargetPc, RobotPc
<1>9. ASSUME NEW pc, pc # "idle", Goto(t, pc) PROVE FALSE
  <2>1. "pc" \in DOMAIN [y EXCEPT !.pc = pc] /\ [y EXCEPT !.pc = pc].pc = pc
    BY DEF AccessRequest
  <2> QED
    BY <1>9, <2>1, Shown DEF Goto
<1>10. CASE \/ GetCredential(t) \/ GetToken(t) \/ GetAccount(t) \/ CheckPeer(t) \/ GetAccessor(t)
            \/ WriteRefused(t) \/ Cut(t) \/ \E tooLong \in BOOLEAN : GetRobot(t, tooLong)
  BY <1>2, <1>9, <1>10
     DEF GetCredential, GetToken, GetAccount, CheckPeer, GetAccessor, WriteRefused, Cut, GetRobot, LeaveRobot
<1>11. CASE LoginWithPassword(t) \/ Relogin(t)
  <2>1. \E pc \in {"scopes", "credential"} : Set(t, [y EXCEPT !.pc = pc, !.id = acct[y.who].id])
    BY <1>2, <1>9, <1>11 DEF LoginWithPassword, Relogin
  <2>2. \A pc : /\ "pc" \in DOMAIN [y EXCEPT !.pc = pc, !.id = acct[y.who].id]
                /\ [y EXCEPT !.pc = pc, !.id = acct[y.who].id].pc = pc
    BY DEF AccessRequest
  <2> QED
    BY <2>1, <2>2, Shown
<1>12. CASE (\E op \in Calls \cup {"none"} : GrantScopes(t, op)) \/ issueAccessToken(t)
  <2>1. \/ \E op, s : Set(t, [y EXCEPT !.pc = "mint", !.op = op, !.scope = s])
        \/ Set(t, [y EXCEPT !.pc = "call", !.expires = clock + AccessTTL])
    BY <1>2, <1>12 DEF GrantScopes, issueAccessToken
  <2>2. \A op, s : /\ "pc" \in DOMAIN [y EXCEPT !.pc = "mint", !.op = op, !.scope = s]
                   /\ [y EXCEPT !.pc = "mint", !.op = op, !.scope = s].pc = "mint"
    BY DEF AccessRequest
  <2>3. /\ "pc" \in DOMAIN [y EXCEPT !.pc = "call", !.expires = clock + AccessTTL]
        /\ [y EXCEPT !.pc = "call", !.expires = clock + AccessTTL].pc = "call"
    BY DEF AccessRequest
  <2> QED
    BY <2>1, <2>2, <2>3, Shown
<1>13. CASE \E a \in Account : GetTarget(t, a)
  <2>1. PICK a \in Account : GetTarget(t, a)
    BY <1>13
  <2> DEFINE x == [y EXCEPT !.target = a, !.targetId = acct[a].id]
  <2>2. \E pc \in {"insert", "peer", "accessor", "write"} : Set(t, [x EXCEPT !.pc = pc])
    BY <1>2, <2>1 DEF GetTarget
  <2>3. \A pc : "pc" \in DOMAIN [x EXCEPT !.pc = pc] /\ [x EXCEPT !.pc = pc].pc = pc
    BY DEF AccessRequest
  <2> HIDE DEF x
  <2> QED
    BY <2>2, <2>3, Shown
<1>14. CASE InsertRobot(t)
  <2> DEFINE x == [y EXCEPT !.pc = "robotGrant", !.targetId = issued + 1]
  <2>1. Set(t, x)
    BY <1>2, <1>14 DEF InsertRobot
  <2>2. "pc" \in DOMAIN x /\ x.pc = "robotGrant"
    BY DEF AccessRequest
  <2> HIDE DEF x
  <2> QED
    BY <2>1, <2>2, Shown
<1> QED
  BY <1>3, <1>4, <1>6, <1>7, <1>8, <1>10, <1>11, <1>12, <1>13, <1>14 DEF AccessStep

(* In every behaviour a request is served only if, since it began, its     *)
(* secret was good, its account enabled and its role enough, each at some  *)
(* moment; without a token, at the console or where the registry is open.  *)
(* (service.go VerifyAccessToken, LoginWithPreissuedToken; defaults.go     *)
(* Authorize)                                                              *)
THEOREM ServedIsExplained == AccessSpec => ServedExplained
<1> DEFINE Explained ==
             \A t \in Thread : LET x == threads[t] IN
                Served(t) =>
                   IF x.secret = "none"
                   THEN controller.kind = "local" \/ (controller.kind = "configurable" /\ OpenToAnybody(threads'[t].served))
                   ELSE x.secretSeen /\ x.accountSeen /\ \E role \in x.roles : Entitled(x.who, threads'[t].served, role)
<1>1. ASSUME IInv, [AccessNext]_accessVars, NEW t \in Thread, Served(t)
      PROVE  IF threads[t].secret = "none"
             THEN controller.kind = "local" \/ (controller.kind = "configurable" /\ OpenToAnybody(threads'[t].served))
             ELSE /\ threads[t].secretSeen /\ threads[t].accountSeen
                  /\ \E role \in threads[t].roles : Entitled(threads[t].who, threads'[t].served, role)
  <2>1. threads[t] \in AccessRequest /\ ~Running(threads'[t]) /\ threads'[t].served \in Ops
    BY <1>1, RunningIs DEF Served, IInv, AccessTypes
  <2>2. threads'[t].pc # threads[t].pc
    BY <2>1, RunningIs DEF Running
  <2>3. AccessStep(t)
    BY <1>1, <2>1, <2>2, Mover
  <2> QED
    BY <1>1, <2>1, <2>3, ServingStep
<1>2. IInv /\ [AccessNext]_accessVars => [Explained]_accessVars
  BY <1>1
<1> QED
  BY <1>2, InvAlways, PTL DEF AccessSpec, ServedExplained

(* A step that refuses a call whose token was asked for as the challenge   *)
(* says, while nothing changed.                                            *)
LEMMA RefusingStep ==
    ASSUME IInv, Sessions, NEW t \in Thread, AccessStep(t), threads[t] \in AccessRequest,
           ~Running(threads'[t]), threads'[t].served = "refused", threads[t].calm, threads[t].op \in Calls,
           threads[t].secret \in {"password", "credential"}
    PROVE  \/ ~SecretGood(threads[t], cred[threads[t].who], clock)
           \/ ~AccountGood(threads[t], acct[threads[t].who])
           \/ ~Entitled(threads[t].who, threads[t].op, grants[threads[t].who][threads[t].repo])
<1> DEFINE y == threads[t]
           mine == grants[y.who][y.repo]
<1>1. /\ Sound(y) /\ y.who \in Account /\ readOnly \subseteq Account \ Admins /\ mine \in Roles
      /\ t \in Client
  BY OfThread, RunningIs DEF Sessions
<1>2. /\ y.pc \in {"mint", "call", "account", "grants"}
      /\ y.id = acct[y.who].id
      /\ y.scope = grantedScopes(y.who, mine, Scope(V2[y.op].announces))
      /\ y.pc = "call" => y.expires = clock + AccessTTL
  <2>1. y.pc \in Pc
    BY DEF AccessRequest
  <2>2. y.pc \in {"mint", "call", "account", "grants"}
    BY <1>1, <2>1, Kinds DEF Sound, Passed, Pc, Verified, Admitted
  <2> QED
    BY <1>1, <2>2 DEF Sound, UpToDate
<1>3. ~GiveUp(t) /\ \A op \in Ops : ~Serve(t, op)
  BY Shown, Kinds
<1>4. \/ issueAccessToken(t) \/ GetToken(t) \/ GetAccount(t)
      \/ \E ask \in Asks(y), failed \in BOOLEAN : BuildPrincipal(t, ask, failed)
  <2>1. ~Cut(t)
    BY <1>3 DEF Cut
  <2>2. \A a \in Account : ~GetTarget(t, a)
    <3>1. \A a : [y EXCEPT !.target = a, !.targetId = acct[a].id].pc = y.pc
      BY DEF AccessRequest
    <3> QED
      BY <1>2, <3>1 DEF GetTarget
  <2> QED
    BY <1>1, <1>2, <2>1, <2>2
       DEF AccessStep, CallAnonymously, LoginWithPassword, Relogin, GetCredential, GrantScopes, CheckPeer,
           GetAccessor, PutRepoGrant, DeleteRepoGrant, CreateToken, RevokeTokenByAccessor, DeleteRobot,
           SetUserEnabled, WriteRefused, InsertRobot, GrantRobot, GetRobot, CreateRobotToken
<1>5. ~issueAccessToken(t)
  <2> DEFINE x == [y EXCEPT !.pc = "call", !.expires = clock + AccessTTL]
  <2>1. "pc" \in DOMAIN x /\ x.pc = "call"
    BY DEF AccessRequest
  <2>2. issueAccessToken(t) => Set(t, x)
    BY <1>2 DEF issueAccessToken
  <2> HIDE DEF x
  <2> QED
    BY <2>1, <2>2, Shown
<1>6. ~GetToken(t)
  <2> DEFINE x == [y EXCEPT !.pc = "account"]
  <2>1. "pc" \in DOMAIN x /\ x.pc = "account"
    BY DEF AccessRequest
  <2>2. clock < clock + AccessTTL
    BY Access_Constants DEF IInv, AccessTypes
  <2>3. GetToken(t) => Set(t, x)
    BY <1>2, <2>2 DEF GetToken, Goto
  <2> HIDE DEF x
  <2> QED
    BY <2>1, <2>3, Shown
<1>7. CASE GetAccount(t)
  <2> DEFINE x == [y EXCEPT !.pc = "grants"]
  <2>1. "pc" \in DOMAIN x /\ x.pc = "grants"
    BY DEF AccessRequest
  <2>2. AccountGood(y, acct[y.who]) => Set(t, x)
    BY <1>7 DEF GetAccount, Goto
  <2> HIDE DEF x
  <2> QED
    BY <2>1, <2>2, Shown
<1>8. ASSUME NEW ask \in Asks(y), NEW failed \in BOOLEAN, BuildPrincipal(t, ask, failed)
      PROVE  ~Entitled(y.who, y.op, mine)
  <2> DEFINE role == IF failed THEN "none" ELSE mine
             x == [y EXCEPT !.role = role, !.op = ask.op, !.scope = ask.scope, !.grant = ask.grant]
             z == [x EXCEPT !.pc = "target"]
  <2>1. ask = [op |-> y.op, scope |-> y.scope, grant |-> "none"]
    BY <1>8 DEF Asks
  <2>2. ask.op = y.op /\ ask.scope = y.scope
    BY <2>1
  <2>3. (~Demanded(x) /\ ~failed) \/ GiveUp(t) \/ Serve(t, x.op) \/ Set(t, z)
    BY <1>8 DEF BuildPrincipal
  <2>4. failed \/ role = mine
    OBVIOUS
  <2> HIDE DEF role
  <2>5. /\ "pc" \in DOMAIN z /\ z.pc = "target" /\ x.op = y.op /\ x.who = y.who
        /\ x.scope = y.scope /\ x.role = role
    BY <2>2 DEF AccessRequest
  <2> HIDE DEF x, z
  <2>6. ~Demanded(x) /\ role = mine
    BY <1>3, <2>3, <2>4, <2>5, Shown, Kinds
  <2> DEFINE verb == V2[y.op].demands
  <2>7. verb \in Verb /\ x.scope = grantedScopes(x.who, x.role, Scope(verb))
    BY <1>2, <2>5, <2>6, Announced
  <2>8. ~principalAuthorize(x, verb)
    BY <2>5, <2>6, Kinds DEF Demanded
  <2> HIDE DEF verb
  <2>9. ~Allowed(y.who, verb, mine)
    BY <1>1, <2>5, <2>6, <2>7, <2>8, ChallengeScope
  <2> QED
    BY <2>9, Kinds DEF Entitled, verb
<1> QED
  BY <1>4, <1>5, <1>6, <1>7, <1>8

(* In every behaviour a client that asks for the scope of the challenge is *)
(* refused, with nothing changing meanwhile, only if its secret is wrong,  *)
(* its account disabled, or its role too small.  (regixtry.go Action.Scope,*)
(* service.go grantedScopes, router.go challengeForError)                  *)
THEOREM ChallengeIsEnough == AccessSpec => ChallengeSuffices
<1> DEFINE Enough ==
             \A t \in Thread : LET x == threads[t] IN
                Refused(t) /\ x.calm /\ x.op \in Calls /\ x.secret \in {"password", "credential"} =>
                   ~SecretGood(x, cred[x.who], clock) \/ ~AccountGood(x, acct[x.who]) \/ ~Entitled(x.who, x.op, grants[x.who][x.repo])
<1>1. ASSUME IInv, Sessions, [AccessNext]_accessVars, NEW t \in Thread, Refused(t), threads[t].calm,
             threads[t].op \in Calls, threads[t].secret \in {"password", "credential"}
      PROVE  \/ ~SecretGood(threads[t], cred[threads[t].who], clock)
             \/ ~AccountGood(threads[t], acct[threads[t].who])
             \/ ~Entitled(threads[t].who, threads[t].op, grants[threads[t].who][threads[t].repo])
  <2>1. threads[t] \in AccessRequest /\ ~Running(threads'[t]) /\ threads'[t].served = "refused"
    BY <1>1, RunningIs DEF Refused, IInv, AccessTypes
  <2>2. threads'[t].pc # threads[t].pc
    BY <2>1, RunningIs DEF Running
  <2>3. AccessStep(t)
    BY <1>1, <2>1, <2>2, Mover
  <2> QED
    BY <1>1, <2>1, <2>3, RefusingStep
<1>2. IInv /\ Sessions /\ [AccessNext]_accessVars => [Enough]_accessVars
  BY <1>1
<1> QED
  BY <1>2, InvAlways, SessionsAlways, PTL DEF AccessSpec, ChallengeSuffices


-----------------------------------------------------------------------------
(***************************************************************************)
(* Accounts (UserAdmin).  LockoutNeedsOverlap is not inductive: it says    *)
(* nothing of what a request carries from the rows it read to the row it   *)
(* writes.  What is missing is that a fresh copy is the row itself, and    *)
(* that a fresh request about to remove an admin has found another one.    *)
(***************************************************************************)
(* A request that is past its read holds a copy that was a row of the      *)
(* right kind; the copy is still the row as long as nothing was written.   *)
CopyInv ==
    \A q \in Req :
       LET r == req[q] IN
       /\ r.pc # "idle" => r.user \in User /\ r.op \in Op
       /\ r.pc = "check" => r.op \in {"update", "enable", "delete"}
       /\ r.pc = "boot" => r.op = "bootstrap"
       /\ r.op = "deleteRobot" /\ r.pc = "write" => r.copy.robot
       /\ r.pc \in {"check", "boot", "write"} /\ r.op \notin Create /\ r.fresh =>
             r.copy = users[r.user]

(* UpdateUser, SetUserEnabled and DeleteUser, between their check and      *)
(* their write: if nothing was written meanwhile, another admin is there.  *)
GuardInv ==
    \A q \in Req :
       LET r == req[q] IN
       (/\ r.pc = "write" /\ r.fresh
        /\ NeedsAnotherAdmin(r.op, r.copy, r.val)
        /\ r.copy.enabled)
          => \E u \in User \ {r.user} : ActiveAdmin(users[u])

(* No row of a robot is an admin's; an id with a row was inserted.         *)
RowInv == \A u \in User : /\ users[u].robot => ~users[u].admin
                          /\ users[u].exists => u \in used

AccountsInv == TypeOK /\ CopyInv /\ GuardInv /\ RowInv /\ LockoutNeedsOverlap

-----------------------------------------------------------------------------
(* Every row a request may write is a row of auth_users.                   *)
LEMMA WrittenIsRow ==
    ASSUME NEW r \in Request, r.op \in Op
    PROVE  Written(r) \in Row
BY ZenonT(60) DEF Written, Updated, Request, Row, NoRow, Op, Create

(* What the updates of a request leave of it.                              *)
LEMMA StaleRequest ==
    ASSUME NEW r \in Request
    PROVE  LET s == [r EXCEPT !.fresh = FALSE]
           IN /\ s \in Request /\ s.fresh = FALSE
              /\ s.pc = r.pc /\ s.op = r.op /\ s.user = r.user /\ s.copy = r.copy
              /\ s.val = r.val
BY DEF Request

(* A write that leaves a request its fresh copy changes nothing of it.     *)
LEMMA SameRequest ==
    ASSUME NEW r \in Request
    PROVE  [r EXCEPT !.fresh = @ /\ TRUE] = r
<1>1. r.fresh \in BOOLEAN
  BY DEF Request
<1>2. (r.fresh /\ TRUE) = r.fresh
  BY <1>1
<1> QED
  BY <1>2 DEF Request

(* A request that reads what it will decide on.                            *)
LEMMA ReadRequest ==
    ASSUME NEW r \in Request, NEW pc \in {"boot", "check", "write"}, NEW row \in Row
    PROVE  [r EXCEPT !.pc = pc, !.copy = row, !.fresh = TRUE] \in Request
BY DEF Request

(* Init establishes the invariant.                                         *)
LEMMA InitAccountsInv == Init => AccountsInv
<1> SUFFICES ASSUME Init PROVE AccountsInv
  OBVIOUS
<1>1. NoRow \in Row
  BY DEF NoRow, Row
<1>2. Idle \in Request
  BY <1>1 DEF Idle, Request
<1>3. TypeOK
  BY <1>1, <1>2 DEF Init, TypeOK
<1>4. \A q \in Req : req[q].pc = "idle" /\ req[q].op = "none"
  BY DEF Init, Idle
<1>5. CopyInv
  BY <1>4 DEF CopyInv
<1>6. GuardInv
  BY <1>4 DEF GuardInv
<1>7. RowInv
  BY DEF Init, RowInv, NoRow
<1> QED
  BY <1>3, <1>5, <1>6, <1>7 DEF Init, AccountsInv, LockoutNeedsOverlap

(* The type invariant is preserved by every step.                          *)
LEMMA TypePreserved ==
    ASSUME TypeOK, CopyInv, Next
    PROVE  TypeOK'
<1> USE DEF TypeOK
<1>0. Idle \in Request
  BY DEF NoRow, Row, Idle, Request
<1>1. ASSUME NEW q \in Req, NEW op \in Op, NEW u \in User, NEW v \in BOOLEAN,
             Start(q, op, u, v)
      PROVE  TypeOK'
  BY <1>1 DEF Start, Request, Row, NoRow
<1>2. ASSUME NEW q \in Req, GetUser(q) PROVE TypeOK'
  <2>1. req[q].user \in User /\ users[req[q].user] \in Row
    BY <1>2 DEF GetUser, CopyInv
  <2>2. \/ req' = [req EXCEPT ![q] = Idle]
        \/ \E pc \in {"boot", "check", "write"} :
              req' = [req EXCEPT ![q] = [req[q] EXCEPT !.pc = pc,
                                 !.copy = users[req[q].user], !.fresh = TRUE]]
    BY <1>2 DEF GetUser
  <2>3. req' \in [Req -> Request]
    <3>1. CASE req' = [req EXCEPT ![q] = Idle]
      BY <1>0, <3>1
    <3>2. ASSUME NEW pc \in {"boot", "check", "write"},
                 req' = [req EXCEPT ![q] = [req[q] EXCEPT !.pc = pc,
                                 !.copy = users[req[q].user], !.fresh = TRUE]]
          PROVE  req' \in [Req -> Request]
      BY <2>1, <3>2, ReadRequest
    <3> QED BY <2>2, <3>1, <3>2
  <2> QED BY <1>2, <2>3 DEF GetUser
<1>3. ASSUME NEW q \in Req, EnsureAnotherActiveAdmin(q) PROVE TypeOK'
  BY <1>0, <1>3 DEF EnsureAnotherActiveAdmin, Request
<1>4. ASSUME NEW q \in Req, BootstrapCheck(q) PROVE TypeOK'
  BY <1>0, <1>4 DEF BootstrapCheck, Request
<1>5. ASSUME NEW q \in Req, Write(q) PROVE TypeOK'
  <2>1. req[q] \in Request /\ req[q].user \in User /\ req[q].op \in Op
    BY <1>5 DEF Write, CopyInv
  <2>2. Written(req[q]) \in Row
    BY <2>1, WrittenIsRow
  <2>3. users' \in [User -> Row] /\ used' \subseteq User
    BY <1>5, <2>1, <2>2 DEF Write
  <2>4. \A s \in Req : req'[s] \in {Idle, req[s], [req[s] EXCEPT !.fresh = FALSE]}
    <3>1. CASE req' = [req EXCEPT ![q] = Idle]
      BY <3>1
    <3>2. CASE /\ users' = users
               /\ req' = [s \in Req |-> IF s = q THEN Idle
                                    ELSE [req[s] EXCEPT !.fresh = @ /\ users' = users]]
      BY <3>2, SameRequest
    <3>3. CASE /\ users' # users
               /\ req' = [s \in Req |-> IF s = q THEN Idle
                                    ELSE [req[s] EXCEPT !.fresh = @ /\ users' = users]]
      BY <3>3
    <3> QED BY <1>5, <3>1, <3>2, <3>3 DEF Write
  <2>5. req' \in [Req -> Request]
    <3>1. \A s \in Req : req'[s] \in Request
      BY <1>0, <2>4, StaleRequest
    <3>2. req' = [s \in Req |-> req'[s]]
      BY <1>5 DEF Write
    <3> QED BY <3>1, <3>2
  <2>6. booted' \in BOOLEAN /\ raced' \in BOOLEAN
    BY <1>5 DEF Write
  <2> QED BY <2>3, <2>5, <2>6
<1>6. ASSUME NEW q \in Req, Fail(q) PROVE TypeOK'
  BY <1>0, <1>6 DEF Fail
<1> QED
  BY <1>1, <1>2, <1>3, <1>4, <1>5, <1>6 DEF Next, Step

-----------------------------------------------------------------------------
(* A write that removes the row of an active admin, by a request that      *)
(* nothing overlapped, leaves another active admin.                        *)
LEMMA FreshWriteLeavesAdmin ==
    ASSUME AccountsInv, NEW q \in Req, Write(q), req[q].fresh,
           ActiveAdmin(users[req[q].user]), users' # users,
           ~ActiveAdmin(Written(req[q]))
    PROVE  \E u \in User \ {req[q].user} : ActiveAdmin(users[u])
<1> DEFINE r == req[q]
<1>1. /\ r \in Request /\ r.pc = "write" /\ r.user \in User /\ r.op \in Op
      /\ users[r.user] \in Row
  BY DEF AccountsInv, TypeOK, CopyInv, Write
<1>2. r.user \in used
  BY <1>1 DEF AccountsInv, RowInv, ActiveAdmin
<1>3. r.op \notin Create
  BY <1>1, <1>2 DEF Write, Inserts
<1>4. r.copy = users[r.user]
  BY <1>1, <1>3 DEF AccountsInv, CopyInv
<1>5. r.op # "deleteRobot"
  BY <1>1, <1>4 DEF AccountsInv, CopyInv, RowInv, ActiveAdmin
<1>6. NeedsAnotherAdmin(r.op, r.copy, r.val) /\ r.copy.enabled
  BY <1>1, <1>3, <1>4, <1>5
     DEF NeedsAnotherAdmin, Written, Updated, ActiveAdmin, Op, Row, Request
<1> QED
  BY <1>1, <1>6 DEF AccountsInv, GuardInv

(* The invariant is preserved by every step.                               *)
LEMMA NextAccountsInv == AccountsInv /\ [Next]_vars => AccountsInv'
<1> SUFFICES ASSUME AccountsInv, [Next]_vars PROVE AccountsInv'
  OBVIOUS
<1>t. CASE UNCHANGED vars
  BY <1>t DEF AccountsInv, TypeOK, CopyInv, GuardInv, RowInv, LockoutNeedsOverlap, vars,
              HasActiveGlobalAdmin
<1>n. CASE Next
  <2>0. TypeOK'
    BY <1>n, TypePreserved DEF AccountsInv
  <2>1. ASSUME NEW q \in Req, NEW op \in Op, NEW u \in User, NEW v \in BOOLEAN,
               Start(q, op, u, v)
        PROVE  CopyInv' /\ GuardInv' /\ RowInv' /\ LockoutNeedsOverlap'
    <3>1. CopyInv'
      BY <2>1 DEF Start, AccountsInv, TypeOK, CopyInv, Create, Op, Request
    <3>2. GuardInv'
      BY <2>1 DEF Start, AccountsInv, TypeOK, GuardInv, Request, NeedsAnotherAdmin, Create, NoRow
    <3> QED
      BY <2>1, <3>1, <3>2 DEF Start, AccountsInv, RowInv, LockoutNeedsOverlap, HasActiveGlobalAdmin
  <2>2. ASSUME NEW q \in Req, GetUser(q)
        PROVE  CopyInv' /\ GuardInv' /\ RowInv' /\ LockoutNeedsOverlap'
    <3>0. /\ req[q] \in Request /\ req[q].user \in User /\ req[q].op \in Op
          /\ users[req[q].user] \in Row /\ req[q].pc = "read"
      BY <2>2 DEF GetUser, AccountsInv, TypeOK, CopyInv
    <3>a. PICK row : row = users[req[q].user]
      OBVIOUS
    <3>b. users' = users /\ \A p \in Req \ {q} : req'[p] = req[p]
      BY <2>2 DEF GetUser, AccountsInv, TypeOK
    <3>c. \/ req'[q].pc = "idle" /\ req'[q].op = "none"
          \/ /\ req'[q].op = req[q].op /\ req'[q].user = req[q].user /\ req'[q].val = req[q].val
             /\ req'[q].copy = row /\ (req[q].op = "deleteRobot" => row.robot)
             /\ \/ req[q].op = "bootstrap" /\ req'[q].pc \in {"boot", "write"}
                \/ /\ req[q].op # "bootstrap"
                   /\ req'[q].pc = IF NeedsAnotherAdmin(req[q].op, row, req[q].val) THEN "check" ELSE "write"
      <4>1. req \in [Req -> Request] /\ DOMAIN req[q] = {"pc", "op", "user", "val", "copy", "fresh"}
        BY <3>0 DEF AccountsInv, TypeOK, Request
      <4>2. CASE req' = [req EXCEPT ![q] = Idle]
        BY <4>1, <4>2 DEF Idle
      <4>3. CASE req' # [req EXCEPT ![q] = Idle]
        <5>1. PICK pc : /\ req' = [req EXCEPT ![q].pc = pc, ![q].copy = row, ![q].fresh = TRUE]
                        /\ req[q].op = "deleteRobot" => row.robot
                        /\ \/ req[q].op = "bootstrap" /\ pc \in {"boot", "write"}
                           \/ /\ req[q].op # "bootstrap"
                              /\ pc = IF NeedsAnotherAdmin(req[q].op, row, req[q].val) THEN "check" ELSE "write"
          BY <2>2, <3>a, <4>3 DEF GetUser
        <5> QED
          BY <4>1, <5>1
      <4> QED
        BY <4>2, <4>3
    <3>1. CopyInv'
      <4> SUFFICES ASSUME NEW p \in Req
                   PROVE  LET r == req'[p] IN
                          /\ r.pc # "idle" => r.user \in User /\ r.op \in Op
                          /\ r.pc = "check" => r.op \in {"update", "enable", "delete"}
                          /\ r.pc = "boot" => r.op = "bootstrap"
                          /\ r.op = "deleteRobot" /\ r.pc = "write" => r.copy.robot
                          /\ r.pc \in {"check", "boot", "write"} /\ r.op \notin Create /\ r.fresh =>
                                r.copy = users'[r.user]
        BY DEF CopyInv
      <4>1. CASE p # q
        BY <3>b, <4>1 DEF AccountsInv, CopyInv
      <4>2. CASE p = q
        BY <3>0, <3>a, <3>b, <3>c, <4>2 DEF NeedsAnotherAdmin
      <4> QED
        BY <4>1, <4>2
    <3>2. GuardInv'
      <4> SUFFICES ASSUME NEW p \in Req, req'[p].pc = "write", req'[p].fresh,
                          NeedsAnotherAdmin(req'[p].op, req'[p].copy, req'[p].val), req'[p].copy.enabled
                   PROVE  \E u \in User \ {req'[p].user} : ActiveAdmin(users'[u])
        BY DEF GuardInv
      <4>1. p # q
        <5>1. req'[q].op = "bootstrap" => ~NeedsAnotherAdmin(req'[q].op, req'[q].copy, req'[q].val)
          BY DEF NeedsAnotherAdmin
        <5> QED
          BY <3>c, <5>1
      <4> QED
        BY <3>b, <4>1 DEF AccountsInv, GuardInv
    <3> QED
      BY <2>2, <3>1, <3>2 DEF GetUser, AccountsInv, RowInv, LockoutNeedsOverlap,
                              HasActiveGlobalAdmin
  <2>3. ASSUME NEW q \in Req, EnsureAnotherActiveAdmin(q)
        PROVE  CopyInv' /\ GuardInv' /\ RowInv' /\ LockoutNeedsOverlap'
    <3>0. /\ req[q] \in Request /\ req[q].user \in User /\ req[q].pc = "check"
          /\ req[q].op \in {"update", "enable", "delete"}
      BY <2>3 DEF EnsureAnotherActiveAdmin, AccountsInv, TypeOK, CopyInv
    <3>1. CopyInv'
      BY <2>3, <3>0 DEF EnsureAnotherActiveAdmin, AccountsInv, TypeOK, CopyInv, Request, Idle
    <3>2. GuardInv'
      BY <2>3, <3>0 DEF EnsureAnotherActiveAdmin, AccountsInv, TypeOK, GuardInv, Request, Idle,
                        ListUsers, ActiveAdmin
    <3> QED
      BY <2>3, <3>1, <3>2 DEF EnsureAnotherActiveAdmin, AccountsInv, RowInv, LockoutNeedsOverlap,
                              HasActiveGlobalAdmin
  <2>4. ASSUME NEW q \in Req, BootstrapCheck(q)
        PROVE  CopyInv' /\ GuardInv' /\ RowInv' /\ LockoutNeedsOverlap'
    <3>0. /\ req[q] \in Request /\ req[q].user \in User /\ req[q].pc = "boot"
          /\ req[q].op = "bootstrap"
      BY <2>4 DEF BootstrapCheck, AccountsInv, TypeOK, CopyInv
    <3>1. CopyInv'
      BY <2>4, <3>0 DEF BootstrapCheck, AccountsInv, TypeOK, CopyInv, Request, Idle
    <3>2. GuardInv'
      BY <2>4, <3>0 DEF BootstrapCheck, AccountsInv, TypeOK, GuardInv, Request, Idle,
                        NeedsAnotherAdmin
    <3> QED
      BY <2>4, <3>1, <3>2 DEF BootstrapCheck, AccountsInv, RowInv, LockoutNeedsOverlap,
                              HasActiveGlobalAdmin
  <2>5. ASSUME NEW q \in Req, Write(q)
        PROVE  CopyInv' /\ GuardInv' /\ RowInv' /\ LockoutNeedsOverlap'
    <3> DEFINE r == req[q]
               new == Written(r)
    <3>0. /\ r \in Request /\ r.pc = "write" /\ r.user \in User /\ r.op \in Op
          /\ new \in Row
      BY <2>5, WrittenIsRow DEF Write, AccountsInv, TypeOK, CopyInv
    <3>1. CASE users' = users /\ UNCHANGED <<used, booted, raced>>
      <4>1. \A s \in Req : req'[s] = Idle \/ req'[s] = req[s]
        BY <2>5, <3>1 DEF Write, AccountsInv, TypeOK, Request
      <4>2. CopyInv' /\ GuardInv'
        BY <3>1, <4>1 DEF AccountsInv, CopyInv, GuardInv, Idle
      <4> QED
        BY <3>1, <4>2 DEF AccountsInv, RowInv, LockoutNeedsOverlap, HasActiveGlobalAdmin
    <3>2. CASE /\ Valid(new) /\ (Inserts(r) => r.user \notin used)
               /\ users' = [users EXCEPT ![r.user] = new]
               /\ used' = IF new.exists THEN used \cup {r.user} ELSE used
               /\ req' = [s \in Req |-> IF s = q THEN Idle
                                    ELSE [req[s] EXCEPT !.fresh = @ /\ users' = users]]
               /\ booted' = (booted \/ ActiveAdmin(new))
               /\ raced' = (raced \/ (/\ ~r.fresh
                                      /\ ActiveAdmin(users[r.user])
                                      /\ ~ActiveAdmin(new)))
      <4>1. CASE users' = users
        <5>1. \A s \in Req : req'[s] = Idle \/ req'[s] = req[s]
          BY <3>2, <4>1 DEF AccountsInv, TypeOK, Request
        <5>2. CopyInv' /\ GuardInv'
          BY <4>1, <5>1 DEF AccountsInv, CopyInv, GuardInv, Idle
        <5>3. RowInv'
          BY <3>2, <3>0, <4>1 DEF AccountsInv, RowInv, TypeOK
        <5>4. LockoutNeedsOverlap'
          <6>1. ActiveAdmin(new) => HasActiveGlobalAdmin
            BY <3>0, <3>2, <4>1 DEF AccountsInv, TypeOK, HasActiveGlobalAdmin
          <6> QED BY <3>2, <4>1, <6>1 DEF AccountsInv, LockoutNeedsOverlap, HasActiveGlobalAdmin
        <5> QED BY <5>2, <5>3, <5>4
      <4>2. CASE users' # users
        <5>1. \A s \in Req : \/ req'[s] = Idle
                             \/ req'[s] = [req[s] EXCEPT !.fresh = FALSE]
          BY <3>2, <4>2
        <5>2. CopyInv' /\ GuardInv'
          <6>1. \A s \in Req :
                  \/ req'[s].pc = "idle" /\ req'[s].op = "none"
                  \/ /\ req'[s].pc = req[s].pc /\ req'[s].op = req[s].op
                     /\ req'[s].user = req[s].user /\ req'[s].copy = req[s].copy
                     /\ req'[s].fresh = FALSE
            <7>1. TAKE s \in Req
            <7>2. req[s] \in Request
              BY DEF AccountsInv, TypeOK
            <7>3. CASE req'[s] = Idle
              BY <7>3 DEF Idle
            <7>4. CASE req'[s] = [req[s] EXCEPT !.fresh = FALSE]
              BY <7>2, <7>4, StaleRequest
            <7> QED BY <5>1, <7>3, <7>4
          <6>2. CopyInv'
            BY <6>1 DEF AccountsInv, CopyInv
          <6>3. GuardInv'
            BY <6>1 DEF GuardInv
          <6> QED BY <6>2, <6>3
        <5>3. RowInv'
          BY <3>0, <3>2 DEF AccountsInv, TypeOK, RowInv, Valid, Row
        <5>4. LockoutNeedsOverlap'
          <6>1. CASE ActiveAdmin(new)
            BY <3>0, <3>2, <6>1 DEF AccountsInv, TypeOK, LockoutNeedsOverlap, HasActiveGlobalAdmin
          <6>2. CASE ~ActiveAdmin(new) /\ ~ActiveAdmin(users[r.user])
            BY <3>0, <3>2, <6>2 DEF AccountsInv, TypeOK, LockoutNeedsOverlap, HasActiveGlobalAdmin
          <6>3. CASE ~ActiveAdmin(new) /\ ActiveAdmin(users[r.user]) /\ r.fresh
            <7>1. PICK u \in User \ {r.user} : ActiveAdmin(users[u])
              BY <2>5, <4>2, <6>3, FreshWriteLeavesAdmin
            <7> QED
              BY <3>0, <3>2, <7>1 DEF AccountsInv, TypeOK, LockoutNeedsOverlap,
                                      HasActiveGlobalAdmin
          <6>4. CASE ~ActiveAdmin(new) /\ ActiveAdmin(users[r.user]) /\ ~r.fresh
            BY <3>2, <6>4 DEF LockoutNeedsOverlap
          <6> QED BY <6>1, <6>2, <6>3, <6>4
        <5> QED BY <5>2, <5>3, <5>4
      <4> QED BY <4>1, <4>2
    <3> QED
      BY <2>5, <3>1, <3>2 DEF Write
  <2>6. ASSUME NEW q \in Req, Fail(q)
        PROVE  CopyInv' /\ GuardInv' /\ RowInv' /\ LockoutNeedsOverlap'
    <3>1. \A s \in Req : req'[s] = Idle \/ req'[s] = req[s]
      BY <2>6 DEF Fail, AccountsInv, TypeOK
    <3>2. CopyInv' /\ GuardInv'
      <4>1. CopyInv'
        BY <2>6, <3>1 DEF Fail, AccountsInv, CopyInv, Idle
      <4>2. Idle.pc # "write" /\ UNCHANGED users
        BY <2>6 DEF Fail, Idle
      <4>3. GuardInv'
        BY <3>1, <4>2 DEF AccountsInv, GuardInv
      <4> QED BY <4>1, <4>3
    <3> QED
      BY <2>6, <3>2 DEF Fail, AccountsInv, RowInv, LockoutNeedsOverlap, HasActiveGlobalAdmin
  <2> QED
    BY <1>n, <2>0, <2>1, <2>2, <2>3, <2>4, <2>5, <2>6 DEF Next, Step, AccountsInv
<1> QED
  BY <1>t, <1>n

-----------------------------------------------------------------------------
(* UpdateUser, SetUserEnabled, DeleteUser and BootstrapAdmin, any number   *)
(* of them at once: the check-then-write of the last active admin fails    *)
(* only where a request wrote a row between another one's read and its     *)
(* write.  Without such an overlap no sequence of calls locks everyone out.*)
THEOREM LockoutOnlyByOverlap == Spec => []LockoutNeedsOverlap
<1>1. Init => AccountsInv
  BY InitAccountsInv
<1>2. AccountsInv /\ [Next]_vars => AccountsInv'
  BY NextAccountsInv
<1>3. AccountsInv => LockoutNeedsOverlap
  BY DEF AccountsInv
<1> QED
  BY <1>1, <1>2, <1>3, PTL DEF Spec

(* User.Validate runs on every write, so HasActiveGlobalAdmin and          *)
(* ensureAnotherActiveAdmin always see the same active admins.             *)
THEOREM AdminQueriesAlwaysAgree == Spec => []AdminQueriesAgree
<1>1. Init => AccountsInv
  BY InitAccountsInv
<1>2. AccountsInv /\ [Next]_vars => AccountsInv'
  BY NextAccountsInv
<1>3. AccountsInv => AdminQueriesAgree
  BY DEF AccountsInv, RowInv, TypeOK, AdminQueriesAgree, ActiveAdmin, ListUsers, Row
<1> QED
  BY <1>1, <1>2, <1>3, PTL DEF Spec

(* One step writes what its request was asked to, if nothing was written   *)
(* since it read the row.                                                  *)
LEMMA WritesWhatWasAsked ==
    ASSUME AccountsInv, [Next]_vars, NEW q \in Req,
           req[q].pc = "write", req'[q].pc = "idle", users' # users, req[q].fresh
    PROVE  LET old == users[req[q].user]
               new == users'[req[q].user]
           IN /\ req[q].op = "update" => new = [old EXCEPT !.admin = req[q].val]
              /\ req[q].op = "enable" => new = [old EXCEPT !.enabled = req[q].val]
              /\ req[q].op = "reset" => new = old
<1>1. PICK p \in Req : Write(p)
  BY DEF Next, Step, Start, GetUser, EnsureAnotherActiveAdmin, BootstrapCheck, Fail, vars
<1>2. /\ users' = [users EXCEPT ![req[p].user] = Written(req[p])]
      /\ req' = [s \in Req |-> IF s = p THEN Idle ELSE [req[s] EXCEPT !.fresh = @ /\ users' = users]]
  BY <1>1 DEF Write
<1>3. req[q] \in Request
  BY DEF AccountsInv, TypeOK
<1>4. q = p
  <2>1. SUFFICES ASSUME q # p PROVE FALSE
    OBVIOUS
  <2>2. req'[q] = [req[q] EXCEPT !.fresh = @ /\ users' = users]
    BY <1>2, <2>1
  <2>3. req'[q].pc = req[q].pc
    BY <1>3, <2>2 DEF Request
  <2> QED
    BY <2>3
<1>5. req[q].user \in User /\ users \in [User -> Row]
      /\ (req[q].op \notin Create => req[q].copy = users[req[q].user])
  BY DEF AccountsInv, TypeOK, CopyInv
<1>6. users'[req[q].user] = Written(req[q])
  BY <1>2, <1>4, <1>5
<1> QED
  BY <1>5, <1>6 DEF Written, Updated, Create

(* UpdateUser, SetUserEnabled, ResetPassword: a request that no other      *)
(* request's write overlapped changes of its row what it was asked to      *)
(* change and nothing else.                                                *)
THEOREM UpdatesLostOnlyByOverlap == Spec => OnlyOverlapLosesUpdates
<1>1. AccountsInv /\ [Next]_vars =>
        [\A q \in Req :
         (req[q].pc = "write" /\ req'[q].pc = "idle" /\ users' # users /\ req[q].fresh) =>
            LET old == users[req[q].user]
                new == users'[req[q].user]
            IN /\ req[q].op = "update" => new = [old EXCEPT !.admin = req[q].val]
               /\ req[q].op = "enable" => new = [old EXCEPT !.enabled = req[q].val]
               /\ req[q].op = "reset" => new = old]_vars
  BY WritesWhatWasAsked
<1> QED
  BY <1>1, InitAccountsInv, NextAccountsInv, PTL DEF Spec, OnlyOverlapLosesUpdates

-----------------------------------------------------------------------------
(***************************************************************************)
(* The paths of Routes.                                                    *)
(***************************************************************************)

(* Lists that agree everywhere are one.                                    *)
LEMMA SameSeq ==
    ASSUME NEW S, NEW s \in Seq(S), NEW t \in Seq(S), Len(s) = Len(t), \A i \in 1..Len(s) : s[i] = t[i]
    PROVE  s = t
<1>1. s = [i \in 1..Len(s) |-> s[i]] /\ t = [i \in 1..Len(t) |-> t[i]]
  OBVIOUS
<1> QED
  BY <1>1

(* Two lists, one behind the other.                                        *)
Joined(p, a, b) == p = a \o b

LEMMA Glued ==
    ASSUME NEW S, NEW a \in Seq(S), NEW b \in Seq(S), NEW p, Joined(p, a, b)
    PROVE  /\ p \in Seq(S) /\ Len(p) = Len(a) + Len(b) /\ Len(a) \in Nat /\ Len(b) \in Nat
           /\ \A i \in 1..Len(a) : p[i] = a[i]
           /\ \A j \in 1..Len(b) : p[Len(a) + j] = b[j]
           /\ Upto(p, Len(a)) = a /\ After(p, Len(a)) = b
<1>1. PICK n : n = Len(a)
  OBVIOUS
<1>2. PICK m : m = Len(b)
  OBVIOUS
<1>3. n \in Nat /\ m \in Nat /\ p \in Seq(S) /\ Len(p) = n + m
  BY <1>1, <1>2 DEF Joined
<1>4. \A i \in 1..n : p[i] = a[i]
  BY <1>1 DEF Joined
<1>5. \A j \in 1..m : p[n + j] = b[j]
  BY <1>1, <1>2, <1>3 DEF Joined
<1>6. SubSeq(p, 1, n) = a
  <2>1. SubSeq(p, 1, n) \in Seq(S) /\ Len(SubSeq(p, 1, n)) = n
    BY <1>3
  <2>2. \A i \in 1..n : SubSeq(p, 1, n)[i] = a[i]
    BY <1>3, <1>4
  <2> QED
    BY <1>1, <2>1, <2>2, SameSeq
<1>7. SubSeq(p, n + 1, n + m) = b
  <2>1. SubSeq(p, n + 1, n + m) \in Seq(S) /\ Len(SubSeq(p, n + 1, n + m)) = m
    BY <1>3
  <2>2. \A i \in 1..m : SubSeq(p, n + 1, n + m)[i] = b[i]
    BY <1>3, <1>5
  <2> QED
    BY <1>2, <2>1, <2>2, SameSeq
<1> QED
  BY <1>1, <1>2, <1>3, <1>4, <1>5, <1>6, <1>7 DEF Upto, After

\* What Glued says, under a name.
Parts(S, p, a, b) ==
    /\ p \in Seq(S) /\ Len(p) = Len(a) + Len(b) /\ Len(a) \in Nat /\ Len(b) \in Nat
    /\ \A i \in 1..Len(a) : p[i] = a[i]
    /\ \A j \in 1..Len(b) : p[Len(a) + j] = b[j]
    /\ Upto(p, Len(a)) = a /\ After(p, Len(a)) = b

LEMMA GluedParts ==
    ASSUME NEW S, NEW a \in Seq(S), NEW b \in Seq(S), NEW p, Joined(p, a, b)
    PROVE  Parts(S, p, a, b)
BY Glued DEF Parts

(* Lists of two and three.                                                 *)
LEMMA Pair ==
    ASSUME NEW S, NEW a \in S, NEW b \in S, NEW s, s = <<a, b>>
    PROVE  s \in Seq(S) /\ Len(s) = 2 /\ s[1] = a /\ s[2] = b
OBVIOUS

LEMMA Triple ==
    ASSUME NEW S, NEW a \in S, NEW b \in S, NEW c \in S, NEW s, s = <<a, b, c>>
    PROVE  s \in Seq(S) /\ Len(s) = 3 /\ s[1] = a /\ s[2] = b /\ s[3] = c
OBVIOUS

LEMMA OneMore ==
    ASSUME NEW S, NEW t \in Seq(S), NEW x \in S, NEW q, q = Append(t, x)
    PROVE  Len(q) = Len(t) + 1 /\ \A i \in 1..Len(t) : q[i] = t[i]
OBVIOUS

\* What stands behind the name in a client's path: only its first segment is a marker's.
Marker(w) == w = "blobs" \/ w = "manifests" \/ w = "tags" \/ w = "referrers"

Shaped(s) ==
    /\ s \in Seq(Word) /\ Len(s) \in 2..3 /\ Marker(s[1]) /\ s[1] # "list"
    /\ ~Marker(s[2]) /\ (Len(s) = 3 => ~Marker(s[3]))
    /\ s[1] = "tags" => Len(s) = 2 /\ s[2] = "list"

LEMMA PairShaped ==
    ASSUME NEW a \in Word, NEW b \in Word, NEW s, s = <<a, b>>, Marker(a), ~Marker(b), a # "list",
           a = "tags" => b = "list"
    PROVE  Shaped(s)
<1>1. s \in Seq(Word) /\ Len(s) = 2 /\ s[1] = a /\ s[2] = b
  BY Pair
<1> QED
  BY <1>1 DEF Shaped

LEMMA TripleShaped ==
    ASSUME NEW a \in Word, NEW b \in Word, NEW c \in Word, NEW s, s = <<a, b, c>>,
           Marker(a), ~Marker(b), ~Marker(c), a # "list", a # "tags"
    PROVE  Shaped(s)
<1>1. s \in Seq(Word) /\ Len(s) = 3 /\ s[1] = a /\ s[2] = b /\ s[3] = c
  BY Triple
<1> QED
  BY <1>1 DEF Shaped

(* One segment of a path, and two of them.                                 *)
LEMMA Pieces ==
    ASSUME NEW S, NEW p \in Seq(S), NEW i \in 1..Len(p)
    PROVE  /\ SubSeq(p, i, i) = <<p[i]>>
           /\ i < Len(p) => SubSeq(p, i, i + 1) = <<p[i], p[i + 1]>>
<1>1. SubSeq(p, i, i) = <<p[i]>>
  <2>1. PICK q : q = SubSeq(p, i, i)
    OBVIOUS
  <2>6. i \in Nat /\ i - i + 1 = 1
    OBVIOUS
  <2>7. q \in Seq(S) /\ Len(q) = i - i + 1
    BY <2>1, <2>6
  <2>8. q[1] = p[i + 1 - 1] /\ i + 1 - 1 = i
    BY <2>1, <2>6
  <2>2. Len(q) = 1 /\ q[1] = p[i] /\ q \in Seq(S)
    BY <2>6, <2>7, <2>8
  <2>3. PICK t : t = <<p[i]>>
    OBVIOUS
  <2>4. t \in Seq(S) /\ Len(t) = 1 /\ t[1] = p[i]
    BY <2>3
  <2>5. q = t
    BY <2>2, <2>4, SameSeq
  <2> QED
    BY <2>1, <2>3, <2>5
<1>2. ASSUME i < Len(p) PROVE SubSeq(p, i, i + 1) = <<p[i], p[i + 1]>>
  <2>1. PICK q : q = SubSeq(p, i, i + 1)
    OBVIOUS
  <2>2. Len(q) = 2 /\ q[1] = p[i] /\ q[2] = p[i + 1] /\ q \in Seq(S)
    BY <1>2, <2>1
  <2>3. q = <<q[1], q[2]>>
    BY <2>2
  <2> QED
    BY <2>1, <2>2, <2>3
<1> QED
  BY <1>1, <1>2

(* Where the text of a marker is found in a path.                          *)
LEMMA FoundOne ==
    ASSUME NEW S, NEW p \in Seq(S), NEW w, NEW mk, mk = [segments |-> <<w>>, more |-> TRUE]
    PROVE  \A i : i \in Found(p, mk) <=> i \in 2..Len(p) /\ p[i] = w /\ i < Len(p)
<1>1. mk.segments = <<w>> /\ mk.more /\ Len(<<w>>) = 1 /\ mk.segments[1] = w
  OBVIOUS
<1>2. DOMAIN p = 1..Len(p) /\ Len(p) \in Nat
  OBVIOUS
<1>3. ASSUME NEW i \in 1..Len(p) PROVE MarkerAt(p, mk, i) <=> i < Len(p) /\ p[i] = w
  <2>1. MarkerAt(p, mk, i) <=> /\ i + 1 - 1 + 1 <= Len(p)
                               /\ \A j \in 1..(1 - 1) : p[i + j - 1] = mk.segments[j]
                               /\ p[i + 1 - 1] = mk.segments[1]
    BY <1>1 DEF MarkerAt
  <2>2. i + 1 - 1 = i /\ 1..(1 - 1) = {} /\ (i + 1 - 1 + 1 <= Len(p) <=> i < Len(p))
    BY <1>2
  <2> QED
    BY <1>1, <2>1, <2>2
<1>4. \A i : i \in Found(p, mk) <=> i \in 1..Len(p) /\ i > 1 /\ MarkerAt(p, mk, i)
  BY <1>2 DEF Found
<1>5. \A i : i \in 2..Len(p) <=> i \in 1..Len(p) /\ i > 1
  BY <1>2
<1> QED
  BY <1>3, <1>4, <1>5

LEMMA FoundTwo ==
    ASSUME NEW S, NEW p \in Seq(S), NEW w, NEW v, NEW mk, mk.segments = <<w, v>>
    PROVE  \A i : /\ i \in Found(p, mk) =>
                        i \in 2..Len(p) /\ i < Len(p) /\ p[i] = w /\ Starts(p[i + 1], v)
                  /\ /\ ~mk.more /\ i \in 2..Len(p) /\ i < Len(p) /\ p[i] = w
                     /\ Starts(p[i + 1], v)
                     => i \in Found(p, mk)
<1>1. mk.segments = <<w, v>> /\ Len(mk.segments) = 2 /\ mk.segments[1] = w /\ mk.segments[2] = v
  OBVIOUS
<1>2. DOMAIN p = 1..Len(p) /\ Len(p) \in Nat
  OBVIOUS
<1>3. ASSUME NEW i \in 1..Len(p)
      PROVE  /\ MarkerAt(p, mk, i) => i < Len(p) /\ p[i] = w /\ Starts(p[i + 1], v)
             /\ ~mk.more /\ i < Len(p) /\ p[i] = w /\ Starts(p[i + 1], v) => MarkerAt(p, mk, i)
  <2>1. MarkerAt(p, mk, i) <=> /\ i + 2 - 1 + (IF mk.more THEN 1 ELSE 0) <= Len(p)
                               /\ \A j \in 1..(2 - 1) : p[i + j - 1] = mk.segments[j]
                               /\ IF mk.more THEN p[i + 2 - 1] = mk.segments[2]
                                  ELSE Starts(p[i + 2 - 1], mk.segments[2])
    BY <1>1 DEF MarkerAt
  <2>2. i + 2 - 1 = i + 1 /\ 1..(2 - 1) = {1} /\ i + 1 - 1 = i
    BY <1>2
  <2>3. (\A j \in 1..(2 - 1) : p[i + j - 1] = mk.segments[j]) <=> p[i] = w
    BY <1>1, <2>2
  <2>4. p[i + 1] = v => Starts(p[i + 1], v)
    BY DEF Starts
  <2>5. CASE mk.more
    <3>1. i + 2 - 1 + 1 <= Len(p) => i < Len(p)
      BY <1>2
    <3> QED
      BY <1>1, <2>1, <2>2, <2>3, <2>4, <2>5, <3>1
  <2>6. CASE ~mk.more
    <3>1. i + 2 - 1 + 0 <= Len(p) <=> i < Len(p)
      BY <1>2
    <3> QED
      BY <1>1, <2>1, <2>2, <2>3, <2>6, <3>1
  <2> QED
    BY <2>5, <2>6
<1>4. \A i : i \in Found(p, mk) <=> i \in 1..Len(p) /\ i > 1 /\ MarkerAt(p, mk, i)
  BY <1>2 DEF Found
<1>5. \A i : i \in 2..Len(p) <=> i \in 1..Len(p) /\ i > 1
  BY <1>2
<1> QED
  BY <1>3, <1>4, <1>5

(* The smallest of a few numbers.                                          *)
LEMMA MinOfSix ==
    ASSUME NEW T, T \subseteq 1..6, T # {}
    PROVE  Min(T) \in T
<1>1. \E x \in T : \A y \in T : x <= y
  <2>0. PICK z : z \in T
    OBVIOUS
  <2>1. \A x \in T : x = 1 \/ x = 2 \/ x = 3 \/ x = 4 \/ x = 5 \/ x = 6
    OBVIOUS
  <2>2. CASE 1 \in T
    BY <2>2
  <2>3. CASE 1 \notin T /\ 2 \in T
    BY <2>1, <2>3
  <2>4. CASE 1 \notin T /\ 2 \notin T /\ 3 \in T
    BY <2>1, <2>4
  <2>5. CASE 1 \notin T /\ 2 \notin T /\ 3 \notin T /\ 4 \in T
    BY <2>1, <2>5
  <2>6. CASE 1 \notin T /\ 2 \notin T /\ 3 \notin T /\ 4 \notin T /\ 5 \in T
    BY <2>1, <2>6
  <2>7. CASE 1 \notin T /\ 2 \notin T /\ 3 \notin T /\ 4 \notin T /\ 5 \notin T
    <3>1. \A x \in T : x = 6
      BY <2>1, <2>7
    <3>2. 6 \in T /\ 6 <= 6
      BY <2>0, <3>1
    <3> QED
      BY <3>1, <3>2
  <2> QED
    BY <2>2, <2>3, <2>4, <2>5, <2>6, <2>7
<1> QED
  BY <1>1 DEF Min

(* No word of a client's path goes on behind a marker's word or is glued   *)
(* to one.                                                                 *)
LEMMA WordsAreWhole ==
    ASSUME NEW segment \in Word
    PROVE  /\ \A word : <<segment, word>> \notin Longer
           /\ \A triple \in Compound : triple[1] # segment
BY RoutesAssumption

(* In the path of a name that is not ambiguous a marker stands only right  *)
(* behind the name, and one does.                                          *)
LEMMA MarkerBehindName ==
    ASSUME NEW S, Word \subseteq S, NEW name \in Seq(S), name # <<>>, ~Ambiguous(name),
           NEW s, Shaped(s), NEW p, Joined(p, name, s)
    PROVE  /\ \A k \in 1..6 : Found(p, markers[k]) \subseteq {Len(name) + 1}
           /\ \E k \in 1..6 : Len(name) + 1 \in Found(p, markers[k])
<1>1. PICK n : n = Len(name)
  OBVIOUS
<1>2. PICK m : m = Len(s)
  OBVIOUS
<1>a. s \in Seq(Word) /\ m \in 2..3
  BY <1>2 DEF Shaped
<1>b. s \in Seq(S)
  BY <1>a
<1>3. /\ p \in Seq(S) /\ Len(p) = n + m
      /\ \A i \in 1..n : p[i] = name[i]
      /\ \A j \in 1..m : p[n + j] = s[j]
  <2>1. /\ p \in Seq(S) /\ Len(p) = Len(name) + Len(s)
        /\ \A i \in 1..Len(name) : p[i] = name[i]
        /\ \A j \in 1..Len(s) : p[Len(name) + j] = s[j]
    BY <1>b, Glued
  <2> QED
    BY <1>1, <1>2, <2>1
<1>4. n \in Nat /\ n > 0
  BY <1>1
<1>5. p[n + 1] = s[1] /\ p[n + 2] = s[2] /\ n + 1 < Len(p) /\ n + 1 \in 2..Len(p)
  BY <1>a, <1>3, <1>4
<1>c. /\ \A i \in 2..n : name[i] # "blobs" /\ name[i] # "manifests" /\ name[i] # "referrers"
      /\ \A i \in 2..n : name[i] = "tags" /\ i < n => ~Starts(name[i + 1], "list")
  BY <1>1 DEF Ambiguous
<1>6. ASSUME NEW i \in 2..Len(p), Marker(p[i]), p[i] = "tags" => i < Len(p) /\ Starts(p[i + 1], "list")
      PROVE  i = n + 1
  <2>1. CASE i <= n
    <3>1. i \in 2..n /\ p[i] = name[i]
      BY <2>1, <1>3, <1>4
    <3>2. name[i] = "tags" /\ Starts(p[i + 1], "list")
      BY <1>c, <1>6, <3>1 DEF Marker
    <3>3. CASE i < n
      <4>1. p[i + 1] = name[i + 1]
        BY <3>1, <3>3, <1>3, <1>4
      <4> QED
        BY <1>c, <3>1, <3>2, <3>3, <4>1
    <3>4. CASE i = n
      <4>1. Starts(s[1], "list") /\ s[1] \in Word /\ s[1] # "list"
        BY <1>2, <1>a, <1>5, <3>2, <3>4 DEF Shaped
      <4> QED
        BY <4>1, WordsAreWhole DEF Starts
    <3> QED
      BY <1>4, <3>1, <3>3, <3>4
  <2>2. CASE i = n + 2
    BY <1>5, <1>6, <2>2 DEF Shaped
  <2>3. CASE i = n + 3
    <3>1. m = 3 /\ p[i] = s[3]
      BY <1>a, <1>3, <1>4, <2>3
    <3> QED
      BY <1>2, <1>6, <3>1 DEF Shaped
  <2> QED
    BY <1>a, <1>3, <1>4, <2>1, <2>2, <2>3
<1>7. /\ markers[1] = [segments |-> <<"blobs", "uploads">>, more |-> TRUE]
      /\ markers[2] = [segments |-> <<"blobs", "uploads">>, more |-> FALSE]
      /\ markers[3] = [segments |-> <<"blobs">>, more |-> TRUE]
      /\ markers[4] = [segments |-> <<"manifests">>, more |-> TRUE]
      /\ markers[5] = [segments |-> <<"tags", "list">>, more |-> FALSE]
      /\ markers[6] = [segments |-> <<"referrers">>, more |-> TRUE]
  BY DEF markers
<1>d. p \in Seq(S)
  BY <1>3
<1>8. \A i : i \in Found(p, markers[1]) => i \in 2..Len(p) /\ p[i] = "blobs"
  <2>1. PICK mk : mk = markers[1]
    OBVIOUS
  <2>2. mk = [segments |-> <<"blobs", "uploads">>, more |-> TRUE]
    BY <1>7, <2>1
  <2>4. mk.segments = <<"blobs", "uploads">>
    BY <2>2
  <2>3. \A i : i \in Found(p, mk) => i \in 2..Len(p) /\ p[i] = "blobs"
    BY <1>d, <2>4, FoundTwo
  <2> QED
    BY <2>1, <2>3
<1>9. \A i : i \in Found(p, markers[2]) => i \in 2..Len(p) /\ p[i] = "blobs"
  <2>1. PICK mk : mk = markers[2]
    OBVIOUS
  <2>2. mk = [segments |-> <<"blobs", "uploads">>, more |-> FALSE]
    BY <1>7, <2>1
  <2>4. mk.segments = <<"blobs", "uploads">>
    BY <2>2
  <2>3. \A i : i \in Found(p, mk) => i \in 2..Len(p) /\ p[i] = "blobs"
    BY <1>d, <2>4, FoundTwo
  <2> QED
    BY <2>1, <2>3
<1>10. \A i : i \in Found(p, markers[3]) <=> i \in 2..Len(p) /\ p[i] = "blobs" /\ i < Len(p)
  <2>1. PICK mk : mk = markers[3]
    OBVIOUS
  <2>2. mk = [segments |-> <<"blobs">>, more |-> TRUE]
    BY <1>7, <2>1
  <2>3. \A i : i \in Found(p, mk) <=> i \in 2..Len(p) /\ p[i] = "blobs" /\ i < Len(p)
    BY <1>d, <2>2, FoundOne
  <2> QED
    BY <2>1, <2>3
<1>11. \A i : i \in Found(p, markers[4]) <=> i \in 2..Len(p) /\ p[i] = "manifests" /\ i < Len(p)
  <2>1. PICK mk : mk = markers[4]
    OBVIOUS
  <2>2. mk = [segments |-> <<"manifests">>, more |-> TRUE]
    BY <1>7, <2>1
  <2>3. \A i : i \in Found(p, mk) <=> i \in 2..Len(p) /\ p[i] = "manifests" /\ i < Len(p)
    BY <1>d, <2>2, FoundOne
  <2> QED
    BY <2>1, <2>3
<1>12. \A i : i \in Found(p, markers[5]) <=>
                 i \in 2..Len(p) /\ i < Len(p) /\ p[i] = "tags" /\ Starts(p[i + 1], "list")
  <2>1. PICK mk : mk = markers[5]
    OBVIOUS
  <2>2. mk = [segments |-> <<"tags", "list">>, more |-> FALSE]
    BY <1>7, <2>1
  <2>4. mk.segments = <<"tags", "list">> /\ ~mk.more
    BY <2>2
  <2>5. \A i : /\ i \in Found(p, mk) =>
                     i \in 2..Len(p) /\ i < Len(p) /\ p[i] = "tags" /\ Starts(p[i + 1], "list")
               /\ /\ ~mk.more /\ i \in 2..Len(p) /\ i < Len(p) /\ p[i] = "tags"
                  /\ Starts(p[i + 1], "list")
                  => i \in Found(p, mk)
    BY <1>d, <2>4, FoundTwo
  <2>3. Found(p, markers[5]) = Found(p, mk)
    BY <2>1
  <2>6. ~mk.more
    BY <2>4
  <2> QED
    BY <2>3, <2>5, <2>6, Zenon
<1>13. \A i : i \in Found(p, markers[6]) <=> i \in 2..Len(p) /\ p[i] = "referrers" /\ i < Len(p)
  <2>1. PICK mk : mk = markers[6]
    OBVIOUS
  <2>2. mk = [segments |-> <<"referrers">>, more |-> TRUE]
    BY <1>7, <2>1
  <2>3. \A i : i \in Found(p, mk) <=> i \in 2..Len(p) /\ p[i] = "referrers" /\ i < Len(p)
    BY <1>d, <2>2, FoundOne
  <2> QED
    BY <2>1, <2>3
<1>14. ASSUME NEW k \in 1..6, NEW i \in Found(p, markers[k]) PROVE i = n + 1
  <2>1. k = 1 \/ k = 2 \/ k = 3 \/ k = 4 \/ k = 5 \/ k = 6
    OBVIOUS
  <2>2. i \in 2..Len(p) /\ Marker(p[i]) /\ (p[i] = "tags" => i < Len(p) /\ Starts(p[i + 1], "list"))
    BY <1>8, <1>9, <1>10, <1>11, <1>12, <1>13, <1>14, <2>1 DEF Marker
  <2> QED
    BY <1>6, <2>2
<1>15. \E k \in 1..6 : n + 1 \in Found(p, markers[k])
  <2>1. CASE s[1] = "blobs"
    BY <1>5, <1>10, <2>1
  <2>2. CASE s[1] = "manifests"
    BY <1>5, <1>11, <2>2
  <2>3. CASE s[1] = "tags"
    <3>1. Starts(p[n + 1 + 1], "list")
      BY <1>4, <1>5, <2>3 DEF Shaped, Starts
    <3> QED
      BY <1>5, <1>12, <2>3, <3>1
  <2>4. CASE s[1] = "referrers"
    BY <1>5, <1>13, <2>4
  <2> QED
    BY <2>1, <2>2, <2>3, <2>4 DEF Shaped, Marker
<1> QED
  BY <1>1, <1>14, <1>15

(* Such a path does not end in a marker that is glued to a segment.        *)
LEMMA NothingGlued ==
    ASSUME NEW S, Word \subseteq S, NEW name \in Seq(S), name # <<>>,
           NEW s, Shaped(s), NEW p, Joined(p, name, s), NEW k \in 1..6
    PROVE  GluedStems(p, markers[k]) = {}
<1>1. PICK n : n = Len(name)
  OBVIOUS
<1>2. PICK m : m = Len(s)
  OBVIOUS
<1>3. s \in Seq(Word) /\ m \in 2..3 /\ \A j \in 1..m : s[j] \in Word
  BY <1>2 DEF Shaped
<1>4. s \in Seq(S) /\ n \in Nat
  BY <1>1, <1>3
<1>5. Len(p) = n + m /\ \A j \in 1..m : p[n + j] = s[j]
  BY <1>1, <1>2, <1>4, Glued
<1>6. PICK words : words = Words(markers[k])
  OBVIOUS
<1>7. PICK l : l = Len(words)
  OBVIOUS
<1>8. l \in {2, 3} /\ (l = 3 => words[2] = "uploads")
  <2>1. k = 1 \/ k = 2 \/ k = 3 \/ k = 4 \/ k = 5 \/ k = 6
    OBVIOUS
  <2>5. PICK mk : mk = markers[k]
    OBVIOUS
  <2>6. \/ mk = [segments |-> <<"blobs", "uploads">>, more |-> TRUE]
        \/ \E v, w : mk = [segments |-> <<v, w>>, more |-> FALSE]
        \/ \E v : mk = [segments |-> <<v>>, more |-> TRUE]
    <3>1. /\ markers[1] = [segments |-> <<"blobs", "uploads">>, more |-> TRUE]
          /\ markers[2] = [segments |-> <<"blobs", "uploads">>, more |-> FALSE]
          /\ markers[3] = [segments |-> <<"blobs">>, more |-> TRUE]
          /\ markers[4] = [segments |-> <<"manifests">>, more |-> TRUE]
          /\ markers[5] = [segments |-> <<"tags", "list">>, more |-> FALSE]
          /\ markers[6] = [segments |-> <<"referrers">>, more |-> TRUE]
      BY DEF markers
    <3> QED
      BY <2>1, <2>5, <3>1, Zenon
  <2>7. words = IF mk.more THEN Append(mk.segments, Nothing) ELSE mk.segments
    BY <1>6, <2>5 DEF Words
  <2>8. PICK T : T = {"blobs", "uploads", Nothing}
    OBVIOUS
  <2>2. CASE mk = [segments |-> <<"blobs", "uploads">>, more |-> TRUE]
    <3>1. PICK t : t = <<"blobs", "uploads">>
      OBVIOUS
    <3>2. words = Append(t, Nothing)
      BY <2>2, <2>7, <3>1
    <3>3. t \in Seq(T) /\ Len(t) = 2 /\ t[2] = "uploads" /\ Nothing \in T
      BY <2>8, <3>1, Pair
    <3>4. Len(words) = 3 /\ words[2] = "uploads"
      BY <3>2, <3>3, OneMore
    <3> QED
      BY <1>7, <3>4
  <2>3. ASSUME NEW v, NEW w, mk = [segments |-> <<v, w>>, more |-> FALSE] PROVE l = 2
    BY <1>7, <2>3, <2>7
  <2>4. ASSUME NEW v, mk = [segments |-> <<v>>, more |-> TRUE] PROVE l = 2
    <3>1. PICK t : t = <<v>>
      OBVIOUS
    <3>2. words = Append(t, Nothing)
      BY <2>4, <2>7, <3>1
    <3>3. t \in Seq({v, Nothing}) /\ Len(t) = 1 /\ Nothing \in {v, Nothing}
      BY <3>1
    <3>4. Len(words) = 2
      BY <3>2, <3>3, OneMore
    <3> QED
      BY <1>7, <3>4
  <2> QED
    BY <2>2, <2>3, <2>4, <2>6
<1>9. \A triple \in GluedStems(p, markers[k]) :
         /\ triple \in Compound /\ triple[1] = p[n + m - l + 1]
         /\ \A j \in 2..l : p[n + m - l + j] = words[j]
  <2>1. PICK at : at = n + m - l
    OBVIOUS
  <2>2. \A triple \in GluedStems(p, markers[k]) :
           /\ triple \in Compound /\ triple[1] = p[Len(p) - Len(words) + 1]
           /\ \A j \in 2..Len(words) : p[Len(p) - Len(words) + j] = words[j]
    BY <1>6, Zenon DEF GluedStems
  <2>3. Len(p) - Len(words) = at
    BY <1>3, <1>4, <1>5, <1>7, <1>8, <2>1
  <2>4. \A triple \in GluedStems(p, markers[k]) :
           /\ triple \in Compound /\ triple[1] = p[at + 1]
           /\ \A j \in 2..l : p[at + j] = words[j]
    BY <1>7, <2>2, <2>3, Zenon
  <2> QED
    BY <2>1, <2>4, Zenon
<1>10. ASSUME l <= m PROVE p[n + m - l + 1] \in Word
  <2>1. n + m - l + 1 = n + (m - l + 1) /\ m - l + 1 \in 1..m
    BY <1>3, <1>4, <1>8, <1>10
  <2> QED
    BY <1>3, <1>5, <2>1
<1>11. ASSUME ~(l <= m) PROVE l = 3 /\ n + m - l + 2 = n + 1
  BY <1>3, <1>4, <1>8, <1>11
<1>12. p[n + 1] = s[1] /\ s[1] # "uploads"
  <2>1. 1 \in 1..m
    BY <1>3
  <2> QED
    BY <1>5, <2>1 DEF Shaped, Marker
<1> SUFFICES ASSUME NEW triple \in GluedStems(p, markers[k]) PROVE FALSE
  OBVIOUS
<1>13. CASE l <= m
  BY <1>9, <1>10, <1>13, WordsAreWhole
<1>14. CASE ~(l <= m)
  <2>1. l = 3 /\ n + m - l + 2 = n + 1 /\ words[2] = "uploads"
    BY <1>8, <1>11, <1>14
  <2>2. p[n + m - l + 2] = words[2]
    BY <1>9, <2>1
  <2> QED
    BY <1>12, <2>1, <2>2
<1> QED
  BY <1>13, <1>14

(* splitRepositoryPath takes such a path apart.                            *)
LEMMA SplitAtName ==
    ASSUME NEW S, Word \subseteq S, NEW name \in Seq(S), name # <<>>, ~Ambiguous(name),
           NEW s, Shaped(s), NEW p, Joined(p, name, s)
    PROVE  splitRepositoryPath(p) = [ok |-> TRUE, repository |-> name, suffix |-> s]
<1> DEFINE hits == {k \in DOMAIN markers : Found(p, markers[k]) # {} \/ GluedStems(p, markers[k]) # {}}
<1>a. \A k \in 1..6 : GluedStems(p, markers[k]) = {}
  BY NothingGlued
<1>1. /\ \A k \in 1..6 : Found(p, markers[k]) \subseteq {Len(name) + 1}
      /\ \E k \in 1..6 : Len(name) + 1 \in Found(p, markers[k])
  BY MarkerBehindName
<1>2. DOMAIN markers = 1..6
  BY DEF markers
<1>3. hits \subseteq 1..6 /\ hits # {}
  BY <1>1, <1>2
<1>4. PICK k : k = Min(hits)
  OBVIOUS
<1>5. k \in hits
  BY <1>3, <1>4, MinOfSix
<1>6. PICK F : F = Found(p, markers[k])
  OBVIOUS
<1>7. F = {Len(name) + 1}
  BY <1>a, <1>1, <1>2, <1>5, <1>6
<1>8. Len(name) \in Nat
  OBVIOUS
<1>9. Min(F) = Len(name) + 1
  BY <1>7, <1>8 DEF Min
<1>10. splitRepositoryPath(p) = [ok |-> TRUE, repository |-> Upto(p, Min(F) - 1), suffix |-> After(p, Min(F) - 1)]
  <2>1. F # {}
    BY <1>7
  <2> QED
    BY <1>3, <1>4, <1>6, <2>1, Zenon DEF splitRepositoryPath
<1>11. Min(F) - 1 = Len(name)
  BY <1>8, <1>9
<1>12. s \in Seq(S)
  <2>1. s \in Seq(Word)
    BY DEF Shaped
  <2> QED
    BY <2>1
<1>13. Upto(p, Len(name)) = name /\ After(p, Len(name)) = s
  BY <1>12, Glued
<1> QED
  BY <1>10, <1>11, <1>13

LEMMA FirstTwo ==
    ASSUME NEW S, NEW s \in Seq(S), Len(s) >= 2
    PROVE  SubSeq(s, 1, 2) = <<s[1], s[2]>>
<1>1. 1 \in 1..Len(s) /\ 1 < Len(s) /\ 1 + 1 = 2
  OBVIOUS
<1>2. SubSeq(s, 1, 1 + 1) = <<s[1], s[1 + 1]>>
  BY <1>1, Pieces
<1> QED
  BY <1>1, <1>2

LEMMA UploadsPrefix ==
    ASSUME NEW S, NEW s \in Seq(S), Len(s) >= 2
    PROVE  IsPrefix(<<"blobs", "uploads">>, s) <=> s[1] = "blobs" /\ s[2] = "uploads"
<1>1. PICK u : u = <<"blobs", "uploads">>
  OBVIOUS
<1>2. u \in Seq({"blobs", "uploads"}) /\ Len(u) = 2 /\ u[1] = "blobs" /\ u[2] = "uploads"
  BY <1>1
<1>3. SubSeq(u, 1, 2) = <<u[1], u[2]>>
  <2>1. \A T, t : t \in Seq(T) /\ Len(t) >= 2 => SubSeq(t, 1, 2) = <<t[1], t[2]>>
    BY FirstTwo
  <2>2. Len(u) >= 2
    BY <1>2
  <2> QED
    BY <1>2, <2>1, <2>2, Zenon
<1>4. SubSeq(s, 1, 2) = <<s[1], s[2]>>
  BY FirstTwo
<1>5. IsPrefix(u, s) <=> SubSeq(u, 1, 2) = SubSeq(s, 1, 2)
  BY <1>2 DEF IsPrefix
<1>6. IsPrefix(u, s) <=> <<"blobs", "uploads">> = <<s[1], s[2]>>
  BY <1>2, <1>3, <1>4, <1>5, Zenon
<1>7. <<"blobs", "uploads">> = <<s[1], s[2]>> <=> s[1] = "blobs" /\ s[2] = "uploads"
  OBVIOUS
<1> QED
  BY <1>1, <1>6, <1>7, Zenon

(* What the switch of handleV2 looks at, for suffixes of two and three.    *)
LEMMA LooksTwo ==
    ASSUME NEW a, NEW b, NEW s, s = <<a, b>>
    PROVE  /\ Head(s) = a /\ Len(s) = 2
           /\ \A w : ~Ends(Tail(s), w)
           /\ IsPrefix(<<"blobs", "uploads">>, s) <=> a = "blobs" /\ b = "uploads"
           /\ \A c, d : s = <<c, d>> <=> a = c /\ b = d
           /\ \A c, d, e : s # <<c, d, e>>
<1>1. Head(s) = a /\ Len(s) = 2
  OBVIOUS
<1>2. \A w : ~Ends(Tail(s), w)
  <2>1. Len(Tail(s)) = 1
    OBVIOUS
  <2> QED
    BY <2>1 DEF Ends
<1>3. IsPrefix(<<"blobs", "uploads">>, s) <=> a = "blobs" /\ b = "uploads"
  <2>1. s \in Seq({a, b}) /\ s[1] = a /\ s[2] = b
    OBVIOUS
  <2>2. Len(s) >= 2
    BY <1>1
  <2>3. \A T, t : t \in Seq(T) /\ Len(t) >= 2 =>
            (IsPrefix(<<"blobs", "uploads">>, t) <=> t[1] = "blobs" /\ t[2] = "uploads")
    BY UploadsPrefix
  <2> QED
    BY <2>1, <2>2, <2>3, Zenon
<1>4. \A c, d : s = <<c, d>> <=> a = c /\ b = d
  OBVIOUS
<1>5. \A c, d, e : s # <<c, d, e>>
  BY <1>1
<1> QED
  BY <1>1, <1>2, <1>3, <1>4, <1>5

LooksLike(s, a, b, c) ==
    /\ Head(s) = a /\ Len(s) = 3
    /\ \A w : Ends(Tail(s), w) <=> c = w
    /\ IsPrefix(<<"blobs", "uploads">>, s) <=> a = "blobs" /\ b = "uploads"
    /\ s # <<"blobs", "uploads">> /\ s # <<"tags", "list">>
    /\ s = <<"blobs", "uploads", "">> <=> a = "blobs" /\ b = "uploads" /\ c = ""

LEMMA LooksThree ==
    ASSUME NEW a, NEW b, NEW c, NEW s, s = <<a, b, c>>
    PROVE  LooksLike(s, a, b, c)
<1>1. Head(s) = a /\ Len(s) = 3
  OBVIOUS
<1>2. \A w : Ends(Tail(s), w) <=> c = w
  <2>1. Len(Tail(s)) = 2 /\ Tail(s)[2] = c
    OBVIOUS
  <2> QED
    BY <2>1 DEF Ends, Last
<1>3. IsPrefix(<<"blobs", "uploads">>, s) <=> a = "blobs" /\ b = "uploads"
  <2>1. s \in Seq({a, b, c}) /\ s[1] = a /\ s[2] = b
    OBVIOUS
  <2>2. Len(s) >= 2
    BY <1>1
  <2>3. \A T, t : t \in Seq(T) /\ Len(t) >= 2 =>
            (IsPrefix(<<"blobs", "uploads">>, t) <=> t[1] = "blobs" /\ t[2] = "uploads")
    BY UploadsPrefix
  <2> QED
    BY <2>1, <2>2, <2>3, Zenon
<1>4. s # <<"blobs", "uploads">> /\ s # <<"tags", "list">>
  BY <1>1
<1>5. s = <<"blobs", "uploads", "">> <=> a = "blobs" /\ b = "uploads" /\ c = ""
  OBVIOUS
<1> QED
  BY <1>1, <1>2, <1>3, <1>4, <1>5 DEF LooksLike

(* A path that is a name and a suffix is handled by the suffix alone.      *)
LEMMA HandledBySuffix ==
    ASSUME NEW S, Word \subseteq S, NEW name \in Seq(S), name # <<>>, ~Ambiguous(name),
           NEW s, Shaped(s), NEW p, Joined(p, name, s)
    PROVE  handleV2(p) = handleSuffix(s, name)
<1>1. splitRepositoryPath(p) = [ok |-> TRUE, repository |-> name, suffix |-> s]
  BY SplitAtName
<1>2. p # <<"_catalog">>
  <2>1. s \in Seq(Word) /\ Len(s) \in 2..3
    BY DEF Shaped
  <2>2. s \in Seq(S)
    BY <2>1
  <2>3. Len(p) = Len(name) + Len(s) /\ Len(name) \in Nat
    BY <2>2, Glued
  <2>4. Len(<<"_catalog">>) = 1
    OBVIOUS
  <2>5. Len(p) # 1
    BY <2>1, <2>3
  <2> QED
    BY <2>4, <2>5, Zenon
<1>3. PICK split : split = splitRepositoryPath(p)
  OBVIOUS
<1>4. split.ok /\ split.suffix = s /\ split.repository = name
  BY <1>1, <1>3
<1> QED
  BY <1>2, <1>3, <1>4 DEF handleV2

(* Every client's suffix is shaped as one, and goes to its handler.        *)
Reaches(s, handler) == Shaped(s) /\ \A name : handleSuffix(s, name) = To(handler, "verb", name)

LEMMA SuffixesReach ==
    \A handler \in DOMAIN V2Suffix : Reaches(V2Suffix[handler], handler)
<1>a. /\ "blobs" \in Word /\ "uploads" \in Word /\ "" \in Word /\ "id" \in Word /\ "sha" \in Word
      /\ "manifests" \in Word /\ "tag" \in Word /\ "scan-status" \in Word /\ "signature-status" \in Word
      /\ "secret-scan-status" \in Word /\ "tags" \in Word /\ "list" \in Word /\ "referrers" \in Word
  BY DEF Word
<1>b. /\ Marker("blobs") /\ Marker("manifests") /\ Marker("tags") /\ Marker("referrers")
      /\ ~Marker("uploads") /\ ~Marker("") /\ ~Marker("id") /\ ~Marker("sha") /\ ~Marker("tag")
      /\ ~Marker("scan-status") /\ ~Marker("signature-status") /\ ~Marker("secret-scan-status")
      /\ ~Marker("list")
  BY DEF Marker
<1>1. Reaches(<<"blobs", "uploads", "">>, "handleUploadStart")
  <2>1. PICK s : s = <<"blobs", "uploads", "">>
    OBVIOUS
  <2>2. Shaped(s)
    BY <1>a, <1>b, <2>1, TripleShaped
  <2>3. /\ Head(s) = "blobs" /\ \A w : Ends(Tail(s), w) <=> "" = w
        /\ IsPrefix(<<"blobs", "uploads">>, s)
        /\ s # <<"blobs", "uploads">> /\ s = <<"blobs", "uploads", "">>
        /\ s # <<"tags", "list">>
    <3>1. LooksLike(s, "blobs", "uploads", "")
      BY <2>1, LooksThree
    <3> QED
      BY <3>1 DEF LooksLike
  <2>4. \A name : handleSuffix(s, name) = To("handleUploadStart", "verb", name)
    BY <2>3 DEF handleSuffix
  <2> QED
    BY <2>1, <2>2, <2>4 DEF Reaches
<1>2. Reaches(<<"blobs", "uploads", "id">>, "handleUploadState")
  <2>1. PICK s : s = <<"blobs", "uploads", "id">>
    OBVIOUS
  <2>2. Shaped(s)
    BY <1>a, <1>b, <2>1, TripleShaped
  <2>3. /\ Head(s) = "blobs" /\ \A w : Ends(Tail(s), w) <=> "id" = w
        /\ IsPrefix(<<"blobs", "uploads">>, s)
        /\ s # <<"blobs", "uploads">> /\ s # <<"blobs", "uploads", "">>
        /\ s # <<"tags", "list">>
    <3>1. LooksLike(s, "blobs", "uploads", "id")
      BY <2>1, LooksThree
    <3> QED
      BY <3>1 DEF LooksLike
  <2>4. \A name : handleSuffix(s, name) = To("handleUploadState", "verb", name)
    BY <2>3 DEF handleSuffix
  <2> QED
    BY <2>1, <2>2, <2>4 DEF Reaches
<1>3. Reaches(<<"blobs", "sha">>, "handleBlobRead")
  <2>1. PICK s : s = <<"blobs", "sha">>
    OBVIOUS
  <2>2. Shaped(s)
    BY <1>a, <1>b, <2>1, PairShaped
  <2>3. /\ Head(s) = "blobs" /\ \A w : ~Ends(Tail(s), w)
        /\ ~IsPrefix(<<"blobs", "uploads">>, s)
        /\ s # <<"blobs", "uploads">> /\ s # <<"blobs", "uploads", "">>
        /\ s # <<"tags", "list">>
    BY <2>1, LooksTwo
  <2>4. \A name : handleSuffix(s, name) = To("handleBlobRead", "verb", name)
    BY <2>3 DEF handleSuffix
  <2> QED
    BY <2>1, <2>2, <2>4 DEF Reaches
<1>4. Reaches(<<"manifests", "tag">>, "handleManifest")
  <2>1. PICK s : s = <<"manifests", "tag">>
    OBVIOUS
  <2>2. Shaped(s)
    BY <1>a, <1>b, <2>1, PairShaped
  <2>3. /\ Head(s) = "manifests" /\ \A w : ~Ends(Tail(s), w)
        /\ ~IsPrefix(<<"blobs", "uploads">>, s)
        /\ s # <<"blobs", "uploads">> /\ s # <<"blobs", "uploads", "">>
        /\ s # <<"tags", "list">>
    BY <2>1, LooksTwo
  <2>4. \A name : handleSuffix(s, name) = To("handleManifest", "verb", name)
    BY <2>3 DEF handleSuffix
  <2> QED
    BY <2>1, <2>2, <2>4 DEF Reaches
<1>5. Reaches(<<"manifests", "tag", "scan-status">>, "handleManifestScanStatus")
  <2>1. PICK s : s = <<"manifests", "tag", "scan-status">>
    OBVIOUS
  <2>2. Shaped(s)
    BY <1>a, <1>b, <2>1, TripleShaped
  <2>3. /\ Head(s) = "manifests" /\ \A w : Ends(Tail(s), w) <=> "scan-status" = w
        /\ ~IsPrefix(<<"blobs", "uploads">>, s)
        /\ s # <<"blobs", "uploads">> /\ s # <<"blobs", "uploads", "">>
        /\ s # <<"tags", "list">>
    <3>1. LooksLike(s, "manifests", "tag", "scan-status")
      BY <2>1, LooksThree
    <3> QED
      BY <3>1 DEF LooksLike
  <2>4. \A name : handleSuffix(s, name) = To("handleManifestScanStatus", "verb", name)
    BY <2>3 DEF handleSuffix
  <2> QED
    BY <2>1, <2>2, <2>4 DEF Reaches
<1>6. Reaches(<<"manifests", "tag", "signature-status">>, "handleManifestSignatureStatus")
  <2>1. PICK s : s = <<"manifests", "tag", "signature-status">>
    OBVIOUS
  <2>2. Shaped(s)
    BY <1>a, <1>b, <2>1, TripleShaped
  <2>3. /\ Head(s) = "manifests" /\ \A w : Ends(Tail(s), w) <=> "signature-status" = w
        /\ ~IsPrefix(<<"blobs", "uploads">>, s)
        /\ s # <<"blobs", "uploads">> /\ s # <<"blobs", "uploads", "">>
        /\ s # <<"tags", "list">>
    <3>1. LooksLike(s, "manifests", "tag", "signature-status")
      BY <2>1, LooksThree
    <3> QED
      BY <3>1 DEF LooksLike
  <2>4. \A name : handleSuffix(s, name) = To("handleManifestSignatureStatus", "verb", name)
    BY <2>3 DEF handleSuffix
  <2> QED
    BY <2>1, <2>2, <2>4 DEF Reaches
<1>7. Reaches(<<"manifests", "tag", "secret-scan-status">>, "handleManifestSecretScanStatus")
  <2>1. PICK s : s = <<"manifests", "tag", "secret-scan-status">>
    OBVIOUS
  <2>2. Shaped(s)
    BY <1>a, <1>b, <2>1, TripleShaped
  <2>3. /\ Head(s) = "manifests" /\ \A w : Ends(Tail(s), w) <=> "secret-scan-status" = w
        /\ ~IsPrefix(<<"blobs", "uploads">>, s)
        /\ s # <<"blobs", "uploads">> /\ s # <<"blobs", "uploads", "">>
        /\ s # <<"tags", "list">>
    <3>1. LooksLike(s, "manifests", "tag", "secret-scan-status")
      BY <2>1, LooksThree
    <3> QED
      BY <3>1 DEF LooksLike
  <2>4. \A name : handleSuffix(s, name) = To("handleManifestSecretScanStatus", "verb", name)
    BY <2>3 DEF handleSuffix
  <2> QED
    BY <2>1, <2>2, <2>4 DEF Reaches
<1>8. Reaches(<<"tags", "list">>, "handleTags")
  <2>1. PICK s : s = <<"tags", "list">>
    OBVIOUS
  <2>2. Shaped(s)
    BY <1>a, <1>b, <2>1, PairShaped
  <2>3. /\ Head(s) = "tags" /\ \A w : ~Ends(Tail(s), w)
        /\ ~IsPrefix(<<"blobs", "uploads">>, s)
        /\ s # <<"blobs", "uploads">> /\ s # <<"blobs", "uploads", "">>
        /\ s = <<"tags", "list">>
    BY <2>1, LooksTwo
  <2>4. \A name : handleSuffix(s, name) = To("handleTags", "verb", name)
    BY <2>3 DEF handleSuffix
  <2> QED
    BY <2>1, <2>2, <2>4 DEF Reaches
<1>9. Reaches(<<"referrers", "sha">>, "handleReferrers")
  <2>1. PICK s : s = <<"referrers", "sha">>
    OBVIOUS
  <2>2. Shaped(s)
    BY <1>a, <1>b, <2>1, PairShaped
  <2>3. /\ Head(s) = "referrers" /\ \A w : ~Ends(Tail(s), w)
        /\ ~IsPrefix(<<"blobs", "uploads">>, s)
        /\ s # <<"blobs", "uploads">> /\ s # <<"blobs", "uploads", "">>
        /\ s # <<"tags", "list">>
    BY <2>1, LooksTwo
  <2>4. \A name : handleSuffix(s, name) = To("handleReferrers", "verb", name)
    BY <2>3 DEF handleSuffix
  <2> QED
    BY <2>1, <2>2, <2>4 DEF Reaches
<1>10. ASSUME NEW handler \in DOMAIN V2Suffix PROVE Reaches(V2Suffix[handler], handler)
  <2>1. \/ handler = "handleUploadStart"
        \/ handler = "handleUploadState"
        \/ handler = "handleBlobRead"
        \/ handler = "handleManifest"
        \/ handler = "handleManifestScanStatus"
        \/ handler = "handleManifestSignatureStatus"
        \/ handler = "handleManifestSecretScanStatus"
        \/ handler = "handleTags"
        \/ handler = "handleReferrers"
    BY DEF V2Suffix
  <2>2. CASE handler = "handleUploadStart"
    BY <1>1, <2>2 DEF V2Suffix
  <2>3. CASE handler = "handleUploadState"
    BY <1>2, <2>3 DEF V2Suffix
  <2>4. CASE handler = "handleBlobRead"
    BY <1>3, <2>4 DEF V2Suffix
  <2>5. CASE handler = "handleManifest"
    BY <1>4, <2>5 DEF V2Suffix
  <2>6. CASE handler = "handleManifestScanStatus"
    BY <1>5, <2>6 DEF V2Suffix
  <2>7. CASE handler = "handleManifestSignatureStatus"
    BY <1>6, <2>7 DEF V2Suffix
  <2>8. CASE handler = "handleManifestSecretScanStatus"
    BY <1>7, <2>8 DEF V2Suffix
  <2>9. CASE handler = "handleTags"
    BY <1>8, <2>9 DEF V2Suffix
  <2>10. CASE handler = "handleReferrers"
    BY <1>9, <2>10 DEF V2Suffix
  <2> QED
    BY <2>1, <2>2, <2>3, <2>4, <2>5, <2>6, <2>7, <2>8, <2>9, <2>10
<1> QED
  BY <1>10

(* Every client's path of a name that is not ambiguous reaches it.         *)
LEMMA V2PathsReach ==
    ASSUME NEW S, Word \subseteq S, requested # <<>> => requested \in Seq(S)
    PROVE  PathsReachTheirRepository
<1> SUFFICES ASSUME requested # <<>>, ~Ambiguous(requested), NEW handler \in DOMAIN V2Suffix
             PROVE  handleV2(requested \o V2Suffix[handler]) = To(handler, "verb", requested)
  BY DEF PathsReachTheirRepository
<1>1. PICK name : name = requested
  OBVIOUS
<1>2. PICK s : s = V2Suffix[handler]
  OBVIOUS
<1>3. PICK p : p = name \o s
  OBVIOUS
<1>4. name \in Seq(S) /\ name # <<>> /\ ~Ambiguous(name) /\ Joined(p, name, s)
  BY <1>1, <1>3 DEF Joined
<1>5. Shaped(s) /\ handleSuffix(s, name) = To(handler, "verb", name)
  BY <1>2, SuffixesReach DEF Reaches
<1>6. handleV2(p) = handleSuffix(s, name)
  BY <1>4, <1>5, HandledBySuffix
<1> QED
  BY <1>1, <1>2, <1>3, <1>5, <1>6

-----------------------------------------------------------------------------
(* A path of the administration: its first segment, and the rest.          *)
HeadedBy(p, h, t) == Head(p) = h /\ Tail(p) = t /\ Len(p) = 1 + Len(t)

LEMMA Headed ==
    ASSUME NEW S, NEW h \in S, NEW t \in Seq(S), NEW p, Joined(p, <<h>>, t)
    PROVE  HeadedBy(p, h, t)
<1>1. PICK a : a = <<h>>
  OBVIOUS
<1>2. a \in Seq(S) /\ Len(a) = 1 /\ a[1] = h
  BY <1>1
<1>3. Joined(p, a, t)
  BY <1>1
<1>4. /\ p \in Seq(S) /\ Len(p) = Len(a) + Len(t) /\ Len(t) \in Nat
      /\ \A i \in 1..Len(a) : p[i] = a[i]
      /\ \A j \in 1..Len(t) : p[Len(a) + j] = t[j]
  BY <1>2, <1>3, Glued
<1>5. Len(p) = 1 + Len(t) /\ p[1] = h /\ \A j \in 1..Len(t) : p[1 + j] = t[j]
  BY <1>2, <1>4
<1>6. p \in Seq(S) /\ Len(t) \in Nat /\ p # <<>>
  BY <1>4, <1>5
<1>7. Tail(p) = t
  <2>1. PICK q : q = Tail(p)
    OBVIOUS
  <2>2. q \in Seq(S) /\ Len(q) = Len(t)
    BY <1>5, <1>6, <2>1
  <2>3. \A i \in 1..Len(q) : q[i] = p[1 + i]
    BY <1>5, <1>6, <2>1
  <2>4. \A i \in 1..Len(q) : q[i] = t[i]
    BY <1>5, <2>2, <2>3
  <2>5. q = t
    BY <2>2, <2>4, SameSeq
  <2> QED
    BY <2>1, <2>5
<1>8. Head(p) = h
  BY <1>5, <1>6
<1> QED
  BY <1>5, <1>7, <1>8 DEF HeadedBy

Associates(a, b, c) == (a \o b) \o c = a \o (b \o c)

LEMMA Regrouped ==
    ASSUME NEW S, NEW a \in Seq(S), NEW b \in Seq(S), NEW c \in Seq(S)
    PROVE  Associates(a, b, c)
BY DEF Associates

(* The grants of a repository.                                             *)
LEMMA GrantsReach ==
    ASSUME NEW S, NEW name \in Seq(S), name # <<>>, NEW g \in Seq(S), Len(g) = 1, g[1] = "grants",
           NEW q, Joined(q, name, g)
    PROVE  handleAdminRepositoryResource(q) = To("repositoryGrants", "authenticated", name)
<1>1. Len(g) = 1 /\ g[1] = "grants"
  OBVIOUS
<1>2. /\ q \in Seq(S) /\ Len(q) = Len(name) + Len(g) /\ Len(name) \in Nat
      /\ \A j \in 1..Len(g) : q[Len(name) + j] = g[j]
      /\ Upto(q, Len(name)) = name
  <2>1. Parts(S, q, name, g)
    BY GluedParts
  <2> QED
    BY <2>1 DEF Parts
<1>0. Upto(q, Len(name)) = name
  BY <1>2
<1>3. Len(name) > 0
  OBVIOUS
<1>4. Ends(q, "grants")
  BY <1>1, <1>2, <1>3 DEF Ends, Last
<1>5. Front(q) = name
  <2>1. Len(q) - 1 = Len(name)
    BY <1>1, <1>2
  <2> QED
    BY <1>0, <2>1 DEF Front, Upto
<1> QED
  BY <1>4, <1>5, Zenon DEF handleAdminRepositoryResource

(* One grant of a repository: the last "grants" is the path's own.         *)
LEMMA GrantReaches ==
    ASSUME NEW S, NEW name \in Seq(S), name # <<>>, NEW g \in Seq(S),
           Len(g) = 2, g[1] = "grants", g[2] = "user",
           NEW q, Joined(q, name, g)
    PROVE  handleAdminRepositoryResource(q) = To("repositoryGrant", "authenticated", name)
<1>1. Len(g) = 2 /\ g[1] = "grants" /\ g[2] = "user"
  OBVIOUS
<1>2. /\ q \in Seq(S) /\ Len(q) = Len(name) + Len(g) /\ Len(name) \in Nat
      /\ \A j \in 1..Len(g) : q[Len(name) + j] = g[j]
      /\ Upto(q, Len(name)) = name
  <2>1. Parts(S, q, name, g)
    BY GluedParts
  <2> QED
    BY <2>1 DEF Parts
<1>0. Upto(q, Len(name)) = name
  BY <1>2
<1>3. Len(name) > 0
  OBVIOUS
<1>4. PICK n : n = Len(name)
  OBVIOUS
<1>5. n \in Nat /\ n > 0 /\ Len(q) = n + 2 /\ q[n + 1] = "grants" /\ q[n + 2] = "user" /\ Upto(q, n) = name
  BY <1>0, <1>1, <1>2, <1>3, <1>4
<1>6. ~Ends(q, "grants")
  BY <1>5 DEF Ends, Last
<1>7. PICK marks : marks = {i \in DOMAIN q : i > 1 /\ q[i] = "grants" /\ i < Len(q)}
  OBVIOUS
<1>8. DOMAIN q = 1..(n + 2)
  BY <1>2, <1>5
<1>9. n + 1 \in marks /\ \A i \in marks : i \in Int /\ n + 1 >= i
  BY <1>5, <1>7, <1>8
<1>10. Max(marks) = n + 1
  <2>1. \A i \in marks : (\A j \in marks : i >= j) => i = n + 1
    BY <1>5, <1>9
  <2> QED
    BY <1>9, <2>1, Zenon DEF Max
<1>11. marks # {} /\ Max(marks) = Len(q) - 1 /\ Max(marks) - 1 = n
  BY <1>5, <1>9, <1>10
<1> QED
  BY <1>5, <1>6, <1>7, <1>11, Zenon DEF handleAdminRepositoryResource

(* A name without "grants" behind its first segment is deleted by itself.  *)
LEMMA DeleteReaches ==
    ASSUME NEW S, NEW name \in Seq(S), name # <<>>, \A i \in 2..Len(name) : name[i] # "grants"
    PROVE  handleAdminRepositoryResource(name) = To("deleteRepository", "authenticated", name)
<1>1. Len(name) \in Nat /\ DOMAIN name = 1..Len(name)
  OBVIOUS
<1>2. ~Ends(name, "grants")
  BY <1>1 DEF Ends, Last
<1>3. PICK marks : marks = {i \in DOMAIN name : i > 1 /\ name[i] = "grants" /\ i < Len(name)}
  OBVIOUS
<1>4. marks = {}
  BY <1>1, <1>3
<1> QED
  BY <1>2, <1>3, <1>4, Zenon DEF handleAdminRepositoryResource

(* One segment, a marker and a name: what the handlers look at.            *)
NestedIn(q, mark, name) ==
    /\ Last(q) = Last(name) /\ Len(q) # 2
    /\ \A w : Ends(q, w) <=> Last(name) = w
    /\ adminNestedResource(q, mark) = name
    /\ Contains(Tail(q), mark)

LEMMA NestedName ==
    ASSUME NEW S, NEW name \in Seq(S), name # <<>>, NEW mark, NEW pre \in Seq(S),
           Len(pre) = 2, pre[2] = mark, NEW q, Joined(q, pre, name)
    PROVE  NestedIn(q, mark, name)
<1>1. /\ q \in Seq(S) /\ Len(q) = Len(pre) + Len(name) /\ Len(name) \in Nat
      /\ \A i \in 1..Len(pre) : q[i] = pre[i]
      /\ \A j \in 1..Len(name) : q[Len(pre) + j] = name[j]
      /\ After(q, Len(pre)) = name
  <2>1. Parts(S, q, pre, name)
    BY GluedParts
  <2> QED
    BY <2>1 DEF Parts
<1>2. PICK n : n = Len(name)
  OBVIOUS
<1>3. n \in Nat /\ n > 0
  BY <1>2
<1>4. Len(q) = n + 2 /\ q[2] = mark /\ After(q, 2) = name /\ q[n + 2] = name[n]
  BY <1>1, <1>2, <1>3
<1>5. Last(q) = Last(name)
  BY <1>2, <1>4 DEF Last
<1>6. Len(q) > 2 /\ Len(q) > 1 /\ Len(q) # 2
  BY <1>3, <1>4
<1>7. \A w : Ends(q, w) <=> Last(name) = w
  BY <1>5, <1>6 DEF Ends
<1>8. adminNestedResource(q, mark) = name
  BY <1>4, <1>6 DEF adminNestedResource
<1>9. Contains(Tail(q), mark)
  <2>1. PICK t : t = Tail(q)
    OBVIOUS
  <2>2. q \in Seq(S) /\ q # <<>>
    BY <1>1, <1>6
  <2>3. Len(t) = n + 1 /\ t[1] = q[2]
    BY <1>3, <1>4, <2>1, <2>2
  <2>4. 1 \in 1..Len(t)
    BY <1>3, <2>3
  <2> QED
    BY <1>4, <2>1, <2>3, <2>4 DEF Contains
<1> QED
  BY <1>5, <1>6, <1>7, <1>8, <1>9 DEF NestedIn

LEMMA UserGrantReaches ==
    ASSUME NEW q, NEW name, name # <<>>, NestedIn(q, "grants", name), Last(name) \notin UserAction
    PROVE  handleAdminUserResource(q) =
              IF Last(name) = "grants" THEN NotFound ELSE To("userGrant", "admin", name)
<1>1. /\ Last(q) \notin UserAction /\ Len(q) # 2 /\ (Ends(q, "grants") <=> Last(name) = "grants")
      /\ adminNestedResource(q, "grants") = name /\ Contains(Tail(q), "grants")
  BY DEF NestedIn
<1>2. CASE Last(name) = "grants"
  BY <1>1, <1>2, Zenon DEF handleAdminUserResource
<1>3. CASE Last(name) # "grants"
  BY <1>1, <1>3, Zenon DEF handleAdminUserResource
<1> QED
  BY <1>2, <1>3

LEMMA OverrideReaches ==
    ASSUME NEW q, NEW name, name # <<>>, NestedIn(q, "repository-overrides", name)
    PROVE  handleAdminFeatureResource(q) =
              IF Last(name) = "repository-overrides" THEN NotFound ELSE To("override", "admin", name)
<1>1. /\ Len(q) # 2 /\ (Ends(q, "repository-overrides") <=> Last(name) = "repository-overrides")
      /\ adminNestedResource(q, "repository-overrides") = name
      /\ Contains(Tail(q), "repository-overrides")
  BY DEF NestedIn
<1>2. CASE Last(name) = "repository-overrides"
  BY <1>1, <1>2 DEF handleAdminFeatureResource
<1>3. CASE Last(name) # "repository-overrides"
  BY <1>1, <1>3, Zenon DEF handleAdminFeatureResource
<1> QED
  BY <1>2, <1>3

(* The first segment decides whose the rest is.                            *)
LEMMA AdminSwitch ==
    ASSUME NEW S, NEW h \in S, NEW t \in Seq(S), t # <<>>, NEW p, Joined(p, <<h>>, t)
    PROVE  /\ h = "repositories" => handleAdmin(p) = handleAdminRepositoryResource(t)
           /\ h = "features" => handleAdmin(p) = handleAdminFeatureResource(t)
           /\ h = "users" => handleAdmin(p) = handleAdminUserResource(t)
<1>0. HeadedBy(p, h, t)
  BY Headed, Zenon
<1>1. Head(p) = h /\ Tail(p) = t /\ Len(p) = 1 + Len(t)
  BY <1>0 DEF HeadedBy
<1>2. Len(t) \in Nat /\ Len(t) > 0
  OBVIOUS
<1>3. Len(p) > 1
  BY <1>1, <1>2
<1> QED
  BY <1>1, <1>3 DEF handleAdmin

LEMMA OneAndTwo ==
    ASSUME NEW S, NEW h \in S, NEW u \in S, NEW mark \in S, NEW r, r = <<h>>, NEW pre, pre = <<u, mark>>
    PROVE  r \o pre = <<h, u, mark>>
<1>1. r \in Seq(S) /\ Len(r) = 1 /\ r[1] = h
  OBVIOUS
<1>2. pre \in Seq(S) /\ Len(pre) = 2 /\ pre[1] = u /\ pre[2] = mark
  OBVIOUS
<1>3. PICK p : p = r \o pre
  OBVIOUS
<1>4. Joined(p, r, pre)
  BY <1>3 DEF Joined
<1>5. Parts(S, p, r, pre)
  BY <1>1, <1>2, <1>4, GluedParts
<1>6. p \in Seq(S) /\ Len(p) = 3 /\ p[1] = h /\ p[1 + 1] = u /\ p[1 + 2] = mark
  BY <1>1, <1>2, <1>5 DEF Parts
<1>7. PICK t : t = <<h, u, mark>>
  OBVIOUS
<1>8. t \in Seq(S) /\ Len(t) = 3 /\ t[1] = h /\ t[2] = u /\ t[3] = mark
  BY <1>7
<1>9. \A i \in 1..Len(p) : p[i] = t[i]
  BY <1>6, <1>8
<1>10. p = t
  BY <1>6, <1>8, <1>9, SameSeq
<1> QED
  BY <1>3, <1>7, <1>10

\* A path of the administration that holds a name behind a marker.
NestedPath(S, h, u, mark, name, q) ==
    /\ <<h, u, mark>> \o name = <<h>> \o q
    /\ q \in Seq(S) /\ q # <<>> /\ NestedIn(q, mark, name)

LEMMA PathNests ==
    ASSUME NEW S, NEW name \in Seq(S), name # <<>>,
           NEW h \in S, NEW u \in S, NEW mark \in S, NEW q, Joined(q, <<u, mark>>, name)
    PROVE  NestedPath(S, h, u, mark, name, q)
<1>1. PICK r : r = <<h>>
  OBVIOUS
<1>2. PICK pre : pre = <<u, mark>>
  OBVIOUS
<1>3. r \in Seq(S) /\ pre \in Seq(S) /\ Len(pre) = 2 /\ pre[2] = mark
  BY <1>1, <1>2
<1>4. (r \o pre) \o name = r \o (pre \o name)
  <2>1. Associates(r, pre, name)
    BY <1>3, Regrouped
  <2> QED
    BY <2>1, Zenon DEF Associates
<1>5. r \o pre = <<h, u, mark>>
  BY <1>1, <1>2, OneAndTwo
<1>6. Joined(q, pre, name)
  BY <1>2
<1>7. NestedIn(q, mark, name)
  BY <1>3, <1>6, NestedName
<1>8. q \in Seq(S) /\ q # <<>>
  BY <1>3, <1>6 DEF Joined
<1>9. <<h, u, mark>> \o name = <<h>> \o q
  <2>1. q = pre \o name
    BY <1>6 DEF Joined
  <2>2. r \o q = <<h, u, mark>> \o name
    BY <1>4, <1>5, <2>1, Zenon
  <2> QED
    BY <1>1, <2>2, Zenon
<1> QED
  BY <1>7, <1>8, <1>9 DEF NestedPath

(* Every path of the administration reaches its repository.                *)
LEMMA AdminPathsReach ==
    ASSUME NEW S, Word \subseteq S, NEW name \in Seq(S), name # <<>>, Last(name) \notin UserAction,
           {"repositories", "users", "features", "trivy", "repository-overrides"} \subseteq S
    PROVE  /\ handleAdmin(<<"repositories">> \o name \o <<"grants">>) = To("repositoryGrants", "authenticated", name)
           /\ handleAdmin(<<"repositories">> \o name \o <<"grants", "user">>) = To("repositoryGrant", "authenticated", name)
           /\ handleAdmin(<<"users", "user", "grants">> \o name) =
                 IF Last(name) = "grants" THEN NotFound ELSE To("userGrant", "admin", name)
           /\ handleAdmin(<<"features", "trivy", "repository-overrides">> \o name) =
                 IF Last(name) = "repository-overrides" THEN NotFound ELSE To("override", "admin", name)
           /\ (\A i \in 2 .. Len(name) : name[i] # "grants") =>
                 handleAdmin(<<"repositories">> \o name) = To("deleteRepository", "authenticated", name)
<1>0. /\ "grants" \in S /\ "user" \in S /\ "trivy" \in S /\ "repository-overrides" \in S
      /\ "repositories" \in S /\ "users" \in S /\ "features" \in S
  BY DEF Word
<1>1. ASSUME NEW h \in S, NEW t \in Seq(S), t # <<>>
      PROVE  /\ h = "repositories" => handleAdmin(<<h>> \o t) = handleAdminRepositoryResource(t)
             /\ h = "features" => handleAdmin(<<h>> \o t) = handleAdminFeatureResource(t)
             /\ h = "users" => handleAdmin(<<h>> \o t) = handleAdminUserResource(t)
  <2>1. PICK p : p = <<h>> \o t
    OBVIOUS
  <2>2. Joined(p, <<h>>, t)
    BY <2>1 DEF Joined
  <2>3. /\ h = "repositories" => handleAdmin(p) = handleAdminRepositoryResource(t)
        /\ h = "features" => handleAdmin(p) = handleAdminFeatureResource(t)
        /\ h = "users" => handleAdmin(p) = handleAdminUserResource(t)
    BY <1>1, <2>2, AdminSwitch
  <2> QED
    BY <2>1, <2>3
<1>2. ASSUME NEW g \in Seq(S)
      PROVE  /\ <<"repositories">> \o name \o g = <<"repositories">> \o (name \o g)
             /\ name \o g \in Seq(S) /\ name \o g # <<>>
  <2>1. PICK r : r = <<"repositories">>
    OBVIOUS
  <2>2. r \in Seq(S)
    BY <1>0, <2>1
  <2>3. (r \o name) \o g = r \o (name \o g)
    <3>1. Associates(r, name, g)
      BY <2>2, Regrouped
    <3> QED
      BY <3>1, Zenon DEF Associates
  <2>4. name \o g \in Seq(S) /\ name \o g # <<>>
    OBVIOUS
  <2> QED
    BY <2>1, <2>3, <2>4
<1>3. handleAdmin(<<"repositories">> \o name \o <<"grants">>) = To("repositoryGrants", "authenticated", name)
  <2>1. PICK g : g = <<"grants">>
    OBVIOUS
  <2>2. g \in Seq(S) /\ Len(g) = 1 /\ g[1] = "grants"
    BY <1>0, <2>1
  <2>3. PICK q : q = name \o g
    OBVIOUS
  <2>4. handleAdminRepositoryResource(q) = To("repositoryGrants", "authenticated", name)
    BY <2>2, <2>3, GrantsReach DEF Joined
  <2>5. handleAdmin(<<"repositories">> \o q) = handleAdminRepositoryResource(q)
    BY <1>0, <1>1, <1>2, <2>2, <2>3
  <2> QED
    BY <1>2, <2>1, <2>2, <2>3, <2>4, <2>5
<1>4. handleAdmin(<<"repositories">> \o name \o <<"grants", "user">>) = To("repositoryGrant", "authenticated", name)
  <2>1. PICK g : g = <<"grants", "user">>
    OBVIOUS
  <2>2. g \in Seq(S) /\ Len(g) = 2 /\ g[1] = "grants" /\ g[2] = "user"
    BY <1>0, <2>1
  <2>3. PICK q : q = name \o g
    OBVIOUS
  <2>4. handleAdminRepositoryResource(q) = To("repositoryGrant", "authenticated", name)
    BY <2>2, <2>3, GrantReaches DEF Joined
  <2>5. handleAdmin(<<"repositories">> \o q) = handleAdminRepositoryResource(q)
    BY <1>0, <1>1, <1>2, <2>2, <2>3
  <2> QED
    BY <1>2, <2>1, <2>2, <2>3, <2>4, <2>5
<1>6. handleAdmin(<<"users", "user", "grants">> \o name) =
        IF Last(name) = "grants" THEN NotFound ELSE To("userGrant", "admin", name)
  <2>1. PICK q : q = <<"user", "grants">> \o name
    OBVIOUS
  <2>4. NestedPath(S, "users", "user", "grants", name, q)
    BY <1>0, <2>1, PathNests DEF Joined
  <2>2. /\ <<"users", "user", "grants">> \o name = <<"users">> \o q
        /\ q \in Seq(S) /\ q # <<>> /\ NestedIn(q, "grants", name)
    BY <2>4 DEF NestedPath
  <2>3. handleAdmin(<<"users">> \o q) = handleAdminUserResource(q)
    BY <1>0, <1>1, <2>2
  <2> QED
    BY <2>2, <2>3, UserGrantReaches
<1>7. handleAdmin(<<"features", "trivy", "repository-overrides">> \o name) =
        IF Last(name) = "repository-overrides" THEN NotFound ELSE To("override", "admin", name)
  <2>1. PICK q : q = <<"trivy", "repository-overrides">> \o name
    OBVIOUS
  <2>4. NestedPath(S, "features", "trivy", "repository-overrides", name, q)
    BY <1>0, <2>1, PathNests DEF Joined
  <2>2. /\ <<"features", "trivy", "repository-overrides">> \o name = <<"features">> \o q
        /\ q \in Seq(S) /\ q # <<>> /\ NestedIn(q, "repository-overrides", name)
    BY <2>4 DEF NestedPath
  <2>3. handleAdmin(<<"features">> \o q) = handleAdminFeatureResource(q)
    BY <1>0, <1>1, <2>2
  <2> QED
    BY <2>2, <2>3, OverrideReaches
<1>8. ASSUME \A i \in 2 .. Len(name) : name[i] # "grants"
      PROVE  handleAdmin(<<"repositories">> \o name) = To("deleteRepository", "authenticated", name)
  <2>1. handleAdmin(<<"repositories">> \o name) = handleAdminRepositoryResource(name)
    BY <1>0, <1>1
  <2> QED
    BY <1>8, <2>1, DeleteReaches
<1> QED
  BY <1>3, <1>4, <1>6, <1>7, <1>8

(* For every repository name, of any length: every path that a client or   *)
(* the console builds for it is answered by the handler it is meant for,   *)
(* with the very name it was built from, but for the names that            *)
(* EveryPathFound excepts (router.go splitRepositoryPath, handleV2;        *)
(* admin_handlers.go handleAdminRepositoryResource, adminNestedResource).  *)
THEOREM EveryNameFound == requested \in RepoName \cup {<<>>} => EveryPathFound
<1> SUFFICES ASSUME requested \in RepoName \cup {<<>>} PROVE EveryPathFound
  OBVIOUS
<1>1. PICK name : name = requested
  OBVIOUS
<1>2. PICK S : S = Range(name) \cup Word \cup {"repositories", "users", "features", "trivy", "repository-overrides"}
  OBVIOUS
<1>3. Word \subseteq S /\ {"repositories", "users", "features", "trivy", "repository-overrides"} \subseteq S
  BY <1>2
<1>4. ASSUME name # <<>> PROVE name \in Seq(S) /\ Last(name) \notin UserAction
  <2>1. name \in Seq(Range(name)) /\ Range(name) \cap UserAction = {}
    BY <1>1, <1>4, RoutesAssumption
  <2>2. Range(name) \subseteq S
    BY <1>2
  <2>3. PICK R : R = Range(name)
    OBVIOUS
  <2>4. name \in Seq(R) /\ R \subseteq S
    BY <2>1, <2>2, <2>3
  <2>5. name \in Seq(S)
    BY <2>4
  <2>6. Len(name) \in DOMAIN name
    BY <1>4, <2>5
  <2>7. Last(name) \in Range(name)
    BY <2>6 DEF Last, Range
  <2> QED
    BY <2>1, <2>5, <2>7
<1>5. PathsReachTheirRepository
  BY <1>1, <1>3, <1>4, V2PathsReach
<1>6. AdminPathsReachTheirRepository
  <2>1. CASE name = <<>>
    BY <1>1, <2>1 DEF AdminPathsReachTheirRepository
  <2>2. CASE name # <<>>
    <3>1. name \in Seq(S) /\ Last(name) \notin UserAction
      BY <1>4, <2>2
    <3>2. /\ handleAdmin(<<"repositories">> \o name \o <<"grants">>) = To("repositoryGrants", "authenticated", name)
          /\ handleAdmin(<<"repositories">> \o name \o <<"grants", "user">>) = To("repositoryGrant", "authenticated", name)
          /\ handleAdmin(<<"users", "user", "grants">> \o name) =
                IF Last(name) = "grants" THEN NotFound ELSE To("userGrant", "admin", name)
          /\ handleAdmin(<<"features", "trivy", "repository-overrides">> \o name) =
                IF Last(name) = "repository-overrides" THEN NotFound ELSE To("override", "admin", name)
          /\ (\A i \in 2 .. Len(name) : name[i] # "grants") =>
                handleAdmin(<<"repositories">> \o name) = To("deleteRepository", "authenticated", name)
      BY <1>3, <2>2, <3>1, AdminPathsReach
    <3> QED
      BY <1>1, <3>2, Zenon DEF AdminPathsReachTheirRepository
  <2> QED
    BY <2>1, <2>2
<1> QED
  BY <1>5, <1>6 DEF EveryPathFound
=============================================================================
