----------------------------- MODULE AdminPanel -----------------------------
(***************************************************************************)
(* The admin panel of the console: sign-in, session and intent, the pages  *)
(* of accounts, robots, tokens and grants, and the delegate's page of a    *)
(* repository's grants.                                                    *)
(*                                                                         *)
(*   internal/tui/model.go         Update, updateAdminKey and the key      *)
(*                                 handlers of the admin pages             *)
(*   internal/tui/session.go       AdminSession, AdminViewState            *)
(*   internal/tui/admin_client.go  the calls, each with the session's token *)
(*                                                                         *)
(* A call runs beside the console.  Its answer arrives when it likes, and  *)
(* Update applies it to whatever the operator has opened meanwhile: to     *)
(* another page, to another account, after a logout or in a later session. *)
(* A page of the inspection half is one page here; a load of that half that *)
(* is still under way when the panel is opened takes the operator back when *)
(* it is answered (Inspection).                                            *)
(***************************************************************************)
EXTENDS Naturals, FiniteSets

CONSTANTS
    User, Robot,   \* accounts: people and machines
    Place,         \* repositories
    Unset,         \* nobody, nothing
    MaxAsked,      \* bound on calls the operator's keys send
    MaxSignIns     \* bound on sign-ins

Account == User \union Robot

VARIABLES
    page,       \* m.screen
    auth,       \* m.adminAuth
    session,    \* m.adminSession: the number of its sign-in, 0 is none
    intent,     \* m.adminIntentRepository: a sign-in that goes on to its grants
    view,       \* m.adminView
    calls,      \* calls in flight
    signIns,    \* sign-ins so far
    sentBy,     \* calls the operator's keys have sent
    loading,    \* a load of the inspection half is in flight
    (* What happened, for the properties only. *)
    wanted,     \* the repository whose grants the panel was last opened for
    overtaken   \* an answer came after the operator had moved on

panelVars == <<page, auth, session, intent, view, calls, signIns, sentBy, loading, wanted, overtaken>>

\* users and robots: the list is there; found: who matches the search; chosen
\* is SelectedUserID and cursor the row of SelectedUser; grantsOf and tokensOf
\* are whose lists are shown, secret whose token is revealed; prompt is what
\* Enter would do; repo, grantsIn and authorized are the delegate's page.
\* astray, for the properties only: the tokens of the chosen account could not
\* be loaded, or an answer about another account chose that one.
newAdminViewState ==
    [users |-> FALSE, found |-> User, robots |-> FALSE, chosen |-> Unset, cursor |-> Unset,
     grantsOf |-> Unset, tokensOf |-> Unset, secret |-> Unset, prompt |-> Unset,
     repo |-> Unset, grantsIn |-> Unset, authorized |-> FALSE, astray |-> FALSE]

PanelInit ==
    /\ page = "inspection" /\ auth = "unauthenticated" /\ session = 0 /\ intent = Unset
    /\ view = newAdminViewState /\ calls = {} /\ signIns = 0 /\ sentBy = 0
    /\ loading = FALSE /\ wanted = Unset /\ overtaken = FALSE

-----------------------------------------------------------------------------
(***************************************************************************)
(* Calls.  A call carries the session of the moment it was sent; one that  *)
(* is under way when the page changes is late.                             *)
(***************************************************************************)
Call(kind, on) == [kind |-> kind, on |-> on, late |-> FALSE]
Belated(cs) == {[c EXCEPT !.late = TRUE] : c \in cs}
Spend == sentBy < MaxAsked /\ sentBy' = sentBy + 1

\* The operator goes to page p with view v and sends cs.
Go(p, v, cs) ==
    /\ page' = p /\ view' = v
    /\ IF cs = {} THEN UNCHANGED sentBy ELSE Spend
    /\ calls' = (IF p = page THEN calls ELSE Belated(calls)) \union cs
    /\ UNCHANGED <<session, signIns, loading, overtaken>>
Key(p, v, cs) == Go(p, v, cs) /\ UNCHANGED <<auth, intent, wanted>>

Put(v, field, value) == [v EXCEPT ![field] = value]
clearRevealedAdminToken_Kept(v) == v  \* mutant: the secret stays
clearRevealedAdminToken(v) == [v EXCEPT !.secret = Unset]
clearSelectedAdminDetails(v) ==
    [v EXCEPT !.grantsOf = Unset, !.tokensOf = Unset, !.secret = Unset, !.astray = FALSE]

\* Among the rows the search leaves the cursor keeps its account when it is
\* there and is bounded to them otherwise.
Rows(v) == IF v.users THEN v.found ELSE {}
syncAdminUserSelection(v) ==
    IF Rows(v) = {} THEN {[v EXCEPT !.chosen = Unset, !.cursor = Unset]}
    ELSE {[v EXCEPT !.chosen = u, !.cursor = u] :
            u \in IF v.chosen \in Rows(v) THEN {v.chosen}
                  ELSE IF v.cursor \in Rows(v) THEN {v.cursor} ELSE Rows(v)}

\* Where another account is chosen its details start empty ...
applyLoadedUsers(v) ==
    {IF w.chosen # v.chosen THEN clearSelectedAdminDetails(w) ELSE w :
       w \in syncAdminUserSelection([v EXCEPT !.users = TRUE])}
\* ... but a search, and Tab, empty them only where none is left.
applyAdminUserFilter(v) ==
    {IF w.chosen = Unset THEN clearSelectedAdminDetails(w) ELSE w :
       w \in syncAdminUserSelection(v)}

-----------------------------------------------------------------------------
(***************************************************************************)
(* The way in, and the session.                                            *)
(***************************************************************************)
LogoutAdminState == newAdminViewState

\* A session that has run out is noticed when the panel is opened.
ExpireAdminState == page' = "login" /\ session' = 0 /\ auth' = "expired" /\ view' = LogoutAdminState

\* Tab.  The intent of an earlier g is not looked at.
openAdmin ==
    /\ page = "inspection"
    /\ loading' \in BOOLEAN /\ wanted' = Unset /\ intent' = intent
    /\ \/ /\ session # 0
          /\ auth' = "authenticated" /\ page' = "menu" /\ session' = session
          /\ IF view.users
             THEN /\ view' \in applyAdminUserFilter(view)
                  /\ calls' = Belated(calls) /\ UNCHANGED sentBy
             ELSE /\ view' = view /\ Spend
                  /\ calls' = Belated(calls) \union {Call("users", Unset)}
       \/ session # 0 /\ ExpireAdminState /\ calls' = Belated(calls) /\ UNCHANGED sentBy
       \/ /\ session = 0 /\ page' = "login" /\ auth' \in {"unauthenticated", "expired"}
          /\ calls' = Belated(calls) /\ UNCHANGED <<session, view, sentBy>>
    /\ UNCHANGED <<signIns, overtaken>>

openRepoAdminGrants_KeepAuthorized(r) ==  \* mutant: what was authorized stays authorized
    /\ page = "inspection"
    /\ loading' \in BOOLEAN /\ wanted' = r
    /\ \/ /\ session # 0 /\ Spend
          /\ auth' = "authenticated" /\ page' = "repoGrants" /\ intent' = Unset
          /\ view' = [view EXCEPT !.repo = r]
          /\ calls' = Belated(calls) \union {Call("repoGrants", r)} /\ session' = session
       \/ session # 0 /\ ExpireAdminState /\ intent' = r /\ calls' = Belated(calls)
          /\ UNCHANGED sentBy
       \/ /\ session = 0 /\ page' = "login" /\ auth' \in {"unauthenticated", "expired"}
          /\ intent' = r /\ calls' = Belated(calls) /\ UNCHANGED <<session, view, sentBy>>
    /\ UNCHANGED <<signIns, overtaken>>
openRepoAdminGrants(r) ==
    /\ page = "inspection"
    /\ loading' \in BOOLEAN /\ wanted' = r
    /\ \/ /\ session # 0 /\ Spend
          /\ auth' = "authenticated" /\ page' = "repoGrants" /\ intent' = Unset
          /\ view' = [view EXCEPT !.repo = r, !.authorized = FALSE]
          /\ calls' = Belated(calls) \union {Call("repoGrants", r)} /\ session' = session
       \/ session # 0 /\ ExpireAdminState /\ intent' = r /\ calls' = Belated(calls)
          /\ UNCHANGED sentBy
       \/ /\ session = 0 /\ page' = "login" /\ auth' \in {"unauthenticated", "expired"}
          /\ intent' = r /\ calls' = Belated(calls) /\ UNCHANGED <<session, view, sentBy>>
    /\ UNCHANGED <<signIns, overtaken>>

updateAdminLoginKey ==
    /\ page = "login" /\ signIns < MaxSignIns /\ UNCHANGED sentBy
    /\ page' = "authenticating" /\ auth' = "authenticating" /\ signIns' = signIns + 1
    /\ calls' = Belated(calls) \union {Call("login", Unset)}
    /\ UNCHANGED <<session, intent, view, loading, wanted, overtaken>>

\* l, where no form and no prompt is open.  The pages in m.adminScreens stay
\* mounted, over an expiry too (FeatureScreens).
LogoutPage == {"menu", "users", "editUser", "grants", "tokens", "repoGrants", "robots"}
logoutAdmin ==
    /\ page \in LogoutPage /\ auth = "authenticated" /\ view.prompt = Unset
    /\ page' = "login" /\ auth' = "unauthenticated" /\ session' = 0 /\ intent' = Unset
    /\ view' = LogoutAdminState /\ calls' = Belated(calls)
    /\ UNCHANGED <<signIns, sentBy, loading, wanted, overtaken>>

\* Esc on the form, on the menu and on the delegate's page.
returnToInspection_KeepIntent ==  \* mutant: the intent survives
    /\ page \in {"login", "menu", "repoGrants"} /\ view.prompt = Unset
    /\ Go("inspection", [clearRevealedAdminToken(view) EXCEPT !.prompt = Unset], {})
    /\ UNCHANGED <<auth, intent, wanted>>
returnToInspection ==
    /\ page \in {"login", "menu", "repoGrants"} /\ view.prompt = Unset
    /\ Go("inspection", [clearRevealedAdminToken(view) EXCEPT !.prompt = Unset], {})
    /\ intent' = Unset /\ UNCHANGED <<auth, wanted>>

expireAdminSession_KeepView ==  \* mutant: what the session showed stays
    /\ page' = "login" /\ auth' = "expired" /\ session' = 0
    /\ UNCHANGED <<view, intent>>
expireAdminSession ==
    /\ page' = "login" /\ auth' = "expired" /\ session' = 0 /\ view' = LogoutAdminState
    /\ UNCHANGED intent

\* A load of the inspection half is answered: its page is shown.
ConsoleAnswer ==
    /\ loading /\ loading' = FALSE /\ page' = "inspection"
    /\ overtaken' = (overtaken \/ page # "inspection")
    /\ calls' = Belated(calls)
    /\ UNCHANGED <<auth, session, intent, view, signIns, sentBy, wanted>>

-----------------------------------------------------------------------------
(***************************************************************************)
(* The pages.  An open prompt takes every key: Enter sends and leaves it   *)
(* open, Esc closes it.                                                    *)
(***************************************************************************)
Ask(act, on) == Put(view, "prompt", [act |-> act, on |-> on])
Free(p) == page = p /\ view.prompt = Unset

ConfirmKey ==
    /\ view.prompt # Unset /\ page \notin {"inspection", "login", "authenticating"}
    /\ \/ Key(page, Put(view, "prompt", Unset), {})
       \/ Key(page, view, {Call(view.prompt.act, view.prompt.on)})

MenuKeys == Free("menu") /\ Key("users", view, {})

updateAdminUsersKey ==
    /\ Free("users")
    /\ \/ Key("menu", view, {})                                          \* Esc
       \/ \E found \in SUBSET User :                                     \* search
            \E w \in applyAdminUserFilter(Put(view, "found", found)) : Key("users", w, {})
       \/ \E u \in Rows(view) : Key("users",                             \* Up and Down
            [(IF u = view.chosen THEN view ELSE clearSelectedAdminDetails(view))
               EXCEPT !.chosen = u, !.cursor = u], {})
       \/ Key("createUser", view, {})                                    \* n
       \/ Key("users", view, {Call("users", Unset)})                     \* r

openAdminRobots ==  \* b
    Free("users") /\ Key("robots", clearRevealedAdminToken(view), {Call("robots", Unset)})

openAdminEditUser ==
    Free("users") /\ view.chosen # Unset /\ Key("editUser", clearRevealedAdminToken(view), {})

updateAdminEditUserKey ==
    /\ Free("editUser")
    /\ \/ Key("users", clearRevealedAdminToken(view), {})
       \/ view.chosen # Unset /\ Key("changePassword", view, {})
       \/ Key("editUser", view, {Call("users", Unset)})
       \/ view.cursor # Unset /\ Key("editUser", Ask("enableUser", view.cursor), {})

openAdminEditTokens ==
    /\ Free("editUser") \/ Free("grants")
    /\ view.chosen # Unset
    /\ Key("tokens", view, {Call("tokens", view.chosen)})

openAdminEditGrants ==
    /\ Free("editUser") \/ Free("tokens")
    /\ view.chosen # Unset
    /\ Key("grants", clearRevealedAdminToken(view), {Call("grants", view.chosen)})

updateAdminGrantsKey ==
    /\ Free("grants")
    /\ \/ Key("editUser", view, {})
       \/ view.chosen # Unset /\ Key("grants", view, {Call("grants", view.chosen)})
       \/ (view.chosen # Unset \/ view.grantsOf # Unset) /\ Key("addGrant", view, {})
       \/ view.grantsOf # Unset /\ Key("grants", Ask("deleteGrant", view.chosen), {})

updateAdminTokensKey ==
    /\ Free("tokens")
    /\ \/ Key("editUser", clearRevealedAdminToken(view), {})
       \/ view.chosen # Unset /\ Key("createToken", view, {})
       \/ view.chosen # Unset /\ Key("tokens", clearRevealedAdminToken(view),
                                     {Call("tokens", view.chosen)})
       \/ view.tokensOf # Unset /\ Key("tokens", Ask("revokeToken", view.chosen), {})

\* The forms: Esc goes back, Enter sends for the account that is chosen then.
Form(form, back, kind) ==
    /\ Free(form)
    /\ \/ Key(back, view, {})
       \/ view.chosen # Unset /\ Key(form, view, {Call(kind, view.chosen)})
updateResetPasswordFormKey == Form("changePassword", "editUser", "resetPassword")
updateGrantFormKey == Form("addGrant", "grants", "putGrant")
updateTokenFormKey == Form("createToken", "tokens", "createToken")

updateCreateUserFormKey ==
    /\ Free("createUser")
    /\ \/ Key("users", view, {})
       \/ \E u \in User : Key("createUser", view, {Call("createUser", u)})

updateAdminRobotsKey ==
    /\ Free("robots")
    /\ \/ Key("users", clearRevealedAdminToken(view), {})
       \/ Key("createRobot", clearRevealedAdminToken(view), {})
       \/ Key("robots", view, {Call("robots", Unset)})
       \/ \E b \in Robot, act \in {"enableRobot", "deleteRobot"} :
            view.robots /\ Key("robots", Ask(act, b), {})

openAdminRobotTokens_NoLoad ==  \* mutant: the tokens are not asked for
    /\ Free("robots")
    /\ \E b \in Robot : view.robots /\
         Key("tokens", Put(clearRevealedAdminToken(view), "chosen", b), {})
openAdminRobotTokens ==
    /\ Free("robots")
    /\ \E b \in Robot : view.robots /\
         Key("tokens", Put(clearRevealedAdminToken(view), "chosen", b), {Call("tokens", b)})

updateCreateRobotFormKey ==
    /\ Free("createRobot")
    /\ \/ Key("robots", clearRevealedAdminToken(view), {})
       \/ \E b \in Robot : Key("createRobot", view, {Call("createRobot", b)})

\* n needs the authorized mark; e and x take a row of the list that is shown.
updateRepoAdminGrantsKey ==
    /\ Free("repoGrants")
    /\ \/ (view.authorized \/ view.grantsIn # Unset) /\ Key("repoAddGrant", view, {})
       \/ view.grantsIn # Unset /\ Key("repoGrants", Ask("repoGrant", view.repo), {})

updateRepoAdminAddGrantKey ==
    /\ Free("repoAddGrant")
    /\ \/ Key("repoGrants", view, {})
       \/ view.repo # Unset /\ Key("repoAddGrant", view, {Call("repoGrant", view.repo)})

-----------------------------------------------------------------------------
(***************************************************************************)
(* The answers.  An error leaves the page alone, unless it says that the   *)
(* session has expired: then the session of now is ended, whichever sent   *)
(* the call.  A success moves to the page of its kind.                     *)
(***************************************************************************)
Answered(c) ==
    /\ overtaken' = (overtaken \/ c.late)
    /\ UNCHANGED <<signIns, sentBy, loading, wanted>>
Rest(c, p) == IF p = page THEN calls \ {c} ELSE Belated(calls \ {c})

Expired(c) ==
    /\ expireAdminSession /\ calls' = Belated(calls \ {c}) /\ Answered(c)

CallFailed(c) ==
    /\ c.kind # "login"
    /\ view' = CASE c.kind = "repoGrants" -> Put(view, "authorized", FALSE)
                 [] c.kind = "tokens" /\ c.on = view.chosen -> Put(view, "astray", TRUE)
                 [] OTHER -> view
    /\ calls' = calls \ {c} /\ Answered(c)
    /\ UNCHANGED <<page, auth, session, intent>>

LoginFailed_Stays(c) ==  \* mutant: the page goes on waiting
    /\ c.kind = "login"
    /\ auth' = "unauthenticated" /\ session' = 0 /\ view' = LogoutAdminState
    /\ calls' = Belated(calls \ {c}) /\ Answered(c) /\ UNCHANGED <<page, intent>>
LoginFailed(c) ==
    /\ c.kind = "login"
    /\ page' = "login" /\ auth' = "unauthenticated" /\ session' = 0 /\ view' = LogoutAdminState
    /\ calls' = Belated(calls \ {c}) /\ Answered(c) /\ UNCHANGED intent

\* The intent is taken once.
adminLoginCompleted(c) ==
    /\ c.kind = "login"
    /\ session' = signIns /\ auth' = "authenticated" /\ intent' = Unset
    /\ IF intent # Unset
       THEN /\ page' = "repoGrants"
            /\ view' = [view EXCEPT !.repo = intent, !.authorized = FALSE]
            /\ calls' = Belated(calls \ {c}) \union {Call("repoGrants", intent)}
       ELSE /\ page' = "menu" /\ view' = view
            /\ calls' = Belated(calls \ {c}) \union {Call("users", Unset)}
    /\ Answered(c)

Closed(v) == Put(v, "prompt", Unset)
Chosen(c) == Put(view, "chosen", c.on)
Strayed(c) == view.astray \/ c.on # view.chosen

\* Lists: the page stays.
Shows(c, v) ==
    /\ view' = v /\ calls' = calls \ {c} /\ Answered(c)
    /\ UNCHANGED <<page, auth, session, intent>>

adminUsersLoaded(c) == c.kind = "users" /\ \E v \in applyLoadedUsers(view) : Shows(c, v)
adminUserGrantsLoaded(c) ==
    /\ c.kind = "grants"
    /\ Shows(c, [view EXCEPT !.chosen = c.on, !.grantsOf = c.on, !.astray = Strayed(c)])
adminUserTokensLoaded(c) ==
    /\ c.kind = "tokens"
    /\ Shows(c, [view EXCEPT !.chosen = c.on, !.tokensOf = c.on, !.astray = FALSE])
adminRepoGrantsLoaded(c) ==
    /\ c.kind = "repoGrants"
    /\ Shows(c, [view EXCEPT !.repo = c.on, !.grantsIn = c.on, !.authorized = TRUE])
adminRobotsLoaded(c) == c.kind = "robots" /\ Shows(c, Put(view, "robots", TRUE))

\* Changes: the page that shows them, and its list again.
Moves(c, p, v, cs) ==
    /\ page' = p /\ view' = v
    /\ calls' = Rest(c, p) \union cs /\ Answered(c)
    /\ UNCHANGED <<auth, session, intent>>

adminUserCreated(c) ==
    c.kind = "createUser" /\ Moves(c, "users", Chosen(c), {Call("users", Unset)})
adminPasswordReset(c) == c.kind = "resetPassword" /\ Moves(c, "editUser", Chosen(c), {})
adminUserEnabled(c) ==
    c.kind = "enableUser" /\ Moves(c, "editUser", Closed(Chosen(c)), {Call("users", Unset)})
adminGrantMutated(c) ==
    /\ c.kind \in {"putGrant", "deleteGrant"}
    /\ Moves(c, "grants", Closed(Chosen(c)), {Call("grants", c.on)})
adminRepoGrantMutated(c) ==
    c.kind = "repoGrant" /\ Moves(c, "repoGrants", Closed(view), {Call("repoGrants", c.on)})
adminTokenCreated(c) ==
    /\ c.kind = "createToken"
    /\ Moves(c, "tokens", Put(Chosen(c), "secret", c.on), {Call("tokens", c.on)})
adminTokenRevoked(c) ==
    /\ c.kind = "revokeToken"
    /\ Moves(c, "tokens", Closed([view EXCEPT !.secret = Unset, !.astray = Strayed(c)]),
             {Call("tokens", c.on)})
adminRobotCreated(c) ==
    /\ c.kind = "createRobot"
    /\ Moves(c, "createRobot", Put(view, "secret", c.on), {Call("robots", Unset)})
adminRobotEnabled(c) ==
    c.kind = "enableRobot" /\ Moves(c, "robots", Closed(view), {Call("robots", Unset)})
adminRobotDeleted(c) ==
    c.kind = "deleteRobot" /\ Moves(c, "robots", Closed(view), {Call("robots", Unset)})

Answer ==
    \E c \in calls :
      \/ Expired(c) \/ CallFailed(c) \/ LoginFailed(c) \/ adminLoginCompleted(c)
      \/ adminUsersLoaded(c) \/ adminUserGrantsLoaded(c) \/ adminUserTokensLoaded(c)
      \/ adminRepoGrantsLoaded(c) \/ adminRobotsLoaded(c)
      \/ adminUserCreated(c) \/ adminPasswordReset(c) \/ adminUserEnabled(c)
      \/ adminGrantMutated(c) \/ adminRepoGrantMutated(c)
      \/ adminTokenCreated(c) \/ adminTokenRevoked(c)
      \/ adminRobotCreated(c) \/ adminRobotEnabled(c) \/ adminRobotDeleted(c)

PanelKeys ==
    \/ openAdmin \/ (\E r \in Place : openRepoAdminGrants(r)) \/ updateAdminLoginKey
    \/ logoutAdmin \/ returnToInspection
    \/ ConfirmKey \/ MenuKeys \/ updateAdminUsersKey \/ openAdminEditUser \/ openAdminRobots
    \/ updateAdminEditUserKey \/ openAdminEditTokens \/ openAdminEditGrants
    \/ updateAdminGrantsKey \/ updateAdminTokensKey \/ updateCreateUserFormKey
    \/ updateResetPasswordFormKey \/ updateGrantFormKey \/ updateTokenFormKey
    \/ updateAdminRobotsKey \/ openAdminRobotTokens \/ updateCreateRobotFormKey
    \/ updateRepoAdminGrantsKey \/ updateRepoAdminAddGrantKey

PanelNext == PanelKeys \/ Answer \/ ConsoleAnswer
PanelSpec == PanelInit /\ [][PanelNext]_panelVars

-----------------------------------------------------------------------------
(***************************************************************************)
(* Properties.                                                             *)
(***************************************************************************)
\* A secret is shown once and under the account it was made for: on the page
\* of tokens the revealed one is the chosen account's, however the operator
\* got there, unless an answer came after he had moved on
\* (clearRevealedAdminToken and its callers).
SecretUnderItsOwner ==
    page = "tokens" /\ view.secret # Unset => view.secret = view.chosen \/ overtaken

\* A sign-in goes on to a repository's grants only for the g that asked for
\* it; leaving the form, or Tab, must not leave the errand behind, unless an
\* answer came after he had moved on, as one that finds the session expired
\* (adminIntent in openRepoAdminGrants, returnToInspection and logoutAdmin).
IntentTakenOnce ==
    intent # Unset /\ page \in {"login", "authenticating"} => intent = wanted \/ overtaken

\* When a session is over nothing of m.adminView is left, which is the menu, the
\* accounts, the robots, the tokens and the grants, unless an answer came after
\* the operator had moved on.  The pages of the features, of the overrides and of
\* the update channel are in m.adminScreens, which is not emptied with it: what
\* they showed is there for the next session (LogoutAdminState, ExpireAdminState).
LogoutForgets ==
    session = 0 /\ ~overtaken
      => view = newAdminViewState /\ page \in {"inspection", "login", "authenticating"}

\* The mark that lets the operator add a grant stands for the repository on
\* the page, never for one he had open before
\* (RepoAdminGrantsAuthorized, session.go 423-431).
AuthorizedListMatches == view.authorized => view.grantsIn = view.repo

\* The console never waits for a sign-in nobody is making.
AuthenticatingHasLogin ==
    page = "authenticating" => \E c \in calls : c.kind = "login"

\* Tokens of another account are shown only while the chosen one's are being
\* fetched, when that failed, or when an answer about another account came since
\* the tokens were loaded: a late grants answer chooses its account under the
\* tokens that are shown, and a late revocation comes back to a page whose
\* account a search has changed (openAdminRobotTokens, openAdminEditTokens,
\* adminUserGrantsLoadedMsg in Update).
TokensOfSelected ==
    page = "tokens" /\ view.tokensOf \notin {Unset, view.chosen}
      => \/ view.astray
         \/ \E c \in calls : c.kind = "tokens" /\ c.on = view.chosen

\* A secret, what m.adminView shows, or an errand is not carried over to the next
\* account, session or sign-in.
NothingCarriedOver == SecretUnderItsOwner /\ LogoutForgets /\ IntentTakenOnce
=============================================================================
