----------------------------- MODULE Inspection -----------------------------
(***************************************************************************)
(* The inspection half of the console: repositories, projects, tags and    *)
(* manifests, and the deletes that are asked for there.                    *)
(*                                                                         *)
(*   internal/tui/model.go   Init, Update, updateKey, openAdmin,           *)
(*                           returnToInspection, the load commands         *)
(*   internal/tui/confirm.go confirmPrompt                                 *)
(*                                                                         *)
(* A command runs beside the console, reads or changes the registry at a   *)
(* moment of its own and is answered by a message; messages arrive in any  *)
(* order, whatever the operator has opened meanwhile.  A row is highlighted *)
(* by moving the cursor, which changes nothing else, so that a key acts on  *)
(* any row of the list.  The admin panel is three pages here: the sign-in   *)
(* form, the wait for its answer, and the panel itself (AdminPanel).        *)
(***************************************************************************)
EXTENDS Naturals, FiniteSets

CONSTANTS
    Repo,         \* repositories, each with one tag
    Project,      \* the repositories by first path segment: a partition of Repo
    Nobody,       \* no repository, project or question
    MaxLoads,     \* bound on commands in flight
    MaxSent       \* bound on commands ever sent

ASSUME ProjectAssumption ==
    /\ \A p \in Project : p \subseteq Repo
    /\ \A r \in Repo : \E p \in Project : r \in p /\ \A q \in Project : r \in q => q = p

VARIABLES
    stored,     \* repositories of the registry
    tagged,     \* those whose tag is there
    screen,     \* m.screen
    adminReturn,
    startup,    \* m.startupLogin: the first sign-in goes on to the catalog
    signedIn,   \* m.adminSession
    listed,     \* m.repositories.Items
    filter,     \* m.repositories.Filter, a project
    projects,   \* m.projects.Items
    tags,       \* m.tags: the repository it shows
    hasTag,     \* ... and whether its tag is listed
    last,       \* m.lastRepository
    confirm,    \* the prompt of each screen: what Enter deletes
    status,     \* the question on the status line
    loads,      \* commands in flight
    sent,       \* commands sent so far
    (* What happened, for the properties only. *)
    asked,      \* what was asked about and neither cancelled nor answered
    stranded,   \* the panel was left for a page whose answer had come
    gone,       \* what this console deleted and nobody pushed again
    excused     \* two loads overlapped, or a reload failed

inspectionVars == <<stored, tagged, screen, adminReturn, startup, signedIn, listed, filter,
                    projects, tags, hasTag, last, confirm, status, loads, sent, asked, stranded, gone,
                    excused>>
registryVars == <<stored, tagged, gone>>
listVars == <<listed, filter, projects, tags, hasTag, last>>

ListPage == {"repositories", "projects", "tags"}
InspectionPage == ListPage \union {"loading", "manifest", "details", "empty", "error"}
Prompt == {"repository", "tag", "project"}
Target(kind, repos) == [kind |-> kind, repos |-> repos]
NoPrompt == [k \in Prompt |-> Nobody]
Question(page) == CASE page = "repositories" -> "repository" [] page = "tags" -> "tag"
                    [] page = "projects" -> "project"

Load(kind, repos) == [kind |-> kind, repos |-> repos, ran |-> FALSE, found |-> {}, ok |-> TRUE]
Loads == {"catalog", "tags", "manifest"}
Fetching == {l \in loads : l.kind \in Loads}

\* A command is sent; two that list things at once are an overlap.
Send(kind, repos) ==
    /\ sent < MaxSent /\ Cardinality(loads) < MaxLoads
    /\ Load(kind, repos) \notin loads
    /\ loads' = loads \union {Load(kind, repos)} /\ sent' = sent + 1
    /\ excused' = (excused \/ (kind \in Loads /\ Fetching # {}))
SendNothing == UNCHANGED <<loads, sent, excused>>

\* Init: the catalog is loaded, or the operator signs in first.
InspectionInit ==
    /\ stored \in SUBSET Repo /\ tagged = stored
    /\ startup \in BOOLEAN
    /\ screen = IF startup THEN "login" ELSE "loading"
    /\ adminReturn = IF startup THEN "repositories" ELSE "loading"
    /\ signedIn = FALSE
    /\ listed = {} /\ filter = Nobody /\ projects = {}
    /\ tags = Nobody /\ hasTag = FALSE /\ last = Nobody
    /\ confirm = NoPrompt /\ status = Nobody
    /\ loads = IF startup THEN {} ELSE {Load("catalog", {})}
    /\ sent = 0
    /\ asked = {} /\ stranded = FALSE /\ gone = {} /\ excused = FALSE

-----------------------------------------------------------------------------
(***************************************************************************)
(* The keys of the inspection pages (updateKey).                           *)
(***************************************************************************)
FilteredItems == IF filter = Nobody THEN listed ELSE listed \intersect filter
Pending(page) == page \in ListPage /\ confirm[Question(page)] # Nobody

\* Enter on an open prompt sends its command and leaves the prompt open.
ConfirmEnter ==
    /\ Pending(screen)
    /\ LET target == confirm[Question(screen)] IN Send(target.kind, target.repos)
    /\ UNCHANGED <<screen, adminReturn, startup, signedIn, confirm, status, asked, stranded>>
    /\ UNCHANGED registryVars /\ UNCHANGED listVars

ConfirmEsc ==
    /\ Pending(screen)
    /\ confirm' = [confirm EXCEPT ![Question(screen)] = Nobody]
    /\ asked' = asked \ {confirm[Question(screen)]}
    /\ status' = Nobody
    /\ SendNothing
    /\ UNCHANGED <<screen, adminReturn, startup, signedIn, stranded, gone>>
    /\ UNCHANGED <<stored, tagged>> /\ UNCHANGED listVars

\* Enter opens the highlighted row; on a project that is a filter.
OpenRow ==
    /\ ~Pending(screen)
    /\ \/ /\ screen = "repositories"
          /\ \E r \in FilteredItems : Send("tags", {r})
          /\ screen' = "loading" /\ filter' = filter
       \/ /\ screen = "tags" /\ hasTag
          /\ Send("manifest", {tags})
          /\ screen' = "loading" /\ filter' = filter
       \/ /\ screen = "projects"
          /\ \E p \in projects : filter' = p
          /\ screen' = "repositories" /\ SendNothing
    /\ UNCHANGED <<adminReturn, startup, signedIn, listed, projects, tags, hasTag, last, confirm, status,
                   asked, stranded>>
    /\ UNCHANGED registryVars

\* Esc and Backspace: the status line is cleared on every page.  An open
\* prompt takes Esc for itself, on its own page; Backspace passes it by.
Back ==
    /\ screen \in InspectionPage
    /\ status' = Nobody
    /\ filter' = IF screen = "repositories" THEN Nobody ELSE filter
    /\ screen' = CASE screen = "projects" -> "repositories"
                   [] screen \in {"tags", "empty"} /\ last # Nobody -> "repositories"
                   [] screen = "manifest" -> "tags"
                   [] screen = "details" -> "manifest"
                   [] OTHER -> screen
    /\ SendNothing
    /\ UNCHANGED <<adminReturn, startup, signedIn, listed, projects, tags, hasTag, last, confirm, asked,
                   stranded>>
    /\ UNCHANGED registryVars

\* d: the prompt keeps what was highlighted when it was opened.
AskDelete ==
    /\ screen \in ListPage
    /\ \/ \E r \in FilteredItems :
            screen = "repositories" /\ status' = Target("repository", {r})
       \/ screen = "tags" /\ hasTag /\ status' = Target("tag", {tags})
       \/ \E p \in projects :
            screen = "projects" /\ status' = Target("project", listed \intersect p)
    /\ confirm' = [confirm EXCEPT ![Question(screen)] = status']
    /\ asked' = (asked \ {confirm[Question(screen)]}) \union {status'}
    /\ SendNothing
    /\ UNCHANGED <<screen, adminReturn, startup, signedIn, stranded>>
    /\ UNCHANGED registryVars /\ UNCHANGED listVars

\* p: the projects are derived afresh, with no prompt of their own.
deriveProjects(items) == {p \in Project : p \intersect items # {}}
ShowProjects ==
    /\ screen = "repositories"
    /\ screen' = "projects" /\ projects' = deriveProjects(listed)
    /\ confirm' = [confirm EXCEPT !["project"] = Nobody]
    /\ asked' = asked \ {confirm["project"]}
    /\ SendNothing
    /\ UNCHANGED <<adminReturn, startup, signedIn, listed, filter, tags, hasTag, last, status, stranded>>
    /\ UNCHANGED registryVars

\* b and u: the blobs and the uploads of the manifest.
ShowDetails ==
    /\ screen = "manifest" /\ screen' = "details"
    /\ SendNothing
    /\ UNCHANGED <<adminReturn, startup, signedIn, confirm, status, asked, stranded>>
    /\ UNCHANGED registryVars /\ UNCHANGED listVars

-----------------------------------------------------------------------------
(***************************************************************************)
(* Into the panel and back.                                                *)
(***************************************************************************)
OpenAdmin ==
    /\ screen \in InspectionPage
    /\ adminReturn' = screen /\ status' = Nobody
    /\ screen' = IF signedIn THEN "panel" ELSE "login"
    /\ SendNothing
    /\ UNCHANGED <<startup, signedIn, confirm, asked, stranded>>
    /\ UNCHANGED registryVars /\ UNCHANGED listVars

SignIn ==
    /\ screen = "login" /\ screen' = "authenticating"
    /\ Send("login", {})
    /\ status' = Nobody
    /\ UNCHANGED <<adminReturn, startup, signedIn, confirm, asked, stranded>>
    /\ UNCHANGED registryVars /\ UNCHANGED listVars

LogoutToLogin ==
    /\ screen = "panel" /\ screen' = "login" /\ signedIn' = FALSE /\ status' = Nobody
    /\ SendNothing
    /\ UNCHANGED <<adminReturn, startup, confirm, asked, stranded>>
    /\ UNCHANGED registryVars /\ UNCHANGED listVars

\* Esc on the sign-in form or on the panel's menu.
ReturnToInspection ==
    /\ screen \in {"login", "panel"}
    /\ screen' = adminReturn /\ status' = Nobody
    /\ stranded' = (stranded \/ (adminReturn = "loading" /\ Fetching = {}))
    /\ SendNothing
    /\ UNCHANGED <<adminReturn, startup, signedIn, confirm, asked>>
    /\ UNCHANGED registryVars /\ UNCHANGED listVars

\* The menu's first row.
Browse ==
    /\ screen = "panel" /\ screen' = "repositories" /\ status' = Nobody
    /\ SendNothing
    /\ UNCHANGED <<adminReturn, startup, signedIn, confirm, asked, stranded>>
    /\ UNCHANGED registryVars /\ UNCHANGED listVars

-----------------------------------------------------------------------------
(***************************************************************************)
(* The registry, in process: a command runs (Service.RepositorySummaries,  *)
(* TagDetails, DeleteManifest, DeleteRepository), and others push.         *)
(***************************************************************************)
Ran(l, found, ok) == loads' = (loads \ {l}) \union {[l EXCEPT !.ran = TRUE, !.found = found,
                                                             !.ok = ok]}

LoadRuns(l) ==
    /\ l.kind \in Loads \union {"login"} /\ ~l.ran
    /\ \/ Ran(l, CASE l.kind = "catalog" -> stored [] l.kind = "tags" -> l.repos \intersect tagged
                   [] OTHER -> {}, TRUE)
       \/ Ran(l, {}, FALSE)
    /\ UNCHANGED <<stored, tagged, gone>>

\* Every repository is attempted, and each delete stands on its own.  One of what
\* is already gone is an error: it is not found.
DeleteRuns(l) ==
    /\ l.kind \in Prompt /\ ~l.ran
    /\ \E done \in SUBSET (l.repos \intersect IF l.kind = "tag" THEN tagged ELSE stored) :
         /\ Ran(l, {}, l.repos \subseteq done)
         /\ \/ l.kind = "tag" /\ tagged' = tagged \ done /\ UNCHANGED <<stored, gone>>
            \/ /\ l.kind # "tag"
               /\ stored' = stored \ done /\ tagged' = tagged \ done /\ gone' = gone \union done

CommandRuns ==
    /\ \E l \in loads : LoadRuns(l) \/ DeleteRuns(l)
    /\ UNCHANGED <<screen, adminReturn, startup, signedIn, confirm, status, sent, asked, stranded, excused>>
    /\ UNCHANGED listVars

Push(r) ==
    /\ stored' = stored \union {r} /\ tagged' = tagged \union {r} /\ gone' = gone \ {r}
    /\ UNCHANGED <<screen, adminReturn, startup, signedIn, confirm, status, loads, sent, asked, stranded,
                   excused>>
    /\ UNCHANGED listVars

-----------------------------------------------------------------------------
(***************************************************************************)
(* The answers (Update).  None of them looks at the page that is shown.    *)
(***************************************************************************)
Taken(l) == l \in loads /\ l.ran

catalogLoaded(l) ==
    /\ l.kind = "catalog" /\ Taken(l)
    /\ loads' = loads \ {l} /\ sent' = sent
    /\ IF l.ok
       THEN /\ listed' = l.found
            /\ confirm' = [confirm EXCEPT !["repository"] = Nobody]
            /\ asked' = asked \ {confirm["repository"]}
            /\ screen' = IF l.found = {} THEN "empty" ELSE "repositories"
            /\ excused' = excused
       ELSE screen' = "error" /\ excused' = TRUE /\ UNCHANGED <<listed, confirm, asked>>
    /\ UNCHANGED <<adminReturn, startup, signedIn, filter, projects, tags, hasTag, last, status, stranded>>

tagsLoaded(l) ==
    /\ l.kind = "tags" /\ Taken(l)
    /\ loads' = loads \ {l} /\ sent' = sent
    /\ IF l.ok
       THEN /\ tags' \in l.repos /\ last' = tags' /\ hasTag' = (l.found # {})
            /\ confirm' = [confirm EXCEPT !["tag"] = Nobody]
            /\ asked' = asked \ {confirm["tag"]}
            /\ screen' = IF l.found = {} THEN "empty" ELSE "tags"
            /\ status' = Nobody /\ excused' = excused
       ELSE /\ screen' = "error" /\ excused' = TRUE
            /\ UNCHANGED <<tags, last, hasTag, confirm, asked, status>>
    /\ UNCHANGED <<adminReturn, startup, signedIn, listed, filter, projects, stranded>>

manifestLoaded(l) ==
    /\ l.kind = "manifest" /\ Taken(l)
    /\ loads' = loads \ {l} /\ sent' = sent
    /\ IF l.ok THEN screen' = "manifest" /\ last' \in l.repos /\ status' = Nobody
               ELSE screen' = "error" /\ UNCHANGED <<last, status>>
    /\ UNCHANGED <<adminReturn, startup, signedIn, listed, filter, projects, tags, hasTag, confirm, asked,
                   stranded, excused>>

\* The answer to a delete, then the list again: after a failure the prompt
\* of a tag or a repository is closed and nothing is loaded.
Settled(l, prompt) == /\ confirm' = [confirm EXCEPT ![prompt] = Nobody]
                      /\ asked' = asked \ {confirm[prompt], Target(l.kind, l.repos)}
Reload(l, kind, repos) ==
    /\ loads' = (loads \ {l}) \union {Load(kind, repos)} /\ sent' = sent
    /\ excused' = (excused \/ Fetching # {})

tagDeleted(l) ==
    /\ l.kind = "tag" /\ Taken(l) /\ Settled(l, "tag") /\ status' = Nobody
    /\ IF l.ok THEN Reload(l, "tags", l.repos)
               ELSE loads' = loads \ {l} /\ UNCHANGED <<sent, excused>>
    /\ UNCHANGED <<screen, adminReturn, startup, signedIn, stranded>> /\ UNCHANGED listVars

repositoryDeleted_KeepPrompt(l) ==  \* mutant: the prompt stays open after a failure
    /\ l.kind = "repository" /\ Taken(l) /\ status' = Nobody
    /\ IF l.ok THEN Settled(l, "repository") /\ Reload(l, "catalog", {})
               ELSE /\ loads' = loads \ {l} /\ asked' = asked \ {Target(l.kind, l.repos)}
                    /\ UNCHANGED <<sent, excused, confirm>>
    /\ UNCHANGED <<screen, adminReturn, startup, signedIn, stranded>> /\ UNCHANGED listVars
repositoryDeleted(l) ==
    /\ l.kind = "repository" /\ Taken(l) /\ Settled(l, "repository") /\ status' = Nobody
    /\ IF l.ok THEN Reload(l, "catalog", {})
               ELSE loads' = loads \ {l} /\ UNCHANGED <<sent, excused>>
    /\ UNCHANGED <<screen, adminReturn, startup, signedIn, stranded>> /\ UNCHANGED listVars

projectDeleted_ReloadIfClean(l) ==  \* mutant: a partial failure reloads nothing
    /\ l.kind = "project" /\ Taken(l) /\ Settled(l, "project") /\ status' = Nobody
    /\ IF l.ok THEN Reload(l, "catalog", {})
               ELSE loads' = loads \ {l} /\ UNCHANGED <<sent, excused>>
    /\ UNCHANGED <<screen, adminReturn, startup, signedIn, stranded>> /\ UNCHANGED listVars
projectDeleted(l) ==
    /\ l.kind = "project" /\ Taken(l) /\ Settled(l, "project") /\ status' = Nobody
    /\ Reload(l, "catalog", {})
    /\ UNCHANGED <<screen, adminReturn, startup, signedIn, stranded>> /\ UNCHANGED listVars

\* A sign-in that had to come first goes on to the catalog, when nothing is
\* listed; a later one ends on the panel.
loginCompleted_NoLoad(l) ==  \* mutant: the catalog is shown as loading and not asked for
    /\ l.kind = "login" /\ Taken(l)
    /\ signedIn' = l.ok /\ status' = Nobody
    /\ screen' = IF l.ok THEN (IF startup /\ listed = {} THEN "loading" ELSE "panel") ELSE "login"
    /\ loads' = loads \ {l} /\ UNCHANGED <<startup, sent, excused>>
    /\ UNCHANGED <<adminReturn, confirm, asked, stranded>> /\ UNCHANGED listVars
loginCompleted(l) ==
    /\ l.kind = "login" /\ Taken(l)
    /\ signedIn' = l.ok /\ status' = Nobody
    /\ IF l.ok /\ startup /\ listed = {}
       THEN screen' = "loading" /\ startup' = FALSE /\ Reload(l, "catalog", {})
       ELSE /\ screen' = IF l.ok THEN "panel" ELSE "login"
            /\ loads' = loads \ {l} /\ UNCHANGED <<startup, sent, excused>>
    /\ UNCHANGED <<adminReturn, confirm, asked, stranded>> /\ UNCHANGED listVars

AnswerArrives ==
    /\ \E l \in loads : \/ catalogLoaded(l) \/ tagsLoaded(l) \/ manifestLoaded(l) \/ tagDeleted(l)
                        \/ repositoryDeleted(l) \/ projectDeleted(l) \/ loginCompleted(l)
    /\ UNCHANGED registryVars

InspectionNext ==
    \/ ConfirmEnter \/ ConfirmEsc \/ OpenRow \/ Back \/ AskDelete \/ ShowProjects \/ ShowDetails
    \/ OpenAdmin \/ SignIn \/ LogoutToLogin \/ ReturnToInspection \/ Browse
    \/ CommandRuns \/ AnswerArrives \/ \E r \in Repo : Push(r)

InspectionSpec == InspectionInit /\ [][InspectionNext]_inspectionVars

-----------------------------------------------------------------------------
(***************************************************************************)
(* Properties.                                                             *)
(***************************************************************************)
\* updateKey says that "the operator is never confirming blind": wherever
\* Enter would delete, the status line asks about exactly that.  The code
\* breaks this: Backspace, p and Tab clear the question or leave the page
\* and keep the prompt, and coming back does not ask again.
NeverConfirmBlind ==
    Pending(screen) => status = confirm[Question(screen)]

\* A prompt that is open was asked about by d since it was last cancelled,
\* answered or dropped with its list, whatever answers arrived meanwhile:
\* no second delete follows from an old question (tagDeletedMsg,
\* repositoryDeletedMsg, projectDeletedMsg, catalogLoadedMsg).
PromptWasAsked ==
    \A k \in Prompt : confirm[k] # Nobody => confirm[k] \in asked

\* The loading page ends: a command that lists something is in flight, or
\* the operator came back to it from the panel after its answer had moved
\* the console on (returnToInspection restores the page, not the load).
LoadingEnds ==
    screen = "loading" => Fetching # {} \/ stranded

\* What this console deleted is not listed any more once nothing is in
\* flight, also when one repository of a project could not be deleted,
\* unless two loads overlapped or a reload failed.
DeletedNotListed ==
    loads = {} /\ screen = "repositories" => excused \/ listed \intersect gone = {}

=============================================================================
