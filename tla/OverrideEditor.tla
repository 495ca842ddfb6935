--------------------------- MODULE OverrideEditor ---------------------------
(***************************************************************************)
(* The signing page of repository overrides, its editor, and the editor's  *)
(* list of trusted keys.                                                   *)
(*                                                                         *)
(*   internal/tui/override_editor.go        overrideEditor                 *)
(*   internal/tui/trusted_key_list.go       trustedKeyList                 *)
(*   internal/tui/screen_gitleaks_repos.go  featureOverridesScreen         *)
(*                                                                         *)
(* The editor opens at once and asks for the stored override; a repository *)
(* that has none is offered the keys of the global policy, asked for in    *)
(* turn.  Deleting a key first asks how many images it verifies.  Every    *)
(* answer is matched by repository, or by nothing at all.  Nobody else     *)
(* writes the overrides.  The pages of the other features stay mounted     *)
(* beside this one, and the answers to what they wrote come here too.      *)
(*                                                                         *)
(* An override is its list of keys: its other fields are loaded, shown and *)
(* saved along with them.  The other features' editors are this one        *)
(* without the list and the prefill.                                       *)
(***************************************************************************)
EXTENDS Naturals, Sequences

CONSTANTS
    Fleet,       \* repositories
    TrustKey,    \* public keys
    GlobalKeys,  \* the keys of the global signing policy
    Missing,     \* no override, no editor, no answer
    MaxKeys,     \* bound on the keys of a list
    MaxAsks      \* bound on calls

ASSUME GlobalKeysAssumption == GlobalKeys \in Seq(TrustKey)

VARIABLES
    overrides,  \* the server's rows: the keys, or Missing
    rows,       \* the page: which repositories have one, Missing before it is loaded
    editor,     \* overrideEditor
    asks,       \* calls in flight
    asksSent,   \* calls so far
    (* What happened, for the properties only. *)
    unsure,     \* calls about the editor's repository overlapped, or an answer was lost
    missed,     \* the page was not told of a write
    reseeded    \* the keys were replaced since the count of one was asked for

editorVars == <<overrides, rows, editor, asks, asksSent, unsure, missed, reseeded>>

\* confirm is the key the prompt's count is of, Missing without a prompt.
newTrustedKeyList(keys) ==
    [keys |-> keys, selected |-> 1, pending |-> 1, usageLoading |-> FALSE,
     confirm |-> Missing, adding |-> FALSE]

\* base is the override the server last told of and seeded says that the keys
\* are the global policy's; both are for the properties only.
newOverrideEditor(r) ==
    [repo |-> r, exists |-> FALSE, list |-> newTrustedKeyList(<<>>), loading |-> TRUE,
     pendingGlobalKeys |-> Missing, prefillApplied |-> FALSE, base |-> Missing, seeded |-> FALSE]

Request(n, kind, r, keys) ==
    [n |-> n, kind |-> kind, repo |-> r, keys |-> keys, all |-> Missing, done |-> FALSE]

\* The page has just been opened, perhaps from the signing page, whose load of
\* the policy is still under way.
EditorInit ==
    /\ overrides \in [Fleet -> {Missing} \union {<<k>> : k \in TrustKey}]
    /\ rows = Missing /\ editor = Missing /\ asksSent = 1
    /\ \E late \in SUBSET {Request(0, "policy", Missing, Missing)} :
          asks = late \union {Request(1, "list", Missing, Missing)}
    /\ unsure = FALSE /\ missed = FALSE /\ reseeded = FALSE

-----------------------------------------------------------------------------
(***************************************************************************)
(* The server.                                                             *)
(***************************************************************************)
Kinds == {"load", "save", "clear"}
Handled(c, keys) ==
    asks' = {b \in asks : b.n # c.n} \union {[c EXCEPT !.keys = keys, !.done = TRUE]}
ServerHandles(c) ==
    /\ ~c.done
    /\ \/ c.kind = "load" /\ Handled(c, overrides[c.repo]) /\ UNCHANGED overrides
       \/ c.kind = "list" /\ Handled([c EXCEPT !.all = overrides], Missing) /\ UNCHANGED overrides
       \/ c.kind = "save" /\ Handled(c, c.keys) /\ overrides' = [overrides EXCEPT ![c.repo] = c.keys]
       \/ c.kind = "clear" /\ Handled(c, Missing) /\ overrides' = [overrides EXCEPT ![c.repo] = Missing]
       \/ c.kind = "policy" /\ Handled(c, GlobalKeys) /\ UNCHANGED overrides
       \/ c.kind = "usage" /\ Handled(c, c.keys) /\ UNCHANGED overrides
    /\ UNCHANGED <<rows, editor, asksSent, unsure, missed, reseeded>>

-----------------------------------------------------------------------------
(***************************************************************************)
(* Keys.                                                                   *)
(***************************************************************************)
About(r) == {c \in asks : c.kind \in Kinds /\ c.repo = r}
Sends(kind, r, keys) ==
    /\ asksSent < MaxAsks /\ asksSent' = asksSent + 1
    /\ asks' = asks \union {Request(asksSent + 1, kind, r, keys)}
    /\ unsure' = (unsure \/ (kind \in Kinds /\ About(r) # {}))
Bounded(i, n) == IF n = 0 \/ i < 1 THEN 1 ELSE IF i > n THEN n ELSE i

\* o on a row.
OpenEditor(r) ==
    /\ editor = Missing /\ rows # Missing
    /\ editor' = newOverrideEditor(r)
    /\ asksSent < MaxAsks /\ asksSent' = asksSent + 1
    /\ asks' = asks \union {Request(asksSent + 1, "load", r, Missing)}
    /\ unsure' = (About(r) # {}) /\ reseeded' = (\E c \in asks : c.kind = "usage")
    /\ UNCHANGED <<overrides, rows, missed>>

\* r on the page.
RefreshRows ==
    /\ editor = Missing /\ Sends("list", Missing, Missing)
    /\ UNCHANGED <<overrides, rows, editor, missed, reseeded>>

\* What the list takes first: everything while a count is under way, while it
\* asks, and while a key is being pasted.
ListIdle_NoWait ==  \* mutant: keys are taken while a count is under way
    editor.list.confirm = Missing /\ ~editor.list.adding
ListIdle == ~editor.list.usageLoading /\ editor.list.confirm = Missing /\ ~editor.list.adding
ListBecomes(l) ==
    /\ editor' = [editor EXCEPT !.list = l]
    /\ UNCHANGED <<overrides, rows, asks, asksSent, unsure, missed, reseeded>>

MoveSelection(i) ==
    /\ editor # Missing /\ ListIdle /\ i \in {editor.list.selected - 1, editor.list.selected + 1}
    /\ ListBecomes([editor.list EXCEPT !.selected = Bounded(i, Len(editor.list.keys))])

AddKey ==
    /\ editor # Missing /\ ListIdle
    /\ ListBecomes([editor.list EXCEPT !.adding = TRUE])

\* Enter on a complete key, or Esc.
commitAdd(k) ==
    /\ editor # Missing /\ editor.list.adding /\ Len(editor.list.keys) < MaxKeys
    /\ ListBecomes([editor.list EXCEPT !.keys = Append(@, k), !.adding = FALSE,
                                       !.selected = Len(editor.list.keys) + 1])
CancelAdd ==
    /\ editor # Missing /\ editor.list.adding
    /\ ListBecomes([editor.list EXCEPT !.adding = FALSE])

DeleteKey ==
    /\ editor # Missing /\ ListIdle /\ editor.list.keys # <<>>
    /\ LET i == Bounded(editor.list.selected, Len(editor.list.keys)) IN
          /\ editor' = [editor EXCEPT !.list.pending = i, !.list.usageLoading = TRUE]
          /\ Sends("usage", editor.repo, <<editor.list.keys[i]>>)
    /\ reseeded' = (reseeded /\ \E c \in asks : c.kind = "usage")
    /\ UNCHANGED <<overrides, rows, missed>>

\* Enter, or Esc, on the prompt.  The index is looked at again.
RemoveAt(keys, i) == SubSeq(keys, 1, i - 1) \o SubSeq(keys, i + 1, Len(keys))
ConfirmDelete ==
    /\ editor # Missing /\ editor.list.confirm # Missing
    /\ LET keys == IF editor.list.pending \in DOMAIN editor.list.keys
                   THEN RemoveAt(editor.list.keys, editor.list.pending) ELSE editor.list.keys IN
       \/ ListBecomes([editor.list EXCEPT !.keys = keys, !.confirm = Missing,
                                          !.selected = Bounded(@, Len(keys))])
       \/ ListBecomes([editor.list EXCEPT !.confirm = Missing])

\* Enter: the whole override is written, loaded or not.
SaveOverride ==
    /\ editor # Missing /\ ListIdle /\ Sends("save", editor.repo, editor.list.keys)
    /\ UNCHANGED <<overrides, rows, editor, missed, reseeded>>
\* Enter on the clear row.
ClearOverride ==
    /\ editor # Missing /\ ListIdle /\ editor.exists /\ Sends("clear", editor.repo, Missing)
    /\ UNCHANGED <<overrides, rows, editor, missed, reseeded>>
\* Esc.
CloseEditor ==
    /\ editor # Missing /\ ListIdle /\ editor' = Missing
    /\ UNCHANGED <<overrides, rows, asks, asksSent, unsure, missed, reseeded>>

-----------------------------------------------------------------------------
(***************************************************************************)
(* Answers.                                                                *)
(***************************************************************************)
\* The keys as the server has them, or none.
applyOverride(e, keys) ==
    [e EXCEPT !.exists = keys # Missing, !.base = keys, !.seeded = FALSE,
              !.list = newTrustedKeyList(IF keys = Missing THEN <<>> ELSE keys)]

\* Both loads are in, for the first time: a repository without an override is
\* shown the global keys.  A deletion under way goes on with them.
SetKeys(l, keys) == [l EXCEPT !.keys = keys, !.selected = Bounded(@, Len(keys))]
maybeApplyGlobalPrefill_Always(e) ==  \* mutant: a stored override is prefilled too
    IF e.prefillApplied \/ e.loading \/ e.pendingGlobalKeys = Missing THEN e
    ELSE [e EXCEPT !.prefillApplied = TRUE, !.list = SetKeys(@, e.pendingGlobalKeys), !.seeded = TRUE]
maybeApplyGlobalPrefill(e) ==
    IF e.prefillApplied \/ e.loading \/ e.pendingGlobalKeys = Missing THEN e
    ELSE IF e.exists THEN [e EXCEPT !.prefillApplied = TRUE]
    ELSE [e EXCEPT !.prefillApplied = TRUE, !.list = SetKeys(@, e.pendingGlobalKeys), !.seeded = TRUE]

Concerns_Any(c) == editor # Missing  \* mutant: any repository's answer will do
Concerns(c) == editor # Missing /\ c.repo = editor.repo
Unapplied(c) == asks' = asks \ {c} /\ UNCHANGED <<overrides, rows, editor, asksSent, unsure, missed, reseeded>>

applyLoaded(c) ==
    /\ c.kind = "load" /\ c.done
    /\ IF ~Concerns(c) THEN Unapplied(c)
       ELSE LET e == maybeApplyGlobalPrefill(applyOverride([editor EXCEPT !.loading = FALSE], c.keys)) IN
            /\ editor' = e /\ reseeded' = TRUE
            /\ IF ~e.exists /\ ~e.prefillApplied
               THEN /\ asksSent < MaxAsks /\ asksSent' = asksSent + 1
                    /\ asks' = (asks \ {c}) \union {Request(asksSent + 1, "policy", Missing, Missing)}
               ELSE asks' = asks \ {c} /\ UNCHANGED asksSent
            /\ UNCHANGED <<overrides, rows, unsure, missed>>

applySavedToRow_Saves(r, keys) ==  \* mutant: a cleared override keeps its row
    IF keys = Missing THEN rows ELSE [rows EXCEPT ![r] = TRUE]
applySavedToRow(r, keys) == [rows EXCEPT ![r] = keys # Missing]

\* A save's or a clear's answer goes to the editor it is about, and to its row
\* while any editor is open; on the page alone it is not looked at.
applySaved(c) ==
    /\ c.kind \in {"save", "clear"} /\ c.done
    /\ asks' = asks \ {c}
    /\ IF editor = Missing
       THEN missed' = TRUE /\ UNCHANGED <<rows, editor, reseeded>>
       ELSE /\ rows' = applySavedToRow(c.repo, c.keys)
            /\ IF Concerns(c)
               THEN editor' = applyOverride(editor, c.keys) /\ reseeded' = TRUE
               ELSE UNCHANGED <<editor, reseeded>>
            /\ missed' = (missed \/ c.keys # overrides[c.repo])
    /\ UNCHANGED <<overrides, asksSent, unsure>>

\* The answer to a save or a clear of another feature's override, sent from that
\* feature's page: the editor compares the feature and lets it pass, the row
\* does not and is marked.  What the other feature has stored is not kept here.
ForeignSaved(r, keys) ==
    /\ editor # Missing
    /\ rows' = applySavedToRow(r, keys)
    /\ missed' = (missed \/ rows' # rows)
    /\ UNCHANGED <<overrides, editor, asks, asksSent, unsure, reseeded>>

applyGlobalPolicyLoaded(c) ==
    /\ c.kind = "policy" /\ c.done
    /\ IF editor = Missing THEN Unapplied(c)
       ELSE /\ editor' = maybeApplyGlobalPrefill([editor EXCEPT !.pendingGlobalKeys = c.keys])
            /\ asks' = asks \ {c}
            /\ reseeded' = (reseeded \/ editor'.list.keys # editor.list.keys)
            /\ UNCHANGED <<overrides, rows, asksSent, unsure, missed>>

\* Whichever list waits for a count takes this one.
applyUsageLoaded(c) ==
    /\ c.kind = "usage" /\ c.done
    /\ IF editor # Missing => ~editor.list.usageLoading THEN Unapplied(c)
       ELSE /\ editor' = [editor EXCEPT !.list.usageLoading = FALSE, !.list.confirm = c.keys[1]]
            /\ asks' = asks \ {c}
            /\ UNCHANGED <<overrides, rows, asksSent, unsure, missed, reseeded>>

\* The rows of the page.  An open editor takes every message, and drops this one.
FeatureOverridesLoaded(c) ==
    /\ c.kind = "list" /\ c.done
    /\ IF editor # Missing THEN Unapplied(c)
       ELSE /\ rows' = [r \in Fleet |-> c.all[r] # Missing]
            /\ asks' = asks \ {c}
            /\ missed' = (c.all # overrides)
            /\ UNCHANGED <<overrides, editor, asksSent, unsure, reseeded>>

\* A call fails, on the way there or on the way back.  An editor whose load
\* failed is like one of a repository without an override; one whose load found
\* the session expired is not told, and goes on loading over the next sign-in.
AskFailed(c) ==
    /\ asks' = asks \ {c}
    /\ unsure' = (unsure \/ (c.kind = "load" /\ Concerns(c)) \/ (c.kind \in {"save", "clear"} /\ c.done))
    /\ missed' = (missed \/ (c.kind \in {"save", "clear"} /\ c.done))
    /\ \/ editor' = IF c.kind = "load" /\ Concerns(c) THEN [editor EXCEPT !.loading = FALSE]
                    ELSE IF c.kind = "usage" /\ editor # Missing
                    THEN [editor EXCEPT !.list.usageLoading = FALSE] ELSE editor
       \/ c.kind = "load" /\ UNCHANGED editor
    /\ UNCHANGED <<overrides, rows, asksSent, reseeded>>

EditorNext ==
    \/ \E r \in Fleet : OpenEditor(r)
    \/ RefreshRows \/ AddKey \/ CancelAdd \/ DeleteKey \/ ConfirmDelete
    \/ SaveOverride \/ ClearOverride \/ CloseEditor
    \/ \E i \in 0..MaxKeys + 1 : MoveSelection(i)
    \/ \E k \in TrustKey : commitAdd(k)
    \/ \E r \in Fleet, keys \in {Missing, <<>>} : ForeignSaved(r, keys)
    \/ \E c \in asks : \/ ServerHandles(c) \/ applyLoaded(c) \/ applySaved(c)
                       \/ applyGlobalPolicyLoaded(c) \/ applyUsageLoaded(c)
                       \/ FeatureOverridesLoaded(c) \/ AskFailed(c)

EditorSpec == EditorInit /\ [][EditorNext]_editorVars

-----------------------------------------------------------------------------
(***************************************************************************)
(* Properties.                                                             *)
(***************************************************************************)

\* Once its answers are in, an open editor was told of the very override its
\* repository has stored: no other repository's, no former one of its own,
\* whatever was opened, closed, saved and cleared while they were under way.
\* The exceptions are two calls about the repository at once, as by Enter before
\* the load is answered, and an answer that is lost (applyLoaded, applySaved).
ShownIsStored ==
    editor # Missing =>
        ((~editor.loading /\ ~unsure /\ About(editor.repo) = {}) => editor.base = overrides[editor.repo])

\* The row of every repository says whether it has an override, once no write
\* is under way.  The exceptions, up to the next load of the rows: a write
\* answered after its editor was closed, which the page does not look at,
\* answers in the wrong order, an answer that is lost, and another feature's
\* write, whose answer marks the row while an editor is open although the
\* comment of Update says that a foreign response is a no-op
\* (featureOverridesScreen.Update, applySavedToRow).
RowsAgree ==
    rows # Missing => ((~missed /\ \A c \in asks : c.kind \notin {"save", "clear"}) =>
        \A r \in Fleet : rows[r] = (overrides[r] # Missing))

\* The global keys are offered in place of nothing only: a repository whose keys
\* are shown as prefilled has no stored override, unless a write of it is under
\* way or its answers overlapped or were lost (maybeApplyGlobalPrefill).
PrefillSparesStored ==
    editor # Missing =>
        ((editor.seeded /\ ~unsure /\ About(editor.repo) = {}) => overrides[editor.repo] = Missing)

\* The key that Enter on the prompt would remove is the key whose images were
\* counted for it, unless a load, a save or the prefill replaced the list
\* since (trustedKeyList.update, applyUsageLoaded).
CountIsOfKey ==
    editor # Missing => ((editor.list.confirm # Missing /\ ~reseeded) =>
        /\ editor.list.pending \in DOMAIN editor.list.keys
        /\ editor.list.keys[editor.list.pending] = editor.list.confirm)
=============================================================================
