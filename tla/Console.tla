------------------------------ MODULE Console ------------------------------
(***************************************************************************)
(* The console as a whole.  Its parts share no state but the page that is  *)
(* up, so what can be said of all of them is said part by part.  A call    *)
(* runs beside the console in every part, and its answer is applied to     *)
(* whatever is up when it comes (internal/tui/model.go, Update).           *)
(***************************************************************************)
EXTENDS Inspection, AdminPanel, ScanHistory, OverrideEditor, FeatureScreens

\* A behaviour of the console is one of each of its parts.
ConsoleSpec == InspectionSpec /\ PanelSpec /\ HistorySpec /\ EditorSpec /\ ScreensSpec

\* Whatever says that it is loading, signing in, submitting or saving waits for
\* a call that is under way and whose answer will end the waiting: the list,
\* the sign-in form, the scan history, a feature's action and the update
\* channel, each with the cases in which it is stranded.  The override editor
\* is not one of the five: an answer that says the session has expired does not
\* get to it, and it goes on loading (model.go 1262).
WaitingHasACall ==
    /\ LoadingEnds /\ AuthenticatingHasLogin
    /\ LoadingIsUnderWay /\ SubmittingIsUnderWay /\ ChannelSavedOnce

\* What is shown beside a selection is of what is selected, though it was asked
\* for when something else was: an account's tokens, the right to add grants,
\* the findings under a run, the count over a key.  It is not where a load
\* failed, nor where an answer moved the selection under what is shown: one
\* about another account, a history answered twice, a list of keys that a load,
\* a save or the prefill replaced (see each part).
ShownIsOfSelection ==
    TokensOfSelected /\ AuthorizedListMatches /\ ShownIsOfCursor /\ CountIsOfKey

\* Once the answers are in, what is shown is what the registry has: the list
\* after deletes, an override in its editor and in its row, the prefilled keys
\* of a repository that has none, a feature's settings.  It is not after calls
\* about one thing that overlapped, an answer that was lost or came to a closed
\* page, and, of a row, another feature's answer (see each part).
ShownIsInRegistry ==
    DeletedNotListed /\ ShownIsStored /\ RowsAgree /\ PrefillSparesStored /\ ShownIsKept
=============================================================================
