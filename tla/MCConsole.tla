----------------------------- MODULE MCConsole -----------------------------
(***************************************************************************)
(* The parts of Console for TLC, in one run.  They share no state: a       *)
(* behaviour is one of one of them, side says which, and the others stay   *)
(* in one of their initial states.                                         *)
(***************************************************************************)
EXTENDS Console

VARIABLE side

Sides == {"inspection", "panel", "history", "editor", "screens"}
apartVars == <<inspectionVars, panelVars, scanHistoryVars, editorVars, screenVars, side>>

ApartInit ==
    /\ side \in Sides
    /\ InspectionInit /\ PanelInit /\ HistoryInit
    /\ EditorInit /\ ScreensInit /\ kept = [p \in Part |-> IF p = "policy" THEN 1 ELSE 0]
    /\ side # "inspection" => stored = {} /\ startup
    /\ side # "editor" => overrides = [r \in Fleet |-> Missing] /\ \A a \in asks : a.kind = "list"
    /\ side # "screens" => settings = "trivy"

\* Every side but s stays.
Others(s) ==
    /\ UNCHANGED side
    /\ s # "inspection" => UNCHANGED inspectionVars
    /\ s # "panel" => UNCHANGED panelVars
    /\ s # "history" => UNCHANGED scanHistoryVars
    /\ s # "editor" => UNCHANGED editorVars
    /\ s # "screens" => UNCHANGED screenVars

\* A fourth call of the editor is made where only one repository has come into
\* play and no calls about it have overlapped before.
FourCallsAlone ==
    asksSent' = MaxAsks =>
        /\ unsure => asksSent = MaxAsks
        /\ \A g \in Fleet \ {CHOOSE f \in Fleet : TRUE} :
              /\ overrides'[g] = Missing /\ About(g)' = {}
              /\ editor' # Missing => editor'.repo # g

\* Another feature's answer comes to the first editor, before it has written,
\* and the next call is made from the page.
ForeignEarly ==
    /\ (asks' = asks /\ rows' # rows) => asksSent = 2 /\ ~missed /\ ~unsure
    /\ (missed /\ asksSent = 2 /\ asksSent' = 3) => editor = Missing

\* A third call of the panel is made where only one repository has come into
\* play, and so is a sixth one of the overlay.
ThreeCallsAlone ==
    sentBy < MaxAsked \/ \A p \in Place \ {CHOOSE q \in Place : TRUE} :
        p \notin {wanted, intent, view.repo, view.grantsIn} /\ \A c \in calls : c.on # p
SixCallsAlone ==
    fetched < MaxFetches \/ \A w \in Watched \ {CHOOSE v \in Watched : TRUE} :
        /\ scans[w] = <<>>
        /\ modal # Blank => modal.repo # w

\* Once a feature's screen need not be right any more, no key is pressed on it.
QuietAfterCrossing ==
    (settings # "channel" /\ (crossed \/ expiredOnce)) =>
        messages' # messages /\ typed' = typed

ApartNext ==
    \/ side = "inspection" /\ InspectionNext /\ Others("inspection")
    \/ side = "panel" /\ PanelNext /\ ThreeCallsAlone' /\ Others("panel")
    \/ side = "history" /\ HistoryNext /\ SixCallsAlone' /\ Others("history")
    \/ side = "editor" /\ EditorNext /\ FourCallsAlone /\ ForeignEarly /\ Others("editor")
    \/ side = "screens" /\ ScreensNext /\ QuietAfterCrossing /\ Others("screens")

ApartSpec == ApartInit /\ [][ApartNext]_apartVars

MCGlobalKeys == <<CHOOSE k \in TrustKey : TRUE>>
=============================================================================
