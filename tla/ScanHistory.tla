---------------------------- MODULE ScanHistory ----------------------------
(***************************************************************************)
(* The scan history overlay of the admin panel: the runs of a repository,  *)
(* newest first, and what the run under the cursor found.                  *)
(*                                                                         *)
(*   internal/tui/screen_scan_history.go  the overlay                      *)
(*   internal/tui/screen_scan_runs.go     one of the pages that open it    *)
(*   internal/tui/admin_scan_history.go   which answers still apply        *)
(*                                                                         *)
(* Three calls follow one another: the history, the findings of its newest *)
(* run, the secrets of that run's digest.  The operator pages, closes and  *)
(* opens the overlay while they are under way, and Enter pressed twice     *)
(* opens it twice.  Answers are matched with the overlay by what they are  *)
(* about, not by the call they answer.                                     *)
(*                                                                         *)
(* Left out: the tab and the row inside a table, both bounded where they   *)
(* are used.                                                               *)
(***************************************************************************)
EXTENDS Naturals, Sequences

CONSTANTS
    Watched,      \* repositories
    Content,      \* digests; two runs may be of one
    Blank,        \* nothing
    MaxScans,     \* bound on scan runs of a repository
    MaxFetches    \* bound on calls

VARIABLES
    scans,     \* the server's runs of each repository, newest first: [id, repo, digest]
    modal,     \* adminScanHistoryModal, Blank where the slot is empty
    fetches,   \* calls in flight; the history is read before it is delivered
    fetched,   \* calls so far
    (* What happened, for the properties only. *)
    rewound,   \* a repeated history moved the cursor off the run that is shown
    lost       \* a call of this overlay failed

scanHistoryVars == <<scans, modal, fetches, fetched, rewound, lost>>

HistoryInit ==
    /\ scans = [r \in Watched |-> <<>>] /\ modal = Blank /\ fetches = {} /\ fetched = 0
    /\ rewound = FALSE /\ lost = FALSE

-----------------------------------------------------------------------------
Fetch(kind, about) == [n |-> fetched + 1, kind |-> kind, about |-> about, runs |-> Blank]
Asks(kind, about) == fetched < MaxFetches /\ fetched' = fetched + 1
                     /\ fetches' = fetches \union {Fetch(kind, about)}

\* A scan of the server's adds a run.
RunRecorded(r, d) ==
    /\ Len(scans[r]) < MaxScans
    /\ LET run == [id |-> <<r, Len(scans[r]) + 1>>, repo |-> r, digest |-> d]
       IN  scans' = [scans EXCEPT ![r] = <<run>> \o @]
    /\ UNCHANGED <<modal, fetches, fetched, rewound, lost>>

\* Enter on a row of the page below.  Opening is a message of its own, so a
\* second Enter comes before the overlay takes the keys.
EnterOnRow(r) ==
    /\ modal = Blank /\ Asks("open", r)
    /\ UNCHANGED <<scans, modal, rewound, lost>>

openScanHistory(c) ==
    /\ c.kind = "open" /\ fetched < MaxFetches
    /\ modal' = [repo |-> c.about, runs |-> <<>>, cursor |-> 1, detail |-> Blank,
                 secrets |-> Blank, loading |-> TRUE]
    /\ fetches' = (fetches \ {c}) \union {Fetch("history", c.about)} /\ fetched' = fetched + 1
    /\ rewound' = FALSE /\ lost' = FALSE
    /\ UNCHANGED scans

\* Esc, and a change of the chosen account, empty the slot.
Unmount ==
    /\ modal # Blank /\ modal' = Blank
    /\ rewound' = FALSE /\ lost' = FALSE
    /\ UNCHANGED <<scans, fetches, fetched>>

-----------------------------------------------------------------------------
\* The server reads the history when it handles the call.
ListScanRuns(c) ==
    /\ c.kind = "history" /\ c.runs = Blank
    /\ fetches' = (fetches \ {c}) \union {[c EXCEPT !.runs = scans[c.about]]}
    /\ UNCHANGED <<scans, modal, fetched, rewound, lost>>

Current == modal.runs[modal.cursor]
adminScanHistoryDetailMatchesCursor_Any(run) ==  \* mutant: any run of the repository
    modal.runs # <<>> /\ run.repo = modal.repo
adminScanHistoryDetailMatchesCursor(run) == modal.runs # <<>> /\ run.id = Current.id
adminScanHistorySecretsMatchCursor(about) ==
    modal.runs # <<>> /\ Current.repo = about.repo /\ Current.digest = about.digest

\* The answer c of a call, and the follow-up it asks for.
Served(c, m) == modal' = m /\ fetches' = fetches \ {c} /\ UNCHANGED <<scans, fetched, lost>>
ServedThen(c, m, kind, about) ==
    /\ fetched < MaxFetches /\ fetched' = fetched + 1
    /\ modal' = m /\ fetches' = (fetches \ {c}) \union {Fetch(kind, about)}
    /\ UNCHANGED <<scans, lost>>
Dropped(c) == Served(c, modal) /\ UNCHANGED rewound

\* The cursor goes back to the newest run; what is shown stays until the
\* findings of that one are there.
ScanHistoryLoaded(c) ==
    /\ c.kind = "history" /\ c.runs # Blank
    /\ IF modal # Blank => modal.repo # c.about THEN Dropped(c)
       ELSE /\ rewound' = (\E shown \in {modal.detail, modal.secrets} \ {Blank} :
                                c.runs # <<>> => shown # c.runs[1])
            /\ IF c.runs = <<>>
               THEN Served(c, [modal EXCEPT !.runs = <<>>, !.cursor = 1, !.loading = FALSE])
               ELSE ServedThen(c, [modal EXCEPT !.runs = c.runs, !.cursor = 1], "detail", c.runs[1])

ScanRunDetailLoaded(c) ==
    /\ c.kind = "detail"
    /\ IF modal # Blank => ~adminScanHistoryDetailMatchesCursor(c.about)
       THEN Dropped(c)
       ELSE /\ rewound' = FALSE
            /\ ServedThen(c, [modal EXCEPT !.detail = c.about, !.secrets = Blank], "secrets", c.about)

SecretScanFindingsLoaded(c) ==
    /\ c.kind = "secrets"
    /\ IF modal # Blank => ~adminScanHistorySecretsMatchCursor(c.about)
       THEN Dropped(c)
       ELSE /\ Served(c, [modal EXCEPT !.secrets = c.about, !.loading = FALSE])
            /\ UNCHANGED rewound

\* The overlay still takes the answer to c.
Awaited(c) ==
    /\ modal # Blank
    /\ \/ c.kind = "history" /\ c.about = modal.repo
       \/ c.kind = "detail" /\ adminScanHistoryDetailMatchesCursor(c.about)
       \/ c.kind = "secrets" /\ adminScanHistorySecretsMatchCursor(c.about)

\* A call fails, and only the secrets' failure ends the loading.
FetchFailed(c) ==
    /\ c.kind # "open"
    /\ fetches' = fetches \ {c} /\ UNCHANGED <<scans, fetched, rewound>>
    /\ IF c.kind = "secrets" /\ Awaited(c)
       THEN modal' = [modal EXCEPT !.secrets = Blank, !.loading = FALSE] /\ lost' = lost
       ELSE modal' = modal /\ lost' = (lost \/ Awaited(c))

\* Left and Right, bounded at both ends.
pageTo_NoLoad(i) ==  \* mutant: a run is taken to be loaded
    /\ modal # Blank /\ i \in DOMAIN modal.runs
    /\ i \in {modal.cursor - 1, modal.cursor + 1}
    /\ modal' = [modal EXCEPT !.cursor = i, !.detail = Blank, !.secrets = Blank, !.loading = TRUE]
    /\ rewound' = FALSE
    /\ UNCHANGED <<scans, fetches, fetched, lost>>
pageTo(i) ==
    /\ modal # Blank /\ i \in DOMAIN modal.runs
    /\ i \in {modal.cursor - 1, modal.cursor + 1}
    /\ modal' = [modal EXCEPT !.cursor = i, !.detail = Blank, !.secrets = Blank, !.loading = TRUE]
    /\ Asks("detail", modal.runs[i])
    /\ rewound' = FALSE
    /\ UNCHANGED <<scans, lost>>

HistoryNext ==
    \/ \E r \in Watched : EnterOnRow(r) \/ \E d \in Content : RunRecorded(r, d)
    \/ \E c \in fetches : \/ openScanHistory(c) \/ ListScanRuns(c) \/ ScanHistoryLoaded(c)
                          \/ ScanRunDetailLoaded(c) \/ SecretScanFindingsLoaded(c)
                          \/ FetchFailed(c)
    \/ Unmount
    \/ \E i \in 1..MaxScans : pageTo(i)

HistorySpec == HistoryInit /\ [][HistoryNext]_scanHistoryVars

-----------------------------------------------------------------------------
(***************************************************************************)
(* Properties.                                                             *)
(***************************************************************************)

\* What is shown under a run is that run's: its findings are of that very run
\* and its secrets of that run's own digest, however the answers of runs paged
\* past, of an overlay closed meanwhile and of another repository's come in.
\* The exception is a history answered twice, which moves the cursor and leaves
\* the former run's findings under it (screen_scan_history.go, Update).
ShownIsOfCursor ==
    (modal # Blank /\ ~rewound) =>
        /\ modal.detail # Blank => modal.runs # <<>> /\ modal.detail = Current
        /\ modal.secrets # Blank => modal.runs # <<>> /\ modal.secrets.digest = Current.digest

\* While the overlay says it is loading, an answer it will take is under way:
\* the history of its repository, or the findings or secrets of the run under
\* the cursor.  The exception is a failed call, which is dropped and leaves the
\* overlay loading (screen_scan_history.go, Update).
LoadingIsUnderWay ==
    (modal # Blank /\ ~lost) => (modal.loading => \E c \in fetches : Awaited(c))
=============================================================================
