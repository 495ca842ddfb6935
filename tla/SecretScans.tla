----------------------------- MODULE SecretScans -----------------------------
(***************************************************************************)
(* Secret scans: the leg that every run of the vulnerability scanner       *)
(* starts on the side, its rows, and the status that reads them.  The leg  *)
(* looks for an active run, waits at its gate and only then inserts its    *)
(* own row; there is no lock around the three.                             *)
(*                                                                         *)
(*   internal/app/regixtry/service_scanning.go  executeSecretScanLeg       *)
(*   internal/app/regixtry/queries.go           SecretScanStatus           *)
(*   internal/infra/metadata/sqlite/store.go    secret_scan_runs           *)
(***************************************************************************)
EXTENDS Policy

CONSTANTS
    Leg,             \* goroutines
    MaxConcurrency,  \* settings.MaxConcurrency of gitleaks
    ListLimit        \* rows the status looks at (50 in the code)

ASSUME SecretScansAssumption == MaxConcurrency \in Nat \ {0} /\ ListLimit \in Nat

VARIABLES
    srows,    \* secret_scan_runs of the repository, in the order of created_at;
              \* "lost": a run that has no row yet
    legs,     \* executeSecretScanLeg goroutines
    ask       \* the status request that is being answered

secretVars == <<srows, legs, ask>>

Image == {"image", "other"}
LegIdle == [pc |-> "idle", image |-> "image", settings |-> NotStored, seen |-> 0, row |-> 0]
AskIdle == [pc |-> "idle", enabled |-> FALSE, answer |-> ""]
ActiveStatus == {"queued", "running"}

Leave(l) == legs' = [legs EXCEPT ![l] = LegIdle]
Advance(l, pc) == legs' = [legs EXCEPT ![l].pc = pc]
Holders == {l \in Leg : legs[l].pc \in {"insert", "scan"}}

\* executeScanRun starts the leg of the run it is about to execute.
StartLeg(l, i) ==
    /\ Change
    /\ legs[l].pc = "idle"
    /\ legs' = [legs EXCEPT ![l] = [LegIdle EXCEPT !.pc = "settings", !.image = i]]
    /\ UNCHANGED <<srows, ask, signing, scanPolicy, scanner, override, adm>>

\* resolveManagedSecretScanSettings: no row, or a runtime that is not ready,
\* ends the leg.
ResolveSettings(l) ==
    /\ legs[l].pc = "settings"
    /\ \/ scanner["gitleaks"] # NotStored
          /\ legs' = [legs EXCEPT ![l].pc = "override", ![l].settings = scanner["gitleaks"]]
       \/ Leave(l)
    /\ UNCHANGED <<srows, ask>>

ApplyOverride(l) ==
    /\ legs[l].pc = "override"
    /\ IF applyRepositoryOverride(legs[l].settings, override["gitleaks"]).enabled
       THEN Advance(l, "active") ELSE Leave(l)
    /\ UNCHANGED <<srows, ask>>

\* GetActiveSecretScanRunByDigest: the newest active row of the image.
ActiveRows(i) == {r \in DOMAIN srows : srows[r].image = i /\ srows[r].status \in ActiveStatus}

\* Mutant: a run in flight does not keep the leg away.
CheckActive_Ignored(l) ==
    /\ legs[l].pc = "active"
    /\ legs' = [legs EXCEPT ![l].pc = "gate", ![l].seen = Len(srows)]
    /\ UNCHANGED <<srows, ask>>

\* A run that is younger than the timeout ends the leg, an older one is
\* failed first.
CheckActive(l) ==
    /\ legs[l].pc = "active"
    /\ LET active == ActiveRows(legs[l].image)
           newest == CHOOSE r \in active : \A s \in active : s <= r
       IN  IF active = {}
           THEN legs' = [legs EXCEPT ![l].pc = "gate", ![l].seen = Len(srows)]
           ELSE IF ~srows[newest].overdue THEN Leave(l)
           ELSE legs' = [legs EXCEPT ![l].pc = "orphan", ![l].seen = Len(srows), ![l].row = newest]
    /\ UNCHANGED <<srows, ask>>

FailOrphan(l) ==
    /\ legs[l].pc = "orphan"
    /\ srows' = [srows EXCEPT ![legs[l].row].status = "failed"]
    /\ Advance(l, "gate")
    /\ UNCHANGED ask

\* secretScanGate.acquire
AcquireGate(l) ==
    /\ legs[l].pc = "gate"
    /\ Cardinality(Holders) < MaxConcurrency
    /\ Advance(l, "insert")
    /\ UNCHANGED <<srows, ask>>

\* A store call that fails before the row is written ends the leg.
GiveUp(l) ==
    /\ legs[l].pc \in {"active", "orphan", "gate"}
    /\ Leave(l)
    /\ UNCHANGED <<srows, ask>>

\* The run starts now.  A write that fails for good loses its row; the scan
\* goes on without it.
InsertRow(l) ==
    /\ legs[l].pc = "insert"
    /\ \E status \in {"running", "lost"} :
          srows' = Append(srows, [image |-> legs[l].image, status |-> status,
                                  findings |-> FALSE, overdue |-> FALSE, seen |-> legs[l].seen])
    /\ legs' = [legs EXCEPT ![l].pc = "scan", ![l].row = Len(srows) + 1]
    /\ UNCHANGED ask

\* The scan ends: the row is written as a whole, findings included, and
\* inserted now if it was lost.  This write may be lost too.
FinishScan(l) ==
    /\ legs[l].pc = "scan"
    /\ \/ \E status \in {"completed", "failed"}, found \in BOOLEAN :
             srows' = [srows EXCEPT ![legs[l].row].status = status,
                                    ![legs[l].row].findings = found /\ status = "completed"]
       \/ UNCHANGED srows
    /\ Leave(l)
    /\ UNCHANGED ask

\* Time: a run in flight outlives the timeout, and so has every older one.
Overdue(r) ==
    /\ srows[r].status \in ActiveStatus
    /\ ~srows[r].overdue
    /\ srows' = [s \in DOMAIN srows |->
                   [srows[s] EXCEPT !.overdue = @ \/ (s <= r /\ srows[s].status \in ActiveStatus)]]
    /\ UNCHANGED <<legs, ask>>

\* The server restarts: its goroutines are gone, the rows stay.
Restart ==
    /\ legs' = [l \in Leg |-> LegIdle]
    /\ ask' = AskIdle
    /\ UNCHANGED srows

-----------------------------------------------------------------------------
(* SecretScanStatus of the image.                                          *)

AskSettings ==
    /\ ask.pc \in {"idle", "done"}
    /\ ask' = [pc |-> "override", enabled |-> LoadSettings(scanner["gitleaks"]).enabled, answer |-> ""]
    /\ UNCHANGED <<srows, legs>>

AskOverride ==
    /\ ask.pc = "override"
    /\ ask' = [ask EXCEPT !.pc = "rows",
                          !.enabled = IF override["gitleaks"] = NotStored THEN @
                                      ELSE override["gitleaks"].enabled]
    /\ UNCHANGED <<srows, legs>>

\* ListSecretScanRuns: the newest rows of the repository.
Inserted == {r \in DOMAIN srows : srows[r].status # "lost"}
Newer(r) == {s \in Inserted : s > r}
Recent == {r \in Inserted : Cardinality(Newer(r)) < ListLimit}

\* Mutant: the status looks at active rows only.
SecretScanStatus_ActiveOnly ==
    /\ ask.pc = "rows"
    /\ ask' = [ask EXCEPT !.pc = "done",
                          !.answer = IF ActiveRows("image") = {} THEN "unscanned" ELSE "in_progress"]
    /\ UNCHANGED <<srows, legs>>

SecretScanStatus ==
    /\ ask.pc = "rows"
    /\ LET mine == {r \in Recent : srows[r].image = "image"}
           last == srows[CHOOSE r \in mine : \A s \in mine : s <= r]
       IN  ask' = [ask EXCEPT !.pc = "done", !.answer =
              IF mine = {} THEN "unscanned"
              ELSE IF last.status \in ActiveStatus THEN "in_progress"
              ELSE IF last.status = "failed" THEN "failed"
              ELSE IF last.findings THEN "findings_present" ELSE "clean"]
    /\ UNCHANGED <<srows, legs>>

-----------------------------------------------------------------------------
SecretInit ==
    /\ srows = <<>>
    /\ legs = [l \in Leg |-> LegIdle]
    /\ ask = AskIdle

SecretNext ==
    \/ \E l \in Leg, i \in Image : StartLeg(l, i)
    \/ /\ \/ Restart
          \/ \E l \in Leg : \/ ResolveSettings(l) \/ ApplyOverride(l) \/ CheckActive(l)
                            \/ FailOrphan(l) \/ AcquireGate(l) \/ GiveUp(l)
                            \/ InsertRow(l) \/ FinishScan(l)
          \/ \E r \in DOMAIN srows : Overdue(r)
          \/ AskSettings \/ AskOverride \/ SecretScanStatus
       /\ UNCHANGED policyVars
    \/ ScannerSettingsNext /\ UNCHANGED secretVars

SecretSpec == PolicyInit /\ SecretInit /\ [][SecretNext]_<<policyVars, secretVars>>

-----------------------------------------------------------------------------
\* Two scans of one image are in flight at once, neither overdue, only if the
\* later leg looked for an active run before the earlier one had inserted its
\* row.  (service_scanning.go:440)
SecretDuplicateNeedsOverlap ==
    \A r, s \in DOMAIN srows :
        /\ r < s
        /\ srows[r].image = srows[s].image
        /\ srows[r].status \in ActiveStatus /\ srows[s].status \in ActiveStatus
        => srows[r].overdue \/ srows[s].seen < r

\* An image that was ever scanned is reported as unscanned only while newer
\* runs of other images fill the list.  (queries.go:556)
UnscannedOnlyWhenCrowdedOut ==
    ask.pc = "rows" /\ ask'.pc = "done" /\ ask'.answer = "unscanned" =>
        \A r \in Inserted : srows[r].image = "image" => Cardinality(Newer(r)) >= ListLimit

\* Both together: no image is scanned twice at once or reported as never
\* scanned but for the causes named above.
SecretScansExplained ==
    [][SecretDuplicateNeedsOverlap' /\ UnscannedOnlyWhenCrowdedOut]_secretVars
=============================================================================
