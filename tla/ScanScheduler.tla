--------------------------- MODULE ScanScheduler ---------------------------
(***************************************************************************)
(* The periodic sweep: Scheduler.Run, its lease row and RunScheduledScans, *)
(* which queues the latest tag of the repositories for scanning.           *)
(*                                                                         *)
(*   internal/app/scanning/scheduler.go             Run, tick              *)
(*   internal/app/regixtry/service_scanning.go      RunScheduledScans      *)
(*   internal/infra/metadata/sqlite/store.go        scan_scheduler_state   *)
(*   cmd/regixtry/main.go                           the goroutine          *)
(*                                                                         *)
(* One process runs one scheduler, so the read and the upsert of a lease   *)
(* call are one step.  Times are kept relative to the present: the lease   *)
(* has left to run, the timer has wake to go, and the time a tick took at  *)
(* its start is lag old.  Whether a scan is queued for a repository or one *)
(* is already in flight is ScanRuns' matter.                               *)
(***************************************************************************)
EXTENDS Integers, Sequences, SequencesExt

CONSTANTS
    Repo,         \* the repositories, in the order of their names
    Owner,        \* REGISTRY_SERVICE_NAME, may differ after a restart
    NoOwner,
    Interval,     \* scan_settings.interval
    LeaseTTL,     \* max(interval / 2, 1s)
    PageLimit,    \* the 100 of RunScheduledScans' Catalog call
    RuntimeMoves, \* the trivy runtime is installed or upgraded while the process runs
    StoreFaults,  \* calls of the metadata store may fail
    MaxLag,       \* bound: time a tick takes
    MaxFaults,    \* bound: failing reads of the settings
    MaxRestarts   \* bound: restarts of the process

ASSUME ScanSchedulerAssumption ==
    /\ Repo \in Seq(STRING)
    /\ NoOwner \notin Owner
    /\ Interval \in Nat \ {0} /\ LeaseTTL \in Nat \ {0} /\ LeaseTTL <= Interval
    /\ PageLimit \in Nat \ {0} /\ MaxLag \in Nat /\ MaxFaults \in Nat /\ MaxRestarts \in Nat
    /\ RuntimeMoves \in BOOLEAN /\ StoreFaults \in BOOLEAN

VARIABLES
    pc, owner, wake, lag, todo,  \* the scheduler goroutine
    lease,                       \* scan_scheduler_state
    enabled, ready,              \* scan_settings and feature_runtime_state of trivy
    faults, restarts,
    (* What happened, for the properties only. *)
    since,    \* time since the last batch began, Interval or more as Interval
    swept     \* the repository the sweep came by last

schedulerVars == <<pc, owner, wake, lag, todo, lease, enabled, ready, faults, restarts,
                   since, swept>>
goroutine == <<pc, wake, lag, todo>>
world == <<enabled, ready>>

SchedulerInit ==
    /\ pc = "settings" /\ wake = 0 /\ lag = 0 /\ todo = <<>>
    /\ owner \in Owner
    /\ lease = [owner |-> NoOwner, left |-> 0]
    /\ enabled \in BOOLEAN
    /\ ready = (~RuntimeMoves)
    /\ faults = 0 /\ restarts = 0
    /\ since = Interval /\ swept = ""

-----------------------------------------------------------------------------
(***************************************************************************)
(* The loop of Run.  It sleeps after a tick that returned no error; any    *)
(* error makes Run return, and main.go drops it.                           *)
(***************************************************************************)
nextInterval_Lease == LeaseTTL  \* mutant: the loop wakes to renew its lease
nextInterval == Interval

Sleep == /\ pc' = "wait" /\ wake' = nextInterval /\ lag' = 0 /\ todo' = <<>>

Return == /\ pc' = "returned" /\ wake' = 0 /\ lag' = 0 /\ todo' = <<>>

Wake ==
    /\ pc = "wait" /\ wake = 0
    /\ pc' = "settings"
    /\ UNCHANGED <<owner, wake, lag, todo, lease, world, faults, restarts, since, swept>>

\* tick reads the settings; a failing read is forgiven.
GetScanSettings ==
    /\ pc = "settings"
    /\ IF enabled THEN pc' = "lease" /\ UNCHANGED <<wake, lag, todo>> ELSE Sleep
    /\ UNCHANGED <<owner, lease, world, faults, restarts, since, swept>>

GetScanSettingsFails ==
    /\ pc = "settings" /\ faults < MaxFaults
    /\ faults' = faults + 1
    /\ Sleep
    /\ UNCHANGED <<owner, lease, world, restarts, since, swept>>

\* TryAcquireScanSchedulerLease, with the time taken at the start of the tick.
TryAcquire_NoReclaim ==  \* mutant: another owner's lease never runs out
    /\ pc = "lease"
    /\ IF lease.owner \notin {NoOwner, owner}
       THEN Sleep /\ UNCHANGED lease
       ELSE /\ lease' = [owner |-> owner, left |-> LeaseTTL - lag]
            /\ pc' = "heartbeat" /\ UNCHANGED <<wake, lag, todo>>
    /\ UNCHANGED <<owner, world, faults, restarts, since, swept>>

TryAcquire ==
    /\ pc = "lease"
    /\ IF lease.owner \notin {NoOwner, owner} /\ lease.left + lag > 0
       THEN Sleep /\ UNCHANGED lease
       ELSE /\ lease' = [owner |-> owner, left |-> LeaseTTL - lag]
            /\ pc' = "heartbeat" /\ UNCHANGED <<wake, lag, todo>>
    /\ UNCHANGED <<owner, world, faults, restarts, since, swept>>

Heartbeat ==
    /\ pc = "heartbeat"
    /\ lease' = [owner |-> owner, left |-> LeaseTTL - lag]
    /\ pc' = "resolve"
    /\ UNCHANGED <<owner, wake, lag, todo, world, faults, restarts, since, swept>>

-----------------------------------------------------------------------------
(***************************************************************************)
(* RunScheduledScans.  It reads the settings again, fails unless the trivy *)
(* runtime is ready, and takes one page of the catalog.                    *)
(***************************************************************************)
Page == SubSeq(Repo, 1, IF Len(Repo) < PageLimit THEN Len(Repo) ELSE PageLimit)

StartBatch ==
    /\ pc = "resolve"
    /\ IF ~ready THEN Return /\ UNCHANGED since
       ELSE IF ~enabled THEN Sleep /\ UNCHANGED since
       ELSE pc' = "queue" /\ todo' = Page /\ since' = 0 /\ UNCHANGED <<wake, lag>>
    /\ UNCHANGED <<owner, lease, world, faults, restarts, swept>>

\* queueScheduledScan; the run it queues or finds is part of ScanRuns.
QueueScheduledScan ==
    /\ pc = "queue" /\ todo # <<>>
    /\ swept' = Head(todo)
    /\ todo' = Tail(todo)
    /\ UNCHANGED <<pc, owner, wake, lag, lease, enabled, ready, faults, restarts, since>>

EndBatch ==
    /\ pc = "queue" /\ todo = <<>>
    /\ Sleep
    /\ UNCHANGED <<owner, lease, world, faults, restarts, since, swept>>

-----------------------------------------------------------------------------
(***************************************************************************)
(* Around it: an operator changes the settings or installs the runtime,    *)
(* the process is restarted, time passes.                                  *)
(***************************************************************************)
UpdateScanSettings ==
    /\ enabled' = ~enabled
    /\ UNCHANGED <<goroutine, owner, lease, ready, faults, restarts, since, swept>>

RuntimeInstalled ==
    /\ RuntimeMoves
    /\ ready' = ~ready
    /\ UNCHANGED <<goroutine, owner, lease, enabled, faults, restarts, since, swept>>

ProcessRestart ==
    /\ restarts < MaxRestarts
    /\ restarts' = restarts + 1
    /\ pc' = "settings" /\ wake' = 0 /\ lag' = 0 /\ todo' = <<>>
    /\ owner' \in Owner
    /\ since' = Interval
    /\ UNCHANGED <<lease, enabled, ready, faults, swept>>

Dec(n, floor) == IF n > floor THEN n - 1 ELSE floor

TimePasses ==
    /\ pc \in {"wait", "returned"} \/ lag < MaxLag
    /\ wake' = Dec(wake, 0)
    /\ lag' = IF pc \in {"lease", "heartbeat", "resolve", "queue"} THEN lag + 1 ELSE 0
    /\ lease' = [lease EXCEPT !.left = Dec(@, -MaxLag)]
    /\ since' = IF since < Interval THEN since + 1 ELSE Interval
    /\ UNCHANGED <<pc, owner, todo, world, faults, restarts, swept>>

\* A store call of the tick fails, or the settings give no reachable scan target.
TickFails ==
    /\ StoreFaults
    /\ pc \in {"lease", "heartbeat", "resolve", "queue"}
    /\ Return
    /\ UNCHANGED <<owner, lease, world, faults, restarts, since, swept>>

RunLoop ==
    \/ Wake \/ GetScanSettings \/ GetScanSettingsFails \/ TryAcquire \/ Heartbeat
    \/ StartBatch \/ QueueScheduledScan \/ EndBatch

SchedulerNext ==
    \/ RunLoop \/ TickFails
    \/ UpdateScanSettings \/ RuntimeInstalled \/ ProcessRestart \/ TimePasses

SchedulerSpec == SchedulerInit /\ [][SchedulerNext]_schedulerVars

\* The goroutine runs and the clock runs.
FairSchedulerSpec ==
    SchedulerSpec /\ WF_schedulerVars(RunLoop) /\ WF_schedulerVars(TimePasses)

-----------------------------------------------------------------------------
(***************************************************************************)
(* Properties.                                                             *)
(***************************************************************************)

(* Run, TryAcquireScanSchedulerLease: as long as the loop has not ended it *)
(* comes by every repository of the first page again and again once it is  *)
(* enabled for good, whatever restarts, failing reads and leases of a      *)
(* former owner came before.                                               *)
LivingLoopSweeps ==
    <>[](enabled /\ pc # "returned") => \A r \in ToSet(Page) : []<>(swept = r)

(* Run: within one life of the process two batches never begin less than   *)
(* an interval apart, whatever happens to the lease and the settings.      *)
BatchesSpaced ==
    [][todo = <<>> /\ todo' # <<>> => since >= Interval]_schedulerVars

(* Both together: the loop sweeps neither too seldom nor too often.        *)
SweepsKeepTime == LivingLoopSweeps /\ BatchesSpaced
=============================================================================
