------------------------------ MODULE ScanRuns ------------------------------
(***************************************************************************)
(* Vulnerability scan runs: the scan_runs rows, the queue that refuses a   *)
(* second run for an image that is being scanned, the goroutine that       *)
(* carries out each run behind scanGate, and the pull gate that reads the  *)
(* rows.                                                                   *)
(*                                                                         *)
(*   internal/app/regixtry/service_scanning.go                             *)
(*   internal/infra/metadata/sqlite/store.go    scan_runs                  *)
(*                                                                         *)
(* A row's position in `rows` is its rowid.  An image stands for the       *)
(* (repository, digest) a run is about.                                    *)
(***************************************************************************)
EXTENDS Integers, Sequences, FiniteSets

CONSTANTS
    Image,
    Timeout,         \* settings.Timeout, in clock ticks
    MaxConcurrency,  \* settings.MaxConcurrency
    MaxCrashes,      \* bound: restarts of the server
    MaxRuns,         \* bound: rows
    MaxTime,         \* bound: the clock stops here
    NoImage

ASSUME ScanRunsAssumption ==
    /\ Timeout \in Nat
    /\ MaxConcurrency \in Nat \ {0}
    /\ MaxCrashes \in Nat
    /\ MaxRuns \in Nat
    /\ MaxTime \in Nat
    /\ NoImage \notin Image

VARIABLES
    now,        \* wall clock
    rows,       \* scan_runs, in the order of their insertion
    exec,       \* executeScanRun goroutines, one per row
    gate,       \* scanGate.inFlight
    queue,      \* the dedupAndQueueScanRun call that holds scanQueueMu
    crashes,    \* restarts so far
    faulty,     \* writes of a row may fail (for good, retries included); never changes
    orphaned    \* rows that were force-failed, for the properties only

vars == <<now, rows, exec, gate, queue, crashes, faulty, orphaned>>

Never == -1
Runs == 1 .. MaxRuns
Active == {"queued", "running"}
Terminal == {"completed", "failed"}

\* vuln: the run's counts reach the severity threshold of the policy.
Row == [img : Image, status : Active \cup Terminal, vuln : BOOLEAN,
        created : Nat, started : Nat \cup {Never}]

Exec == [pc : {"none", "gate", "start", "scan", "done"}, started : Nat \cup {Never}]
NotRunning == [pc |-> "none", started |-> Never]

Unlocked == [pc |-> "free", img |-> NoImage, row |-> 0]
Queue == {Unlocked} \cup [pc : {"insert"}, img : Image, row : {0}]
                    \cup [pc : {"orphan"}, img : Image, row : Runs, copy : Row]

\* The runs that executeScanRun holds the gate for.
Holding == {i \in Runs : exec[i].pc \in {"start", "scan"}}

(* Types; and scanGate: its counter is the number of goroutines between    *)
(* acquire and release, and never more than max_concurrency scan at once.  *)
TypeOK ==
    /\ now \in Nat
    /\ rows \in Seq(Row) /\ Len(rows) <= MaxRuns
    /\ exec \in [Runs -> Exec]
    /\ gate = Cardinality(Holding) /\ gate <= MaxConcurrency
    /\ queue \in Queue
    /\ crashes \in 0 .. MaxCrashes /\ faulty \in BOOLEAN
    /\ orphaned \subseteq DOMAIN rows

Init ==
    /\ now = 0
    /\ rows = <<>>
    /\ exec = [i \in Runs |-> NotRunning]
    /\ gate = 0
    /\ queue = Unlocked
    /\ crashes = 0 /\ faulty \in BOOLEAN
    /\ orphaned = {}

-----------------------------------------------------------------------------
(***************************************************************************)
(* Queries on scan_runs.                                                   *)
(***************************************************************************)
RunsOf(img) == {i \in DOMAIN rows : rows[i].img = img}
ActiveRuns(img) == {i \in RunsOf(img) : rows[i].status \in Active}

\* ORDER BY created_at DESC LIMIT 1: any of the newest, when they tie.
Newest(S) == {i \in S : \A j \in S : rows[j].created <= rows[i].created}
GetActiveScanRunByDigest_AnyStatus(img) == Newest(RunsOf(img))  \* mutant: no status filter
GetActiveScanRunByDigest_Running(img) ==  \* mutant: status = 'running' only
    Newest({i \in RunsOf(img) : rows[i].status = "running"})
GetActiveScanRunByDigest(img) == Newest(ActiveRuns(img))

\* ORDER BY created_at DESC, rowid DESC LIMIT 1, whatever the status.
GetLatestScanRunByDigest(img) ==
    {i \in Newest(RunsOf(img)) : \A j \in Newest(RunsOf(img)) : j <= i}

scanRunAge(row) == now - (IF row.started = Never THEN row.created ELSE row.started)

\* scanPolicyViolated on the latest run: the pull of img is refused.
PullBlocked(img) ==
    \E i \in GetLatestScanRunByDigest(img) :
        rows[i].status = "completed" /\ rows[i].vuln

-----------------------------------------------------------------------------
Tick ==
    /\ now < MaxTime
    /\ now' = now + 1
    /\ UNCHANGED <<rows, exec, gate, queue, crashes, orphaned, faulty>>

(***************************************************************************)
(* dedupAndQueueScanRun, the common tail of QueueManualScan,               *)
(* queueScheduledScan and queuePushScan.  scanQueueMu is held over its     *)
(* three store calls; executors do not take it.  A call that finds an      *)
(* active run within its timeout returns that run and changes nothing.     *)
(***************************************************************************)
QueueFind_Trusting(img) ==  \* mutant: an active row is returned whatever its age
    /\ queue = Unlocked
    /\ queue' = IF GetActiveScanRunByDigest(img) = {}
                THEN [pc |-> "insert", img |-> img, row |-> 0] ELSE queue
    /\ UNCHANGED <<now, rows, exec, gate, crashes, orphaned, faulty>>

QueueFind(img) ==
    /\ queue = Unlocked
    /\ \/ /\ GetActiveScanRunByDigest(img) = {}
          /\ queue' = [pc |-> "insert", img |-> img, row |-> 0]
       \/ \E i \in GetActiveScanRunByDigest(img) :
            IF scanRunAge(rows[i]) <= Timeout THEN queue' = queue
            ELSE queue' = [pc |-> "orphan", img |-> img, row |-> i, copy |-> rows[i]]
    /\ UNCHANGED <<now, rows, exec, gate, crashes, orphaned, faulty>>

\* The row is written back whole, as it was when it was read.
QueueOrphan ==
    /\ queue.pc = "orphan"
    /\ rows' = [rows EXCEPT ![queue.row] = [queue.copy EXCEPT !.status = "failed"]]
    /\ orphaned' = orphaned \cup {queue.row}
    /\ queue' = [pc |-> "insert", img |-> queue.img, row |-> 0]
    /\ UNCHANGED <<now, exec, gate, crashes, faulty>>

\* The caller starts the goroutine as soon as the call returns a new run.
QueueInsert ==
    /\ queue.pc = "insert"
    /\ Len(rows) < MaxRuns
    /\ rows' = Append(rows, [img |-> queue.img, status |-> "queued", vuln |-> FALSE,
                             created |-> now, started |-> Never])
    /\ exec' = [exec EXCEPT ![Len(rows) + 1].pc = "gate"]
    /\ queue' = Unlocked
    /\ UNCHANGED <<now, gate, crashes, orphaned, faulty>>

\* UpsertScanRun fails, or the bound on rows is reached.
QueueFail ==
    /\ queue # Unlocked
    /\ faulty \/ (queue.pc = "insert" /\ Len(rows) = MaxRuns)
    /\ queue' = Unlocked
    /\ UNCHANGED <<now, rows, exec, gate, crashes, orphaned, faulty>>

-----------------------------------------------------------------------------
(***************************************************************************)
(* executeScanRun.  The goroutine works on the copy of the row it was      *)
(* started with: it never reads the row again.                             *)
(***************************************************************************)
AcquireGate_Unbounded(i) ==  \* mutant: max is not compared
    /\ exec[i].pc = "gate"
    /\ gate' = gate + 1
    /\ exec' = [exec EXCEPT ![i] = [pc |-> "start", started |-> now]]
    /\ UNCHANGED <<now, rows, queue, crashes, orphaned, faulty>>

AcquireGate(i) ==
    /\ exec[i].pc = "gate"
    /\ gate < MaxConcurrency
    /\ gate' = gate + 1
    /\ exec' = [exec EXCEPT ![i] = [pc |-> "start", started |-> now]]
    /\ UNCHANGED <<now, rows, queue, crashes, orphaned, faulty>>

\* persistAsyncScanRun gives up silently: then the row stays as it was.
Persist(i, status, vuln) ==
    \/ rows' = [rows EXCEPT ![i] = [@ EXCEPT !.status = status, !.vuln = vuln,
                                             !.started = exec[i].started]]
    \/ faulty /\ rows' = rows

StartRun(i) ==
    /\ exec[i].pc = "start"
    /\ Persist(i, "running", FALSE)
    /\ exec' = [exec EXCEPT ![i].pc = "scan"]
    /\ UNCHANGED <<now, gate, queue, crashes, orphaned, faulty>>

FinishRun_KeepsGate(i) ==  \* mutant: no deferred release
    /\ exec[i].pc = "scan"
    /\ \/ Persist(i, "failed", FALSE)
       \/ \E vuln \in BOOLEAN : Persist(i, "completed", vuln)
    /\ exec' = [exec EXCEPT ![i].pc = "done"]
    /\ UNCHANGED <<now, gate, queue, crashes, orphaned, faulty>>

FinishRun_SilentFailure(i) ==  \* mutant: a scan that fails returns without a status
    /\ exec[i].pc = "scan"
    /\ \/ UNCHANGED rows
       \/ \E vuln \in BOOLEAN : Persist(i, "completed", vuln)
    /\ exec' = [exec EXCEPT ![i].pc = "done"]
    /\ gate' = IF gate > 0 THEN gate - 1 ELSE gate
    /\ UNCHANGED <<now, queue, crashes, orphaned, faulty>>

FinishRun(i) ==
    /\ exec[i].pc = "scan"
    /\ \/ Persist(i, "failed", FALSE)
       \/ \E vuln \in BOOLEAN : Persist(i, "completed", vuln)
    /\ exec' = [exec EXCEPT ![i].pc = "done"]
    /\ gate' = IF gate > 0 THEN gate - 1 ELSE gate
    /\ UNCHANGED <<now, queue, crashes, orphaned, faulty>>

(* The server process dies and starts again: the rows survive, the         *)
(* goroutines, the gate and the mutex do not, and nothing requeues a row.  *)
Restart ==
    /\ crashes < MaxCrashes
    /\ crashes' = crashes + 1
    /\ exec' = [i \in Runs |-> NotRunning]
    /\ gate' = 0
    /\ queue' = Unlocked
    /\ UNCHANGED <<now, rows, orphaned, faulty>>

ExecStep(i) == AcquireGate(i) \/ StartRun(i) \/ FinishRun(i)
QueueStep == QueueOrphan \/ QueueInsert \/ QueueFail

Next ==
    \/ Tick
    \/ \E img \in Image : QueueFind(img)
    \/ QueueStep
    \/ \E i \in Runs : ExecStep(i)
    \/ Restart

Spec == Init /\ [][Next]_vars

(* Executors are goroutines that the Go scheduler runs; Run returns because *)
(* it has a deadline.  scanQueueMu is handed over fairly (sync.Mutex has a  *)
(* starvation mode) to requests for each image, which keep coming, from the *)
(* scheduled sweep at the latest.  The clock advances.                      *)
FairSpec == /\ Spec
            /\ WF_vars(Tick)
            /\ WF_vars(QueueStep)
            /\ \A i \in Runs : WF_vars(ExecStep(i))
            /\ \A img \in Image : SF_vars(QueueFind(img))

-----------------------------------------------------------------------------
(***************************************************************************)
(* Properties.                                                             *)
(***************************************************************************)
Live(i) == exec[i].pc \in {"gate", "start", "scan"}

(* dedupAndQueueScanRun: two runs of one image are in flight at once only  *)
(* if every one of them but the last was found older than its timeout and  *)
(* force-failed.                                                           *)
DuplicateOnlyIfOverdue ==
    \A i, j \in Runs :
        (i < j /\ Live(i) /\ Live(j) /\ rows[i].img = rows[j].img) => i \in orphaned

(* A result is not lost: a completed row is overwritten only by a          *)
(* force-fail that had read the row while the run was still active.        *)
CompletedKept ==
    [][\A i \in DOMAIN rows :
         rows[i].status = "completed" =>
            \/ rows'[i] = rows[i]
            \/ queue.pc = "orphan" /\ queue.row = i /\ queue.copy.status \in Active]_vars

(* As long as the server does not crash and writes do not fail, every run  *)
(* that is queued is carried out and its row ends in a terminal state,     *)
(* however long it waited for the gate.                                    *)
EveryRunSettles ==
    [](crashes = 0 /\ ~faulty) =>
        \A i \in Runs :
            (i \in DOMAIN rows) ~>
                (exec[i].pc = "done" /\ i \in DOMAIN rows /\ rows[i].status \in Terminal)

(* A row left behind by a crash does not block its image for ever: once it *)
(* is older than the timeout the next request force-fails it, where writes *)
(* do not fail.  Said of the rows that can become older than the timeout   *)
(* before the clock's bound.                                               *)
InHorizon(j) == /\ rows[j].created + Timeout < MaxTime
                /\ rows[j].started + Timeout < MaxTime
Stuck(i) == /\ i \in DOMAIN rows /\ rows[i].status \in Active /\ ~Live(i)
            /\ \A j \in ActiveRuns(rows[i].img) : InHorizon(j)
StuckRowCleared ==
    [](~faulty) => \A i \in Runs : Stuck(i) ~> (i \in DOMAIN rows /\ rows[i].status \in Terminal)

(* Both together: no run and no row is left unfinished.                    *)
RunsSettle == EveryRunSettles /\ StuckRowCleared

(* docs/features.md:125: the pull path "checks the latest completed scan   *)
(* run for the requested digest and blocks the pull".                      *)
LatestCompletedBlocks ==
    \A img \in Image :
        LET done == {i \in RunsOf(img) : rows[i].status = "completed"} IN
        (\E i \in Newest(done) : rows[i].vuln /\ \A j \in Newest(done) : j <= i)
            => PullBlocked(img)
=============================================================================
