------------------------------- MODULE BlobGC -------------------------------
(***************************************************************************)
(* The life of a blob file: committed by an upload, referenced by the      *)
(* manifests that are published, and unlinked by the report-then-delete    *)
(* garbage collector.                                                      *)
(*                                                                         *)
(*   internal/infra/storage/fsblob/store.go   blob files and their mtime   *)
(*   internal/infra/metadata/sqlite/store.go  manifest_blobs, gc_reports   *)
(*   internal/app/regixtry/service.go         PublishManifest, Delete*     *)
(*   internal/app/regixtry/service_gc.go      ComputeGCReport,             *)
(*                                            DeleteByGCReport             *)
(*                                                                         *)
(* A request handler is one step per call that leaves the process: a       *)
(* system call on the blob tree, or one SQLite statement or transaction.   *)
(* Everything between two such calls is local and belongs to the step.     *)
(***************************************************************************)
EXTENDS Integers, FiniteSets

CONSTANTS
    Blob,              \* digests of blobs
    Manifest,          \* digests of manifests
    Refs,              \* Refs[m]: manifest.BlobReferences(), config and layers
    Repo,              \* repositories
    Client,            \* concurrent PUT manifest requests
    Proc,              \* concurrent GC admin requests
    Report,            \* report identifiers, uuid.NewString()
    GraceWindow,       \* gcGraceWindow, in clock ticks
    ReportTTL,         \* gcReportTTL, in clock ticks
    DeleteEnabled,     \* REGISTRY_DELETE_ENABLED
    GCDeleteEnabled,   \* REGISTRY_GC_DELETE_ENABLED
    Faults,            \* may the process crash and store calls fail?
    MaxTime,           \* bound: the clock stops here
    NoBlob, NoReport, NoManifest, NoRepo

ASSUME BlobGCAssumption ==
    /\ Refs \in [Manifest -> SUBSET Blob]
    /\ GraceWindow \in Nat
    /\ ReportTTL \in Nat
    /\ MaxTime \in Nat
    /\ DeleteEnabled \in BOOLEAN
    /\ GCDeleteEnabled \in BOOLEAN
    /\ Faults \in BOOLEAN
    /\ NoBlob \notin Blob
    /\ NoReport \notin Report
    /\ NoManifest \notin Manifest
    /\ NoRepo \notin Repo

VARIABLES
    now,        \* wall clock
    disk,       \* blobs with a file under blobsRoot
    mtime,      \* their modification times
    uploading,  \* blobs whose bytes are complete in an upload file
    wtime,      \* modification times of those upload files
    rows,       \* manifests rows, with their manifest_blobs children
    report,     \* gc_reports rows, with their gc_report_candidates children
    push,       \* PublishManifest requests in flight
    gc,         \* ComputeGCReport and DeleteByGCReport requests in flight
    gate,       \* gcGate.inFlight
    (* What happened, for the properties only. *)
    raced,      \* blobs whose unlink overlapped a publish that relied on them
    clobbered,  \* blobs replaced under a running GC, or by an older file
    prompt,     \* rows published within GraceWindow of their blobs' last write
    reclaimed   \* <<report, blob>>: files really unlinked

diskVars == <<disk, mtime>>
uploadVars == <<uploading, wtime>>
gcVars == <<gc, gate>>
ghosts == <<raced, clobbered, prompt, reclaimed>>
vars == <<now, diskVars, uploadVars, rows, report, push, gcVars, ghosts>>

Outcome == {"none", "deleted", "retained", "missing", "failed"}
Status == {"absent", "reported", "deleted", "pruned"}

IdlePush == [pc |-> "idle", repo |-> NoRepo, man |-> NoManifest,
             todo |-> {}, due |-> 0]
PushState == {IdlePush} \cup [pc : {"check"}, repo : Repo, man : Manifest,
                              todo : SUBSET Blob, due : Nat]

GCPc == {"idle", "gate", "prune", "list", "mark", "create", "sweep", "unlink"}
GCState == [pc : GCPc, rep : Report \cup {NoReport}, del : BOOLEAN, at : Nat,
            cand : SUBSET Blob, todo : SUBSET Blob, cur : Blob \cup {NoBlob},
            out : [Blob -> Outcome]]

ReportState == [status : Status, cand : SUBSET Blob, expires : Nat,
                out : [Blob -> Outcome]]

NoOutcome == [b \in Blob |-> "none"]
IdleGC == [pc |-> "idle", rep |-> NoReport, del |-> FALSE, at |-> 0,
           cand |-> {}, todo |-> {}, cur |-> NoBlob, out |-> NoOutcome]
NoRow == [status |-> "absent", cand |-> {}, expires |-> 0, out |-> NoOutcome]

TypeOK ==
    /\ now \in Nat
    /\ disk \subseteq Blob /\ mtime \in [Blob -> Nat]
    /\ uploading \subseteq Blob /\ wtime \in [Blob -> Nat]
    /\ rows \subseteq Repo \X Manifest
    /\ report \in [Report -> ReportState]
    /\ push \in [Client -> PushState]
    /\ gc \in [Proc -> GCState]
    /\ gate \in {0, 1}
    /\ raced \subseteq Blob /\ clobbered \subseteq Blob
    /\ prompt \subseteq Repo \X Manifest
    /\ reclaimed \subseteq Report \X Blob

Init ==
    /\ now = 0
    /\ disk = {} /\ mtime = [b \in Blob |-> 0]
    /\ uploading = {} /\ wtime = [b \in Blob |-> 0]
    /\ rows = {}
    /\ report = [r \in Report |-> NoRow]
    /\ push = [c \in Client |-> IdlePush]
    /\ gc = [p \in Proc |-> IdleGC]
    /\ gate = 0
    /\ raced = {} /\ clobbered = {} /\ prompt = {} /\ reclaimed = {}

(***************************************************************************)
(* Queries on manifest_blobs.  Both are global: no tenant and no           *)
(* repository predicate.                                                   *)
(***************************************************************************)
ListReferencedBlobDigests == UNION {Refs[row[2]] : row \in rows}
IsBlobDigestReferenced(b) == \E row \in rows : b \in Refs[row[2]]

-----------------------------------------------------------------------------
(***************************************************************************)
(* Uploads, as the collector sees them: the upload file gets its mtime     *)
(* from the last chunk, and CommitUpload renames it over the blob path,    *)
(* which keeps that mtime and replaces any file already there.             *)
(***************************************************************************)
Tick ==
    /\ now < MaxTime
    /\ now' = now + 1
    /\ UNCHANGED <<diskVars, uploadVars, rows, report, push, gcVars, ghosts>>

PutUploadChunk(b) ==
    /\ b \notin uploading
    /\ uploading' = uploading \cup {b}
    /\ wtime' = [wtime EXCEPT ![b] = now]
    /\ UNCHANGED <<now, diskVars, rows, report, push, gcVars, ghosts>>

\* A GC run that has listed b's file and may still unlink it.
Sweeping(p, b) == gc[p].pc \in {"mark", "sweep", "unlink"} /\ b \in gc[p].cand

CommitUpload(b) ==
    /\ b \in uploading
    /\ uploading' = uploading \ {b}
    /\ wtime' = [wtime EXCEPT ![b] = 0]
    /\ disk' = disk \cup {b}
    /\ mtime' = [mtime EXCEPT ![b] = wtime[b]]
    /\ clobbered' = IF \/ \E p \in Proc : Sweeping(p, b)
                       \/ b \in disk /\ wtime[b] < mtime[b]
                    THEN clobbered \cup {b} ELSE clobbered
    /\ UNCHANGED <<now, rows, report, push, gcVars, raced, prompt, reclaimed>>

-----------------------------------------------------------------------------
(***************************************************************************)
(* PublishManifest: one BlobExists per reference, in the order of          *)
(* BlobReferences(), a Conflict on the first that is missing, then one     *)
(* transaction that writes the manifests row and its manifest_blobs.       *)
(* push.due is the last instant at which the publish still is within       *)
(* GraceWindow of the last write of every blob it has seen.                *)
(***************************************************************************)
PublishBegin(c, repo, m) ==
    /\ push[c].pc = "idle"
    /\ push' = [push EXCEPT ![c] = [pc |-> "check", repo |-> repo, man |-> m,
                                    todo |-> Refs[m],
                                    due |-> MaxTime + GraceWindow]]
    /\ UNCHANGED <<now, diskVars, uploadVars, rows, report, gcVars, ghosts>>

Earlier(s, t) == IF s < t THEN s ELSE t

PublishCheckBlob(c) ==
    /\ push[c].pc = "check"
    /\ \E b \in push[c].todo :
        IF b \in disk
        THEN push' = [push EXCEPT
                        ![c].todo = @ \ {b},
                        ![c].due = Earlier(@, mtime[b] + GraceWindow)]
        ELSE push' = [push EXCEPT ![c] = IdlePush]
    /\ UNCHANGED <<now, diskVars, uploadVars, rows, report, gcVars, ghosts>>

\* BlobExists, ResolveManifest or the transaction fails, or the request is cut off.
PublishFail(c) ==
    /\ Faults
    /\ push[c].pc = "check"
    /\ push' = [push EXCEPT ![c] = IdlePush]
    /\ UNCHANGED <<now, diskVars, uploadVars, rows, report, gcVars, ghosts>>

\* Blobs between IsBlobDigestReferenced and the unlink of some GC run.
AboutToUnlink == {gc[p].cur : p \in {q \in Proc : gc[q].pc = "unlink"}}

PublishCommit(c) ==
    LET row == <<push[c].repo, push[c].man>> IN
    /\ push[c].pc = "check"
    /\ push[c].todo = {}
    /\ rows' = rows \cup {row}
    /\ push' = [push EXCEPT ![c] = IdlePush]
    /\ raced' = raced \cup (Refs[push[c].man] \cap AboutToUnlink)
    /\ prompt' = IF row \notin rows /\ now <= push[c].due
                 THEN prompt \cup {row} ELSE prompt
    /\ UNCHANGED <<now, diskVars, uploadVars, report, gcVars, clobbered, reclaimed>>

DeleteManifest(repo, m) ==
    /\ DeleteEnabled
    /\ <<repo, m>> \in rows
    /\ rows' = rows \ {<<repo, m>>}
    /\ prompt' = prompt \ {<<repo, m>>}
    /\ UNCHANGED <<now, diskVars, uploadVars, report, push, gcVars,
                   raced, clobbered, reclaimed>>

DeleteRepository(repo) ==
    /\ DeleteEnabled
    /\ \E m \in Manifest : <<repo, m>> \in rows
    /\ rows' = rows \ ({repo} \X Manifest)
    /\ prompt' = prompt \ ({repo} \X Manifest)
    /\ UNCHANGED <<now, diskVars, uploadVars, report, push, gcVars,
                   raced, clobbered, reclaimed>>

-----------------------------------------------------------------------------
(***************************************************************************)
(* gcGate, and the two handlers that share it.                             *)
(***************************************************************************)
Acquire_Unbounded == gate' = gate + 1  \* mutant: inFlight is not compared
Acquire == gate < 1 /\ gate' = gate + 1
Release == gate' = IF gate > 0 THEN gate - 1 ELSE gate

ComputeAcquire(p) ==
    /\ gc[p].pc = "idle"
    /\ Acquire
    /\ gc' = [gc EXCEPT ![p] = [IdleGC EXCEPT !.pc = "prune", !.at = now]]
    /\ UNCHANGED <<now, diskVars, uploadVars, rows, report, push, ghosts>>

PruneExpiredGCReports(p) ==
    /\ gc[p].pc = "prune"
    /\ report' = [r \in Report |->
                    IF report[r].status = "reported" /\ report[r].expires <= gc[p].at
                    THEN [NoRow EXCEPT !.status = "pruned"] ELSE report[r]]
    /\ gc' = [gc EXCEPT ![p].pc = "list"]
    /\ UNCHANGED <<now, diskVars, uploadVars, rows, push, gate, ghosts>>

(* DeleteByGCReport up to the gate: the flag, the report's state and its   *)
(* expiry are read before the request may have to wait.                    *)
DeleteBegin(p, r) ==
    /\ GCDeleteEnabled
    /\ gc[p].pc = "idle"
    /\ report[r].status = "reported"
    /\ now < report[r].expires
    /\ gc' = [gc EXCEPT ![p] = [IdleGC EXCEPT !.pc = "gate", !.rep = r, !.del = TRUE,
                                              !.at = now, !.todo = report[r].cand]]
    /\ UNCHANGED <<now, diskVars, uploadVars, rows, report, push, gate, ghosts>>

DeleteAcquire(p) ==
    /\ gc[p].pc = "gate"
    /\ Acquire
    /\ gc' = [gc EXCEPT ![p].pc = "list"]
    /\ UNCHANGED <<now, diskVars, uploadVars, rows, report, push, ghosts>>

\* ctx is done while the request waits for the gate.
DeleteGiveUp(p) ==
    /\ gc[p].pc = "gate"
    /\ gc' = [gc EXCEPT ![p] = IdleGC]
    /\ UNCHANGED <<now, diskVars, uploadVars, rows, report, push, gate, ghosts>>

(* gcCandidates, first half: ListBlobs.  The filter on mtime uses what     *)
(* ListBlobs returned and the clock the handler read before.               *)
Expired_NoGrace(b, at) == mtime[b] < at  \* mutant: cutoff is now
Expired(b, at) == mtime[b] < at - GraceWindow

ListBlobs(p) ==
    /\ gc[p].pc = "list"
    /\ gc' = [gc EXCEPT ![p].pc = "mark",
                        ![p].cand = {b \in disk : Expired(b, gc[p].at)}]
    /\ UNCHANGED <<now, diskVars, uploadVars, rows, report, push, gate, ghosts>>

(* gcCandidates, second half: whatever is marked is not a candidate.       *)
MarkReferenced(p) ==
    /\ gc[p].pc = "mark"
    /\ gc' = [gc EXCEPT ![p].pc = IF gc[p].del THEN "sweep" ELSE "create",
                        ![p].cand = @ \ ListReferencedBlobDigests]
    /\ UNCHANGED <<now, diskVars, uploadVars, rows, report, push, gate, ghosts>>

CreateGCReport(p) ==
    /\ gc[p].pc = "create"
    /\ \E r \in Report :
        /\ report[r].status = "absent"
        /\ report' = [report EXCEPT ![r] = [NoRow EXCEPT !.status = "reported",
                                              !.cand = gc[p].cand,
                                              !.expires = gc[p].at + ReportTTL]]
    /\ gc' = [gc EXCEPT ![p] = IdleGC]
    /\ Release
    /\ UNCHANGED <<now, diskVars, uploadVars, rows, push, ghosts>>

GCAbort_KeepsGate(p) ==  \* mutant: no deferred release on the error paths
    /\ Faults
    /\ gc[p].pc \in {"prune", "list", "mark", "create"}
    /\ gc' = [gc EXCEPT ![p] = IdleGC]
    /\ UNCHANGED <<now, diskVars, uploadVars, rows, report, push, gate, ghosts>>

\* A store call of gcCandidates or of the report's own reads and writes fails,
\* or the request's context is cancelled: the deferred release runs, nothing
\* is recorded, and whatever was unlinked stays unlinked.
GCAbort(p) ==
    /\ Faults
    /\ \/ gc[p].pc \in {"prune", "list", "mark", "create"}
       \/ gc[p].pc = "sweep" /\ gc[p].todo = {}
    /\ gc' = [gc EXCEPT ![p] = IdleGC]
    /\ Release
    /\ UNCHANGED <<now, diskVars, uploadVars, rows, report, push, ghosts>>

-----------------------------------------------------------------------------
(***************************************************************************)
(* The delete loop.  Candidates are taken one by one; each is retained,    *)
(* or rechecked and then unlinked.                                         *)
(***************************************************************************)
Record(p, b, o) ==
    LET g == gc[p] IN
    [gc EXCEPT ![p] = [g EXCEPT !.pc = "sweep", !.todo = g.todo \ {b}, !.cur = NoBlob,
                                !.out = [g.out EXCEPT ![b] = o]]]

SweepRetain_Silent(p) ==  \* mutant: continue without appending an outcome
    /\ gc[p].pc = "sweep"
    /\ \E b \in gc[p].todo \ gc[p].cand : gc' = Record(p, b, "none")
    /\ UNCHANGED <<now, diskVars, uploadVars, rows, report, push, gate, ghosts>>

SweepRetain(p) ==
    /\ gc[p].pc = "sweep"
    /\ \E b \in gc[p].todo \ gc[p].cand : gc' = Record(p, b, "retained")
    /\ UNCHANGED <<now, diskVars, uploadVars, rows, report, push, gate, ghosts>>

SweepRecheck_TrustSnapshot(p) ==  \* mutant: without JD-1
    /\ gc[p].pc = "sweep"
    /\ \E b \in gc[p].todo \cap gc[p].cand :
        gc' = [gc EXCEPT ![p].pc = "unlink", ![p].cur = b]
    /\ UNCHANGED <<now, diskVars, uploadVars, rows, report, push, gate, ghosts>>

SweepRecheck(p) ==
    /\ gc[p].pc = "sweep"
    /\ \E b \in gc[p].todo \cap gc[p].cand :
        \/ Faults /\ gc' = Record(p, b, "failed")
        \/ IsBlobDigestReferenced(b) /\ gc' = Record(p, b, "retained")
        \/ /\ ~IsBlobDigestReferenced(b)
           /\ gc' = [gc EXCEPT ![p].pc = "unlink", ![p].cur = b]
    /\ UNCHANGED <<now, diskVars, uploadVars, rows, report, push, gate, ghosts>>

\* A publish that has seen b's file and has not committed yet.
Relying(b) == \E c \in Client : /\ push[c].pc = "check"
                                /\ b \in Refs[push[c].man] \ push[c].todo

DeleteBlob(p) ==
    LET b == gc[p].cur IN
    /\ gc[p].pc = "unlink"
    /\ \/ /\ b \in disk
          /\ disk' = disk \ {b}
          /\ mtime' = [mtime EXCEPT ![b] = 0]
          /\ raced' = IF Relying(b) THEN raced \cup {b} ELSE raced
          /\ reclaimed' = reclaimed \cup {<<gc[p].rep, b>>}
          /\ gc' = Record(p, b, "deleted")
       \/ /\ b \notin disk
          /\ gc' = Record(p, b, "missing")
          /\ UNCHANGED <<diskVars, raced, reclaimed>>
       \/ /\ Faults
          /\ gc' = Record(p, b, "failed")
          /\ UNCHANGED <<diskVars, raced, reclaimed>>
    /\ UNCHANGED <<now, uploadVars, rows, report, push, gate, clobbered, prompt>>

MarkGCReportDeleted(p) ==
    /\ gc[p].pc = "sweep"
    /\ gc[p].todo = {}
    /\ report' = IF report[gc[p].rep].status = "reported"
                 THEN [report EXCEPT ![gc[p].rep].status = "deleted",
                                     ![gc[p].rep].out = gc[p].out]
                 ELSE report
    /\ gc' = [gc EXCEPT ![p] = IdleGC]
    /\ Release
    /\ UNCHANGED <<now, diskVars, uploadVars, rows, push, ghosts>>

(* The server process dies and is started again: files and rows survive,   *)
(* requests and the in-memory gate do not.                                 *)
Restart ==
    /\ Faults
    /\ push' = [c \in Client |-> IdlePush]
    /\ gc' = [p \in Proc |-> IdleGC]
    /\ gate' = 0
    /\ UNCHANGED <<now, diskVars, uploadVars, rows, report, ghosts>>

GCStep(p) ==
    \/ PruneExpiredGCReports(p) \/ DeleteAcquire(p) \/ DeleteGiveUp(p)
    \/ ListBlobs(p) \/ MarkReferenced(p) \/ CreateGCReport(p) \/ GCAbort(p)
    \/ SweepRetain(p) \/ SweepRecheck(p) \/ DeleteBlob(p)
    \/ MarkGCReportDeleted(p)

PushStep(c) == PublishCheckBlob(c) \/ PublishFail(c) \/ PublishCommit(c)

Next ==
    \/ Tick
    \/ \E b \in Blob : PutUploadChunk(b) \/ CommitUpload(b)
    \/ \E c \in Client, repo \in Repo, m \in Manifest : PublishBegin(c, repo, m)
    \/ \E c \in Client : PushStep(c)
    \/ \E repo \in Repo, m \in Manifest : DeleteManifest(repo, m)
    \/ \E repo \in Repo : DeleteRepository(repo)
    \/ \E p \in Proc : ComputeAcquire(p) \/ GCStep(p)
    \/ \E p \in Proc, r \in Report : DeleteBegin(p, r)
    \/ Restart

Spec == Init /\ [][Next]_vars

-----------------------------------------------------------------------------
(***************************************************************************)
(* Properties.                                                             *)
(***************************************************************************)

(* A manifest that is served has all its blob files, except where the      *)
(* unlink of the blob overlapped the publish: the publish committed        *)
(* between IsBlobDigestReferenced and os.Remove of DeleteByGCReport, or    *)
(* the file went away between BlobExists and the publish's transaction.    *)
(* No other order of uploads, publishes, deletes, reports, crashes loses   *)
(* a referenced blob.                                                      *)
NoDanglingOutsideWindow ==
    \A row \in rows : \A b \in Refs[row[2]] : b \in disk \/ b \in raced

(* The grace window does its job (gcGraceWindow): a manifest published     *)
(* within GraceWindow of the last write of its blobs keeps them, even from *)
(* a collector that runs with a clock it read long ago.  The exception is  *)
(* a blob file that was replaced after a running GC had listed it, or by   *)
(* an upload written earlier than the file it replaced.                    *)
PromptPushKeepsBlobs ==
    \A row \in prompt : \A b \in Refs[row[2]] : b \in disk \/ b \in clobbered

(* A row in state "deleted" claims an unlink only if that report's delete  *)
(* did unlink that blob, and tells the fate of every candidate.  gcGate    *)
(* makes GC runs exclusive and nothing else unlinks blobs, so the outcome  *)
(* "missing" of DeleteByGCReport is never recorded.                        *)
AuditTruthful ==
    \A r \in Report : report[r].status = "deleted" =>
        \A b \in Blob :
            /\ report[r].out[b] = "deleted" => <<r, b>> \in reclaimed
            /\ (report[r].out[b] # "none") <=> (b \in report[r].cand)
            /\ report[r].out[b] # "missing"

(* Every GC request that holds the gate lets go of it: each return path    *)
(* of both handlers runs the deferred release.                             *)
GateReleased == (gate > 0) ~> (gate = 0)

(* The documented promise of the audit trail, docs/registry.md:61: once no *)
(* delete is in flight, every unlinked blob is in a "deleted" row.         *)
AuditTrailComplete ==
    (\A p \in Proc : gc[p].pc = "idle") =>
        \A rb \in reclaimed : /\ report[rb[1]].status = "deleted"
                             /\ report[rb[1]].out[rb[2]] = "deleted"

FairSpec == Spec /\ \A p \in Proc : WF_vars(GCStep(p))

=============================================================================
