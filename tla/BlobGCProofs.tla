---------------------------- MODULE BlobGCProofs ----------------------------
(***************************************************************************)
(* Theorems about BlobGC, for any number of blobs, manifests, repositories *)
(* and concurrent requests, and any grace window.                          *)
(***************************************************************************)
EXTENDS BlobGC, TLAPS

-----------------------------------------------------------------------------
(***************************************************************************)
(* Type correctness.  TypeOK is inductive together with what the delete    *)
(* loop of DeleteByGCReport knows about its own local variables.           *)
(***************************************************************************)
DeleteLoopLocals ==
    \A p \in Proc :
        /\ gc[p].pc \in {"gate", "sweep", "unlink"} => gc[p].rep \in Report
        /\ gc[p].del => gc[p].rep \in Report
        /\ gc[p].pc = "unlink" => gc[p].cur \in gc[p].todo \cap gc[p].cand

TInv == TypeOK /\ DeleteLoopLocals

(* The idle requests and the empty audit row are well typed.               *)
LEMMA IdleTypes ==
    /\ IdlePush \in PushState
    /\ IdleGC \in GCState
    /\ NoRow \in ReportState
    /\ NoOutcome \in [Blob -> Outcome]
<1>1. NoOutcome \in [Blob -> Outcome]
  BY DEF NoOutcome, Outcome
<1> QED
  BY <1>1 DEF IdlePush, PushState, IdleGC, GCState, GCPc, NoRow, ReportState, Status

\* What one step of request p does to gc: the other requests are untouched, and
\* p moves to pc x with candidates S, keeping its report, its clock and its kind.
Moved(p, x, S) ==
    /\ gc' \in [Proc -> GCState]
    /\ \A q \in Proc : q # p => gc'[q] = gc[q]
    /\ gc'[p].pc = x
    /\ gc'[p].cand = S
    /\ gc'[p].rep = gc[p].rep /\ gc'[p].del = gc[p].del /\ gc'[p].at = gc[p].at

\* Request p starts in pc x, reading the clock, with no candidates yet.
Started(p, x) ==
    /\ gc' \in [Proc -> GCState]
    /\ \A q \in Proc : q # p => gc'[q] = gc[q]
    /\ gc'[p].pc = x
    /\ gc'[p].cand = {}
    /\ gc'[p].at = now

\* Request p returns.
Returned(p) ==
    /\ gc' \in [Proc -> GCState]
    /\ gc' = [gc EXCEPT ![p] = IdleGC]

(* A process that only moves its program counter.                          *)
LEMMA MovePc ==
    ASSUME gc \in [Proc -> GCState], NEW p \in Proc, NEW x \in GCPc,
           gc' = [gc EXCEPT ![p].pc = x]
    PROVE  Moved(p, x, gc[p].cand)
BY DEF GCState, Moved

(* A process that moves and changes its candidates.                        *)
LEMMA MoveCand ==
    ASSUME gc \in [Proc -> GCState], NEW p \in Proc, NEW x \in GCPc,
           NEW S \in SUBSET Blob,
           gc' = [gc EXCEPT ![p].pc = x, ![p].cand = S]
    PROVE  Moved(p, x, S)
BY DEF GCState, Moved

\* Recording an outcome in the delete loop, and the last step before an unlink.
LEMMA MoveRecord ==
    ASSUME gc \in [Proc -> GCState], NEW p \in Proc, NEW b \in Blob,
           NEW o \in Outcome, gc' = Record(p, b, o)
    PROVE  Moved(p, "sweep", gc[p].cand)
<1> DEFINE out == [gc[p].out EXCEPT ![b] = o]
<1>1. gc[p] \in GCState
  OBVIOUS
<1>2. out \in [Blob -> Outcome]
  BY <1>1 DEF GCState
<1> HIDE DEF out
<1> DEFINE g == [gc[p] EXCEPT !.pc = "sweep", !.todo = gc[p].todo \ {b},
                              !.cur = NoBlob, !.out = out]
<1>3. /\ g \in GCState
      /\ g.pc = "sweep"  /\ g.rep = gc[p].rep /\ g.del = gc[p].del
      /\ g.at = gc[p].at /\ g.cand = gc[p].cand
  BY <1>1, <1>2 DEF GCState, GCPc
<1>4. gc' = [gc EXCEPT ![p] = g]
  BY DEF Record, out
<1> HIDE DEF g
<1> QED
  BY <1>3, <1>4 DEF Moved

(* A process that takes up the next candidate.                             *)
LEMMA MoveUnlink ==
    ASSUME gc \in [Proc -> GCState], NEW p \in Proc, NEW b \in Blob,
           gc' = [gc EXCEPT ![p].pc = "unlink", ![p].cur = b]
    PROVE  /\ Moved(p, "unlink", gc[p].cand)
           /\ gc'[p].cur = b /\ gc'[p].todo = gc[p].todo
<1>1. [gc[p] EXCEPT !.pc = "unlink", !.cur = b] \in GCState
  BY DEF GCState, GCPc
<1> QED
  BY <1>1 DEF GCState, Moved

(* A process that is done and goes idle.                                   *)
LEMMA MoveReturn ==
    ASSUME gc \in [Proc -> GCState], NEW p \in Proc, gc' = [gc EXCEPT ![p] = IdleGC]
    PROVE  Returned(p)
BY IdleTypes DEF Returned

\* What the actions do to gc, one line per action.
LEMMA GCEffects ==
    ASSUME TInv, NEW p \in Proc
    PROVE  /\ ComputeAcquire(p) => Started(p, "prune") /\ ~gc'[p].del
           /\ \A r \in Report : DeleteBegin(p, r) => Started(p, "gate") /\ gc'[p].rep = r
           /\ PruneExpiredGCReports(p) => Moved(p, "list", gc[p].cand)
           /\ DeleteAcquire(p) => Moved(p, "list", gc[p].cand)
           /\ ListBlobs(p) => Moved(p, "mark", {b \in disk : Expired(b, gc[p].at)})
           /\ MarkReferenced(p) =>
                Moved(p, IF gc[p].del THEN "sweep" ELSE "create",
                      gc[p].cand \ ListReferencedBlobDigests)
           /\ SweepRetain(p) => Moved(p, "sweep", gc[p].cand)
           /\ SweepRecheck(p) =>
                \/ Moved(p, "sweep", gc[p].cand)
                \/ /\ Moved(p, "unlink", gc[p].cand)
                   /\ gc'[p].cur \in gc'[p].todo \cap gc'[p].cand
                   /\ gc'[p].cur \in Blob
                   /\ ~IsBlobDigestReferenced(gc'[p].cur)
           /\ DeleteBlob(p) => Moved(p, "sweep", gc[p].cand)
           /\ DeleteGiveUp(p) \/ CreateGCReport(p) \/ GCAbort(p) \/ MarkGCReportDeleted(p)
                => Returned(p)
<1>0. gc \in [Proc -> GCState] /\ gc[p] \in GCState
  BY DEF TInv, TypeOK
<1>0a. now \in Nat /\ disk \subseteq Blob /\ report \in [Report -> ReportState]
  BY DEF TInv, TypeOK
<1>1. ASSUME ComputeAcquire(p) PROVE Started(p, "prune") /\ ~gc'[p].del
  <2>1. [IdleGC EXCEPT !.pc = "prune", !.at = now] \in GCState
    BY <1>0a, IdleTypes DEF GCState, GCPc
  <2> QED
    BY <1>0, <1>1, <2>1 DEF ComputeAcquire, Started, IdleGC
<1>2. ASSUME NEW r \in Report, DeleteBegin(p, r)
      PROVE  Started(p, "gate") /\ gc'[p].rep = r
  <2> DEFINE g == [IdleGC EXCEPT !.pc = "gate", !.rep = r, !.del = TRUE,
                                 !.at = now, !.todo = report[r].cand]
  <2>1. report[r].cand \in SUBSET Blob
    BY <1>0a DEF ReportState
  <2>2. g \in GCState /\ g.rep = r /\ g.pc = "gate" /\ g.cand = {} /\ g.at = now
    BY <1>0a, <2>1, IdleTypes DEF GCState, GCPc, IdleGC
  <2>3. gc' = [gc EXCEPT ![p] = g]
    BY <1>2 DEF DeleteBegin
  <2> HIDE DEF g
  <2> QED
    BY <1>0, <2>2, <2>3 DEF Started
<1>3. ASSUME PruneExpiredGCReports(p) PROVE Moved(p, "list", gc[p].cand)
  <2>1. "list" \in GCPc /\ gc' = [gc EXCEPT ![p].pc = "list"]
    BY <1>3 DEF PruneExpiredGCReports, GCPc
  <2> QED
    BY <1>0, <2>1, MovePc
<1>4. ASSUME DeleteAcquire(p) PROVE Moved(p, "list", gc[p].cand)
  <2>1. "list" \in GCPc /\ gc' = [gc EXCEPT ![p].pc = "list"]
    BY <1>4 DEF DeleteAcquire, GCPc
  <2> QED
    BY <1>0, <2>1, MovePc
<1>5. ASSUME ListBlobs(p) PROVE Moved(p, "mark", {b \in disk : Expired(b, gc[p].at)})
  <2> DEFINE S == {b \in disk : Expired(b, gc[p].at)}
  <2>1. "mark" \in GCPc /\ S \in SUBSET Blob
    BY <1>0a DEF GCPc
  <2>2. gc' = [gc EXCEPT ![p].pc = "mark", ![p].cand = S]
    BY <1>5 DEF ListBlobs
  <2> HIDE DEF S
  <2>3. Moved(p, "mark", S)
    BY <1>0, <2>1, <2>2, MoveCand
  <2> QED
    BY <2>3 DEF S
<1>6. ASSUME MarkReferenced(p)
      PROVE  Moved(p, IF gc[p].del THEN "sweep" ELSE "create",
                   gc[p].cand \ ListReferencedBlobDigests)
  <2> DEFINE x == IF gc[p].del THEN "sweep" ELSE "create"
             S == gc[p].cand \ ListReferencedBlobDigests
  <2>1. x \in GCPc /\ S \in SUBSET Blob
    BY <1>0 DEF GCPc, GCState
  <2>2. gc' = [gc EXCEPT ![p].pc = x, ![p].cand = S]
    BY <1>6 DEF MarkReferenced
  <2> HIDE DEF x, S
  <2>3. Moved(p, x, S)
    BY <1>0, <2>1, <2>2, MoveCand
  <2> QED
    BY <2>3 DEF x, S
<1>7. ASSUME SweepRetain(p) PROVE Moved(p, "sweep", gc[p].cand)
  <2>1. PICK b \in gc[p].todo \ gc[p].cand : gc' = Record(p, b, "retained")
    BY <1>7 DEF SweepRetain
  <2>2. b \in Blob /\ "retained" \in Outcome
    BY <1>0, <2>1 DEF GCState, Outcome
  <2> QED
    BY <1>0, <2>1, <2>2, MoveRecord
<1>8. ASSUME SweepRecheck(p)
      PROVE  \/ Moved(p, "sweep", gc[p].cand)
             \/ /\ Moved(p, "unlink", gc[p].cand)
                /\ gc'[p].cur \in gc'[p].todo \cap gc'[p].cand
                /\ gc'[p].cur \in Blob
                /\ ~IsBlobDigestReferenced(gc'[p].cur)
  <2>1. PICK b \in gc[p].todo \cap gc[p].cand :
           \/ gc' = Record(p, b, "failed")
           \/ gc' = Record(p, b, "retained")
           \/ /\ ~IsBlobDigestReferenced(b)
              /\ gc' = [gc EXCEPT ![p].pc = "unlink", ![p].cur = b]
    BY <1>8 DEF SweepRecheck
  <2>2. b \in Blob /\ "retained" \in Outcome /\ "failed" \in Outcome
    BY <1>0, <2>1 DEF GCState, Outcome
  <2>3. CASE gc' = Record(p, b, "failed")
    BY <1>0, <2>2, <2>3, MoveRecord
  <2>4. CASE gc' = Record(p, b, "retained")
    BY <1>0, <2>2, <2>4, MoveRecord
  <2>5. CASE /\ ~IsBlobDigestReferenced(b)
             /\ gc' = [gc EXCEPT ![p].pc = "unlink", ![p].cur = b]
    <3>1. /\ Moved(p, "unlink", gc[p].cand)
          /\ gc'[p].cur = b /\ gc'[p].todo = gc[p].todo
      BY <1>0, <2>2, <2>5, MoveUnlink
    <3>2. gc'[p].cand = gc[p].cand
      BY <3>1 DEF Moved
    <3> QED
      BY <3>1, <3>2, <2>1, <2>2, <2>5
  <2> QED
    BY <2>1, <2>3, <2>4, <2>5
<1>9. ASSUME DeleteBlob(p) PROVE Moved(p, "sweep", gc[p].cand)
  <2>1. gc[p].cur \in Blob
    BY <1>0, <1>9 DEF DeleteBlob, TInv, DeleteLoopLocals, GCState
  <2>2. PICK o \in {"deleted", "missing", "failed"} : gc' = Record(p, gc[p].cur, o)
    BY <1>9 DEF DeleteBlob
  <2>3. o \in Outcome
    BY DEF Outcome
  <2> QED
    BY <1>0, <2>1, <2>2, <2>3, MoveRecord
<1>10. ASSUME DeleteGiveUp(p) \/ CreateGCReport(p) \/ GCAbort(p) \/ MarkGCReportDeleted(p)
       PROVE  Returned(p)
  <2>1. gc' = [gc EXCEPT ![p] = IdleGC]
    BY <1>10 DEF DeleteGiveUp, CreateGCReport, GCAbort, MarkGCReportDeleted
  <2> QED
    BY <1>0, <2>1, MoveReturn
<1> QED
  BY <1>1, <1>2, <1>3, <1>4, <1>5, <1>6, <1>7, <1>8, <1>9, <1>10

\* A step of the delete loop keeps the loop's locals meaningful.
LEMMA LocalsStep ==
    ASSUME TInv, NEW p \in Proc,
           \/ Started(p, "prune") /\ ~gc'[p].del
           \/ Started(p, "gate") /\ gc'[p].rep \in Report
           \/ Returned(p)
           \/ \E S : \/ Moved(p, "list", S) \/ Moved(p, "mark", S)
                     \/ Moved(p, "create", S)
                     \/ Moved(p, "sweep", S) /\ gc[p].rep \in Report
                     \/ /\ Moved(p, "unlink", S) /\ gc[p].rep \in Report
                        /\ gc'[p].cur \in gc'[p].todo \cap gc'[p].cand
    PROVE  gc' \in [Proc -> GCState] /\ DeleteLoopLocals'
<1>1. CASE Returned(p)
  BY <1>1 DEF Returned, TInv, TypeOK, DeleteLoopLocals, IdleGC
<1>2. CASE Started(p, "prune") /\ ~gc'[p].del
  BY <1>2 DEF Started, TInv, DeleteLoopLocals
<1>3. CASE Started(p, "gate") /\ gc'[p].rep \in Report
  BY <1>3 DEF Started, TInv, DeleteLoopLocals
<1>4. ASSUME NEW S, \/ Moved(p, "list", S) \/ Moved(p, "mark", S)
                    \/ Moved(p, "create", S)
                    \/ Moved(p, "sweep", S) /\ gc[p].rep \in Report
                    \/ /\ Moved(p, "unlink", S) /\ gc[p].rep \in Report
                       /\ gc'[p].cur \in gc'[p].todo \cap gc'[p].cand
      PROVE  gc' \in [Proc -> GCState] /\ DeleteLoopLocals'
  BY <1>4 DEF Moved, TInv, DeleteLoopLocals
<1> QED
  BY <1>1, <1>2, <1>3, <1>4

(* Every step keeps the types.                                             *)
LEMMA TypeStep == TInv /\ [Next]_vars => TInv'
<1> SUFFICES ASSUME TInv, [Next]_vars
             PROVE  TInv'
  OBVIOUS
<1> USE DEF TInv
<1>1. CASE Tick
  BY <1>1 DEF Tick, diskVars, uploadVars, gcVars, ghosts, TypeOK, DeleteLoopLocals
<1>2. ASSUME NEW b \in Blob, PutUploadChunk(b)
      PROVE  TInv'
  BY <1>2 DEF PutUploadChunk, diskVars, gcVars, ghosts, TypeOK, DeleteLoopLocals
<1>3. ASSUME NEW b \in Blob, CommitUpload(b)
      PROVE  TInv'
  BY <1>3 DEF CommitUpload, gcVars, TypeOK, DeleteLoopLocals
<1>4. ASSUME NEW c \in Client, NEW repo \in Repo, NEW m \in Manifest,
             PublishBegin(c, repo, m)
      PROVE  TInv'
  BY <1>4, BlobGCAssumption
     DEF PublishBegin, PushState, diskVars, uploadVars, gcVars, ghosts,
         TypeOK, DeleteLoopLocals
<1>5. ASSUME NEW c \in Client, PublishCheckBlob(c)
      PROVE  TInv'
  <2>1. push[c] \in [pc : {"check"}, repo : Repo, man : Manifest,
                     todo : SUBSET Blob, due : Nat]
    BY <1>5 DEF PublishCheckBlob, PushState, IdlePush, TypeOK
  <2>2. push' \in [Client -> PushState]
    BY <1>5, <2>1, IdleTypes, BlobGCAssumption
       DEF PublishCheckBlob, PushState, Earlier, TypeOK
  <2> QED
    BY <1>5, <2>2
       DEF PublishCheckBlob, diskVars, uploadVars, gcVars, ghosts,
           TypeOK, DeleteLoopLocals
<1>6. ASSUME NEW c \in Client, PublishCommit(c)
      PROVE  TInv'
  <2>1. push[c] \in [pc : {"check"}, repo : Repo, man : Manifest,
                     todo : SUBSET Blob, due : Nat]
    BY <1>6 DEF PublishCommit, PushState, IdlePush, TypeOK
  <2>2. Refs[push[c].man] \subseteq Blob
    BY <2>1, BlobGCAssumption
  <2> QED
    BY <1>6, <2>1, <2>2, IdleTypes
       DEF PublishCommit, diskVars, uploadVars, gcVars, TypeOK, DeleteLoopLocals
<1>7. ASSUME NEW repo \in Repo, NEW m \in Manifest, DeleteManifest(repo, m)
      PROVE  TInv'
  BY <1>7 DEF DeleteManifest, diskVars, uploadVars, gcVars, TypeOK, DeleteLoopLocals
<1>8. ASSUME NEW repo \in Repo, DeleteRepository(repo)
      PROVE  TInv'
  BY <1>8 DEF DeleteRepository, diskVars, uploadVars, gcVars, TypeOK, DeleteLoopLocals
<1>9. ASSUME NEW p \in Proc, ComputeAcquire(p)
      PROVE  TInv'
  <2>1. gc' \in [Proc -> GCState] /\ DeleteLoopLocals'
    BY <1>9, GCEffects, LocalsStep
  <2> QED
    BY <1>9, <2>1 DEF ComputeAcquire, Acquire, diskVars, uploadVars, ghosts, TypeOK
<1>10. ASSUME NEW p \in Proc, PruneExpiredGCReports(p)
       PROVE  TInv'
  <2>1. gc' \in [Proc -> GCState] /\ DeleteLoopLocals'
    BY <1>10, GCEffects, LocalsStep
  <2>2. report' \in [Report -> ReportState]
    BY <1>10, IdleTypes DEF PruneExpiredGCReports, ReportState, Status, NoRow, TypeOK
  <2> QED
    BY <1>10, <2>1, <2>2
       DEF PruneExpiredGCReports, diskVars, uploadVars, ghosts, TypeOK
<1>11. ASSUME NEW p \in Proc, NEW r \in Report, DeleteBegin(p, r)
       PROVE  TInv'
  <2>1. gc' \in [Proc -> GCState] /\ DeleteLoopLocals'
    BY <1>11, GCEffects, LocalsStep
  <2> QED
    BY <1>11, <2>1 DEF DeleteBegin, diskVars, uploadVars, ghosts, TypeOK
<1>12. ASSUME NEW p \in Proc, DeleteAcquire(p)
       PROVE  TInv'
  <2>1. gc' \in [Proc -> GCState] /\ DeleteLoopLocals'
    BY <1>12, GCEffects, LocalsStep
  <2> QED
    BY <1>12, <2>1 DEF DeleteAcquire, Acquire, diskVars, uploadVars, ghosts, TypeOK
<1>13. ASSUME NEW p \in Proc, DeleteGiveUp(p)
       PROVE  TInv'
  <2>1. gc' \in [Proc -> GCState] /\ DeleteLoopLocals'
    BY <1>13, GCEffects, LocalsStep
  <2> QED
    BY <1>13, <2>1 DEF DeleteGiveUp, diskVars, uploadVars, ghosts, TypeOK
<1>14. ASSUME NEW p \in Proc, ListBlobs(p)
       PROVE  TInv'
  <2>1. gc' \in [Proc -> GCState] /\ DeleteLoopLocals'
    BY <1>14, GCEffects, LocalsStep
  <2> QED
    BY <1>14, <2>1 DEF ListBlobs, diskVars, uploadVars, ghosts, TypeOK
<1>15. ASSUME NEW p \in Proc, MarkReferenced(p)
       PROVE  TInv'
  <2>1. Moved(p, IF gc[p].del THEN "sweep" ELSE "create",
              gc[p].cand \ ListReferencedBlobDigests)
    BY <1>15, GCEffects
  <2>2. gc[p].del => gc[p].rep \in Report
    BY DEF DeleteLoopLocals
  <2>3. gc' \in [Proc -> GCState] /\ DeleteLoopLocals'
    BY <2>1, <2>2, LocalsStep
  <2> QED
    BY <1>15, <2>3 DEF MarkReferenced, diskVars, uploadVars, ghosts, TypeOK
<1>16. ASSUME NEW p \in Proc, CreateGCReport(p)
       PROVE  TInv'
  <2>1. PICK r \in Report :
           report' = [report EXCEPT ![r] = [NoRow EXCEPT !.status = "reported",
                                             !.cand = gc[p].cand,
                                             !.expires = gc[p].at + ReportTTL]]
    BY <1>16 DEF CreateGCReport
  <2>2. gc[p].cand \in SUBSET Blob /\ gc[p].at + ReportTTL \in Nat
    BY BlobGCAssumption DEF GCState, TypeOK
  <2>3. report' \in [Report -> ReportState]
    BY <2>1, <2>2, IdleTypes DEF ReportState, Status, TypeOK
  <2>4. gc' \in [Proc -> GCState] /\ DeleteLoopLocals'
    BY <1>16, GCEffects, LocalsStep
  <2> QED
    BY <1>16, <2>3, <2>4 DEF CreateGCReport, Release, diskVars, uploadVars, ghosts, TypeOK
<1>17. ASSUME NEW p \in Proc, GCAbort(p)
       PROVE  TInv'
  <2>1. gc' \in [Proc -> GCState] /\ DeleteLoopLocals'
    BY <1>17, GCEffects, LocalsStep
  <2> QED
    BY <1>17, <2>1 DEF GCAbort, Release, diskVars, uploadVars, ghosts, TypeOK
<1>18. ASSUME NEW p \in Proc, SweepRetain(p)
       PROVE  TInv'
  <2>1. gc[p].rep \in Report
    BY <1>18 DEF SweepRetain, DeleteLoopLocals
  <2>2. gc' \in [Proc -> GCState] /\ DeleteLoopLocals'
    BY <1>18, <2>1, GCEffects, LocalsStep
  <2> QED
    BY <1>18, <2>2 DEF SweepRetain, diskVars, uploadVars, ghosts, TypeOK
<1>19. ASSUME NEW p \in Proc, SweepRecheck(p)
       PROVE  TInv'
  <2>1. gc[p].rep \in Report
    BY <1>19 DEF SweepRecheck, DeleteLoopLocals
  <2>2. gc' \in [Proc -> GCState] /\ DeleteLoopLocals'
    BY <1>19, <2>1, GCEffects, LocalsStep
  <2> QED
    BY <1>19, <2>2 DEF SweepRecheck, diskVars, uploadVars, ghosts, TypeOK
<1>20. ASSUME NEW p \in Proc, DeleteBlob(p)
       PROVE  TInv'
  <2>1. gc[p].cur \in Blob /\ gc[p].rep \in Report
    BY <1>20 DEF DeleteBlob, DeleteLoopLocals, GCState, TypeOK
  <2>2. gc' \in [Proc -> GCState] /\ DeleteLoopLocals'
    BY <1>20, <2>1, GCEffects, LocalsStep
  <2> QED
    BY <1>20, <2>1, <2>2 DEF DeleteBlob, diskVars, uploadVars, TypeOK
<1>21. ASSUME NEW p \in Proc, MarkGCReportDeleted(p)
       PROVE  TInv'
  <2>1. gc[p].rep \in Report
    BY <1>21 DEF MarkGCReportDeleted, DeleteLoopLocals
  <2>2. gc[p].out \in [Blob -> Outcome]
    BY DEF GCState, TypeOK
  <2>3. report' \in [Report -> ReportState]
    BY <1>21, <2>1, <2>2 DEF MarkGCReportDeleted, ReportState, Status, TypeOK
  <2>4. gc' \in [Proc -> GCState] /\ DeleteLoopLocals'
    BY <1>21, GCEffects, LocalsStep
  <2> QED
    BY <1>21, <2>3, <2>4
       DEF MarkGCReportDeleted, Release, diskVars, uploadVars, ghosts, TypeOK
<1>22. CASE Restart
  BY <1>22, IdleTypes
     DEF Restart, IdleGC, diskVars, uploadVars, ghosts, TypeOK, DeleteLoopLocals
<1>23. CASE UNCHANGED vars
  BY <1>23 DEF vars, diskVars, uploadVars, gcVars, ghosts, TypeOK, DeleteLoopLocals
<1>24. ASSUME NEW c \in Client, PublishFail(c)
       PROVE  TInv'
  BY <1>24, IdleTypes
     DEF PublishFail, diskVars, uploadVars, gcVars, ghosts, TypeOK, DeleteLoopLocals
<1> QED
  BY <1>1, <1>2, <1>3, <1>4, <1>5, <1>6, <1>7, <1>8, <1>9, <1>10, <1>11, <1>12,
     <1>13, <1>14, <1>15, <1>16, <1>17, <1>18, <1>19, <1>20, <1>21, <1>22, <1>23,
     <1>24 DEF Next, GCStep, PushStep

(* The types hold in every reachable state.                                *)
LEMMA TypeInvariant == Spec => []TInv
<1>1. Init => TInv
  BY IdleTypes DEF Init, TInv, TypeOK, DeleteLoopLocals, IdleGC
<1> QED
  BY <1>1, TypeStep, PTL DEF Spec

\* Every variable keeps its type; in particular gcGate never admits a second run.
THEOREM TypeCorrect == Spec => []TypeOK
<1>1. TInv => TypeOK
  BY DEF TInv
<1> QED
  BY <1>1, TypeInvariant, PTL

-----------------------------------------------------------------------------
(***************************************************************************)
(* No referenced blob is lost outside the race window.  The property is    *)
(* inductive together with what the two handlers know between their steps: *)
(* a publish has seen the blobs it checked, and the delete loop has seen   *)
(* that the digest it is about to unlink is unreferenced.                  *)
(***************************************************************************)
CheckedBlobsExist ==
    \A c \in Client : push[c].pc = "check" =>
        \A b \in Refs[push[c].man] \ push[c].todo : b \in disk \/ b \in raced

UnlinkIsUnreferenced ==
    \A p \in Proc : gc[p].pc = "unlink" =>
        (IsBlobDigestReferenced(gc[p].cur) => gc[p].cur \in raced)

WInv == NoDanglingOutsideWindow /\ CheckedBlobsExist /\ UnlinkIsUnreferenced

\* Steps that leave rows, disk, push and raced alone and in which no request
\* enters the unlink step on a referenced blob.
LEMMA WindowFrame ==
    ASSUME TInv, WInv, UNCHANGED <<rows, disk, push, raced>>,
           \A p \in Proc : gc'[p].pc = "unlink" =>
               \/ gc[p].pc = "unlink" /\ gc'[p].cur = gc[p].cur
               \/ ~IsBlobDigestReferenced(gc'[p].cur)
    PROVE  WInv'
BY DEF WInv, NoDanglingOutsideWindow, CheckedBlobsExist, UnlinkIsUnreferenced,
       IsBlobDigestReferenced

(* Every step keeps the window invariant.                                  *)
LEMMA WindowStep == TInv /\ WInv /\ [Next]_vars => WInv'
<1> SUFFICES ASSUME TInv, WInv, [Next]_vars
             PROVE  WInv'
  OBVIOUS
<1>1. CASE Tick
  BY <1>1, WindowFrame DEF Tick, diskVars, uploadVars, gcVars, ghosts
<1>2. ASSUME NEW b \in Blob, PutUploadChunk(b)
      PROVE  WInv'
  BY <1>2, WindowFrame DEF PutUploadChunk, diskVars, gcVars, ghosts
<1>3. ASSUME NEW b \in Blob, CommitUpload(b)
      PROVE  WInv'
  BY <1>3 DEF CommitUpload, gcVars, WInv, NoDanglingOutsideWindow, CheckedBlobsExist,
              UnlinkIsUnreferenced, IsBlobDigestReferenced
<1>4. ASSUME NEW c \in Client, NEW repo \in Repo, NEW m \in Manifest,
             PublishBegin(c, repo, m)
      PROVE  WInv'
  <2>1. UNCHANGED <<rows, disk, raced, gc>>
    BY <1>4 DEF PublishBegin, diskVars, gcVars, ghosts
  <2>2. /\ \A d \in Client : d # c => push'[d] = push[d]
        /\ push'[c].man = m /\ push'[c].todo = Refs[m]
    BY <1>4 DEF PublishBegin, TInv, TypeOK
  <2> QED
    BY <2>1, <2>2 DEF WInv, NoDanglingOutsideWindow, CheckedBlobsExist,
                      UnlinkIsUnreferenced, IsBlobDigestReferenced
<1>5. ASSUME NEW c \in Client, PublishCheckBlob(c)
      PROVE  WInv'
  <2>1. UNCHANGED <<rows, disk, raced, gc>>
    BY <1>5 DEF PublishCheckBlob, diskVars, gcVars, ghosts
  <2>2. push[c] \in [pc : {"check"}, repo : Repo, man : Manifest,
                     todo : SUBSET Blob, due : Nat]
    BY <1>5 DEF PublishCheckBlob, PushState, IdlePush, TInv, TypeOK
  <2>3. CheckedBlobsExist'
    <3>1. PICK b \in push[c].todo :
             IF b \in disk
             THEN push' = [push EXCEPT
                             ![c].todo = @ \ {b},
                             ![c].due = Earlier(@, mtime[b] + GraceWindow)]
             ELSE push' = [push EXCEPT ![c] = IdlePush]
      BY <1>5 DEF PublishCheckBlob
    <3>2. \A d \in Client : d # c => push'[d] = push[d]
      BY <3>1 DEF TInv, TypeOK
    <3>3. CASE b \in disk
      <4>1. push'[c].man = push[c].man /\ push'[c].todo = push[c].todo \ {b}
        BY <2>2, <3>1, <3>3 DEF TInv, TypeOK
      <4>2. push[c].pc = "check"
        BY <2>2
      <4>3. \A x \in Refs[push[c].man] \ push[c].todo : x \in disk \/ x \in raced
        BY <4>2 DEF WInv, CheckedBlobsExist
      <4> QED
        BY <2>1, <3>2, <3>3, <4>1, <4>3 DEF WInv, CheckedBlobsExist
    <3>4. CASE b \notin disk
      BY <2>1, <3>1, <3>2, <3>4
         DEF WInv, CheckedBlobsExist, IdlePush, TInv, TypeOK
    <3> QED
      BY <3>3, <3>4
  <2> QED
    BY <2>1, <2>3 DEF WInv, NoDanglingOutsideWindow, UnlinkIsUnreferenced,
                      IsBlobDigestReferenced
<1>6. ASSUME NEW c \in Client, PublishCommit(c)
      PROVE  WInv'
  <2> DEFINE row == <<push[c].repo, push[c].man>>
  <2>1. /\ UNCHANGED <<disk, gc>>
        /\ rows' = rows \cup {row}
        /\ raced' = raced \cup (Refs[push[c].man] \cap AboutToUnlink)
        /\ push[c].pc = "check" /\ push[c].todo = {}
        /\ push' = [push EXCEPT ![c] = IdlePush]
    BY <1>6 DEF PublishCommit, diskVars, gcVars
  <2>2. row[2] = push[c].man
    OBVIOUS
  <2> HIDE DEF row
  <2>3. \A b \in Refs[push[c].man] : b \in disk \/ b \in raced
    BY <2>1 DEF WInv, CheckedBlobsExist
  <2>4. NoDanglingOutsideWindow'
    BY <2>1, <2>2, <2>3 DEF WInv, NoDanglingOutsideWindow
  <2>5. CheckedBlobsExist'
    BY <2>1 DEF WInv, CheckedBlobsExist, IdlePush, TInv, TypeOK
  <2>6. UnlinkIsUnreferenced'
    <3> SUFFICES ASSUME NEW p \in Proc, gc'[p].pc = "unlink",
                        \E r \in rows' : gc'[p].cur \in Refs[r[2]]
                 PROVE  gc'[p].cur \in raced'
      BY DEF UnlinkIsUnreferenced, IsBlobDigestReferenced
    <3>1. gc[p].pc = "unlink" /\ gc[p].cur = gc'[p].cur
      BY <2>1
    <3>2. CASE IsBlobDigestReferenced(gc[p].cur)
      BY <2>1, <3>1, <3>2 DEF WInv, UnlinkIsUnreferenced
    <3>3. CASE gc[p].cur \in Refs[push[c].man]
      BY <2>1, <3>1, <3>3 DEF AboutToUnlink
    <3> QED
      BY <2>1, <2>2, <3>1, <3>2, <3>3 DEF IsBlobDigestReferenced
  <2> QED
    BY <2>4, <2>5, <2>6 DEF WInv
<1>7. ASSUME NEW repo \in Repo, NEW m \in Manifest, DeleteManifest(repo, m)
      PROVE  WInv'
  BY <1>7 DEF DeleteManifest, diskVars, gcVars, WInv, NoDanglingOutsideWindow,
              CheckedBlobsExist, UnlinkIsUnreferenced, IsBlobDigestReferenced
<1>8. ASSUME NEW repo \in Repo, DeleteRepository(repo)
      PROVE  WInv'
  BY <1>8 DEF DeleteRepository, diskVars, gcVars, WInv, NoDanglingOutsideWindow,
              CheckedBlobsExist, UnlinkIsUnreferenced, IsBlobDigestReferenced
<1>9. ASSUME NEW p \in Proc,
             \/ ComputeAcquire(p) \/ PruneExpiredGCReports(p) \/ DeleteAcquire(p)
             \/ ListBlobs(p) \/ MarkReferenced(p) \/ SweepRetain(p)
             \/ DeleteGiveUp(p) \/ CreateGCReport(p) \/ GCAbort(p)
             \/ MarkGCReportDeleted(p)
             \/ \E r \in Report : DeleteBegin(p, r)
      PROVE  WInv'
  <2>1. UNCHANGED <<rows, disk, push, raced>>
    BY <1>9 DEF ComputeAcquire, PruneExpiredGCReports, DeleteAcquire, ListBlobs,
                MarkReferenced, SweepRetain, DeleteGiveUp, CreateGCReport, GCAbort,
                MarkGCReportDeleted, DeleteBegin, diskVars, ghosts
  <2>2. gc'[p].pc # "unlink" /\ \A q \in Proc : q # p => gc'[q] = gc[q]
    <3>1. CASE ComputeAcquire(p) \/ \E r \in Report : DeleteBegin(p, r)
      BY <3>1, GCEffects DEF Started
    <3>2. CASE PruneExpiredGCReports(p) \/ DeleteAcquire(p) \/ ListBlobs(p)
      BY <3>2, GCEffects DEF Moved
    <3>3. CASE MarkReferenced(p) \/ SweepRetain(p)
      BY <3>3, GCEffects DEF Moved
    <3>4. CASE DeleteGiveUp(p) \/ CreateGCReport(p) \/ GCAbort(p) \/ MarkGCReportDeleted(p)
      <4>1. gc' = [gc EXCEPT ![p] = IdleGC]
        BY <3>4, GCEffects DEF Returned
      <4> QED
        BY <4>1 DEF IdleGC, TInv, TypeOK
    <3> QED
      BY <1>9, <3>1, <3>2, <3>3, <3>4
  <2> QED
    BY <2>1, <2>2, WindowFrame
<1>10. ASSUME NEW p \in Proc, SweepRecheck(p)
       PROVE  WInv'
  <2>1. UNCHANGED <<rows, disk, push, raced>>
    BY <1>10 DEF SweepRecheck, diskVars, ghosts
  <2>2. /\ \A q \in Proc : q # p => gc'[q] = gc[q]
        /\ gc'[p].pc = "unlink" => ~IsBlobDigestReferenced(gc'[p].cur)
    BY <1>10, GCEffects DEF Moved
  <2> QED
    BY <2>1, <2>2, WindowFrame
<1>11. ASSUME NEW p \in Proc, DeleteBlob(p)
       PROVE  WInv'
  <2> DEFINE b == gc[p].cur
  <2>1. UNCHANGED <<rows, push>> /\ gc[p].pc = "unlink"
    BY <1>11 DEF DeleteBlob
  <2>2. gc'[p].pc = "sweep" /\ \A q \in Proc : q # p => gc'[q] = gc[q]
    BY <1>11, GCEffects DEF Moved
  <2>3. raced \subseteq raced'
    BY <1>11 DEF DeleteBlob
  <2>4. disk' = disk \/ (disk' = disk \ {b} /\ (Relying(b) => b \in raced'))
    BY <1>11 DEF DeleteBlob, diskVars
  <2>5. IsBlobDigestReferenced(b) => b \in raced
    BY <2>1 DEF WInv, UnlinkIsUnreferenced
  <2> HIDE DEF b
  <2>6. NoDanglingOutsideWindow'
    BY <2>1, <2>3, <2>4, <2>5 DEF WInv, NoDanglingOutsideWindow, IsBlobDigestReferenced
  <2>7. CheckedBlobsExist'
    BY <2>1, <2>3, <2>4 DEF WInv, CheckedBlobsExist, Relying
  <2>8. UnlinkIsUnreferenced'
    BY <2>1, <2>2, <2>3 DEF WInv, UnlinkIsUnreferenced, IsBlobDigestReferenced
  <2> QED
    BY <2>6, <2>7, <2>8 DEF WInv
<1>12. CASE Restart
  BY <1>12 DEF Restart, IdlePush, IdleGC, diskVars, ghosts, WInv, NoDanglingOutsideWindow,
               CheckedBlobsExist, UnlinkIsUnreferenced, IsBlobDigestReferenced
<1>13. CASE UNCHANGED vars
  BY <1>13, WindowFrame DEF vars, diskVars, gcVars, ghosts
<1>14. ASSUME NEW c \in Client, PublishFail(c)
       PROVE  WInv'
  <2>1. UNCHANGED <<rows, disk, raced, gc>> /\ push' = [push EXCEPT ![c] = IdlePush]
    BY <1>14 DEF PublishFail, diskVars, gcVars, ghosts
  <2>2. \A d \in Client : push'[d] = push[d] \/ push'[d].pc = "idle"
    BY <2>1 DEF IdlePush, TInv, TypeOK
  <2> QED
    BY <2>1, <2>2 DEF WInv, NoDanglingOutsideWindow, CheckedBlobsExist,
                      UnlinkIsUnreferenced, IsBlobDigestReferenced
<1> QED
  BY <1>1, <1>2, <1>3, <1>4, <1>5, <1>6, <1>7, <1>8, <1>9, <1>10, <1>11, <1>12, <1>13,
     <1>14 DEF Next, GCStep, PushStep

\* A manifest that is served has its blob files, except those whose unlink
\* overlapped the publish (IsBlobDigestReferenced to os.Remove, or BlobExists to
\* the publish's transaction): for any number of blobs, clients and GC requests.
THEOREM NoBlobLostOutsideWindow == Spec => []NoDanglingOutsideWindow
<1>1. Init => WInv
  BY DEF Init, WInv, NoDanglingOutsideWindow, CheckedBlobsExist, UnlinkIsUnreferenced,
         IdlePush, IdleGC
<1>2. WInv => NoDanglingOutsideWindow
  BY DEF WInv
<1> QED
  BY <1>1, <1>2, WindowStep, TypeInvariant, PTL DEF Spec

-----------------------------------------------------------------------------
(***************************************************************************)
(* The grace window.  A GC request works with a clock it read earlier      *)
(* (ClockRead), so a blob it listed as expired was expired then            *)
(* (SweptAreExpired) and any prompt publish of it is already in the mark   *)
(* set (SweptNotPrompt); a publish that is still prompt has seen files     *)
(* that are still there (CheckedStillFresh).                               *)
(***************************************************************************)
ClockRead == \A p \in Proc : gc[p].pc # "idle" => gc[p].at <= now

PromptPublished == prompt \subseteq rows

CheckedStillFresh ==
    \A c \in Client : push[c].pc = "check" =>
        \A b \in Refs[push[c].man] \ push[c].todo :
            \/ b \in clobbered
            \/ push[c].due < now
            \/ b \in disk /\ push[c].due <= mtime[b] + GraceWindow

SweptAreExpired ==
    \A p \in Proc, b \in Blob : Sweeping(p, b) =>
        b \in clobbered \/ b \notin disk \/ mtime[b] < gc[p].at - GraceWindow

SweptNotPrompt ==
    \A p \in Proc : gc[p].pc \in {"sweep", "unlink"} =>
        \A row \in prompt : \A b \in Refs[row[2]] \cap gc[p].cand : b \in clobbered

GInv == /\ PromptPushKeepsBlobs
        /\ ClockRead
        /\ PromptPublished
        /\ CheckedStillFresh
        /\ SweptAreExpired
        /\ SweptNotPrompt

\* Steps of request p that touch gc only, keep p's candidates and its clock, and
\* do not take p into the sweep from outside it.
LEMMA GraceFrame ==
    ASSUME TInv, GInv, NEW p \in Proc,
           UNCHANGED <<now, disk, mtime, rows, push, clobbered, prompt>>,
           \A q \in Proc : q # p => gc'[q] = gc[q],
           \/ gc'[p].pc \in {"idle", "gate", "prune", "list", "create"}
           \/ /\ gc'[p].pc \in {"sweep", "unlink"} /\ gc'[p].cand = gc[p].cand
              /\ gc[p].pc \in {"sweep", "unlink"},
           gc'[p].pc # "idle" => gc'[p].at = now \/ gc'[p].at = gc[p].at,
           gc'[p].pc # "idle" /\ gc'[p].at # now => gc[p].pc # "idle",
           gc'[p].pc \in {"sweep", "unlink"} => gc'[p].at = gc[p].at
    PROVE  GInv'
<1>1. PromptPushKeepsBlobs' /\ PromptPublished' /\ CheckedStillFresh'
  BY DEF GInv, PromptPushKeepsBlobs, PromptPublished, CheckedStillFresh
<1>2. ClockRead'
  BY DEF GInv, ClockRead, TInv, TypeOK
<1>3. SweptAreExpired'
  BY DEF GInv, SweptAreExpired, Sweeping
<1>4. SweptNotPrompt'
  BY DEF GInv, SweptNotPrompt
<1> QED
  BY <1>1, <1>2, <1>3, <1>4 DEF GInv

(* Every step keeps the grace invariant.                                   *)
LEMMA GraceStep == TInv /\ GInv /\ [Next]_vars => GInv'
<1> SUFFICES ASSUME TInv, GInv, [Next]_vars
             PROVE  GInv'
  OBVIOUS
<1>0. /\ now \in Nat /\ disk \subseteq Blob /\ mtime \in [Blob -> Nat]
      /\ wtime \in [Blob -> Nat] /\ gc \in [Proc -> GCState]
      /\ push \in [Client -> PushState] /\ GraceWindow \in Nat /\ MaxTime \in Nat
      /\ \A p \in Proc : gc[p].at \in Nat /\ gc[p].cand \subseteq Blob
  BY BlobGCAssumption DEF TInv, TypeOK, GCState
<1>0a. \A c \in Client : push[c].pc = "check" =>
         /\ push[c] \in [pc : {"check"}, repo : Repo, man : Manifest,
                         todo : SUBSET Blob, due : Nat]
         /\ push[c].due \in Nat
         /\ Refs[push[c].man] \subseteq Blob
  BY <1>0, BlobGCAssumption DEF PushState, IdlePush
<1>1. CASE Tick
  <2>1. now' = now + 1 /\ UNCHANGED <<disk, mtime, rows, push, gc, clobbered, prompt>>
    BY <1>1 DEF Tick, diskVars, gcVars, ghosts
  <2>2. PromptPushKeepsBlobs' /\ PromptPublished' /\ SweptAreExpired' /\ SweptNotPrompt'
    BY <2>1 DEF GInv, PromptPushKeepsBlobs, PromptPublished, SweptAreExpired, Sweeping,
                SweptNotPrompt
  <2>3. ClockRead'
    BY <2>1, <1>0 DEF GInv, ClockRead
  <2>4. CheckedStillFresh'
    BY <2>1, <1>0, <1>0a DEF GInv, CheckedStillFresh
  <2> QED
    BY <2>2, <2>3, <2>4 DEF GInv
<1>2. ASSUME NEW b \in Blob, PutUploadChunk(b)
      PROVE  GInv'
  BY <1>2 DEF PutUploadChunk, diskVars, gcVars, ghosts, GInv, PromptPushKeepsBlobs,
              ClockRead, PromptPublished, CheckedStillFresh, SweptAreExpired, Sweeping,
              SweptNotPrompt
<1>3. ASSUME NEW b \in Blob, CommitUpload(b)
      PROVE  GInv'
  <2>1. /\ disk' = disk \cup {b} /\ mtime' = [mtime EXCEPT ![b] = wtime[b]]
        /\ clobbered \subseteq clobbered'
        /\ (\E p \in Proc : Sweeping(p, b)) => b \in clobbered'
        /\ b \in disk /\ wtime[b] < mtime[b] => b \in clobbered'
        /\ UNCHANGED <<now, rows, push, gc, prompt>>
    BY <1>3 DEF CommitUpload, gcVars
  <2>2. PromptPushKeepsBlobs' /\ PromptPublished' /\ ClockRead' /\ SweptNotPrompt'
    BY <2>1 DEF GInv, PromptPushKeepsBlobs, PromptPublished, ClockRead, SweptNotPrompt
  <2>3. SweptAreExpired'
    <3> SUFFICES ASSUME NEW p \in Proc, NEW x \in Blob, Sweeping(p, x)',
                        x \notin clobbered', x \in disk'
                 PROVE  mtime'[x] < gc'[p].at - GraceWindow
      BY DEF SweptAreExpired
    <3>1. Sweeping(p, x) /\ x # b
      BY <2>1 DEF Sweeping
    <3>2. mtime'[x] = mtime[x] /\ x \in disk /\ x \notin clobbered
      BY <2>1, <3>1, <1>0
    <3> QED
      BY <2>1, <3>1, <3>2 DEF GInv, SweptAreExpired
  <2>4. CheckedStillFresh'
    <3> SUFFICES ASSUME NEW c \in Client, push[c].pc = "check",
                        NEW x \in Refs[push[c].man] \ push[c].todo,
                        x \notin clobbered', ~(push[c].due < now)
                 PROVE  x \in disk' /\ push[c].due <= mtime'[x] + GraceWindow
      BY <2>1 DEF CheckedStillFresh
    <3>1. x \in Blob /\ x \in disk /\ push[c].due <= mtime[x] + GraceWindow
      BY <2>1, <1>0a DEF GInv, CheckedStillFresh
    <3>2. mtime'[x] >= mtime[x]
      BY <2>1, <3>1, <1>0
    <3>3. mtime'[x] \in Nat
      BY <2>1, <3>1, <1>0
    <3> QED
      BY <2>1, <3>1, <3>2, <3>3, <1>0, <1>0a
  <2> QED
    BY <2>2, <2>3, <2>4 DEF GInv
<1>4. ASSUME NEW c \in Client, NEW repo \in Repo, NEW m \in Manifest,
             PublishBegin(c, repo, m)
      PROVE  GInv'
  <2>1. UNCHANGED <<now, rows, disk, mtime, gc, clobbered, prompt>>
    BY <1>4 DEF PublishBegin, diskVars, gcVars, ghosts
  <2>2. /\ \A d \in Client : d # c => push'[d] = push[d]
        /\ push'[c].man = m /\ push'[c].todo = Refs[m]
    BY <1>0, <1>4 DEF PublishBegin
  <2> QED
    BY <2>1, <2>2 DEF GInv, PromptPushKeepsBlobs, ClockRead, PromptPublished,
                      CheckedStillFresh, SweptAreExpired, Sweeping, SweptNotPrompt
<1>5. ASSUME NEW c \in Client, PublishCheckBlob(c)
      PROVE  GInv'
  <2>1. UNCHANGED <<now, rows, disk, mtime, gc, clobbered, prompt>>
    BY <1>5 DEF PublishCheckBlob, diskVars, gcVars, ghosts
  <2>2. push[c].pc = "check"
    BY <1>5 DEF PublishCheckBlob
  <2>3. PICK b \in push[c].todo :
             IF b \in disk
             THEN push' = [push EXCEPT
                             ![c].todo = @ \ {b},
                             ![c].due = Earlier(@, mtime[b] + GraceWindow)]
             ELSE push' = [push EXCEPT ![c] = IdlePush]
    BY <1>5 DEF PublishCheckBlob
  <2>4. \A d \in Client : d # c => push'[d] = push[d]
    BY <2>3, <1>0
  <2>5. CASE b \in disk
    <3> DEFINE due == Earlier(push[c].due, mtime[b] + GraceWindow)
    <3>1. due <= push[c].due /\ due <= mtime[b] + GraceWindow /\ due \in Nat
      BY <2>2, <2>5, <1>0, <1>0a DEF Earlier
    <3>2. /\ push'[c].man = push[c].man /\ push'[c].todo = push[c].todo \ {b}
          /\ push'[c].due = due
      BY <2>2, <2>3, <2>5, <1>0, <1>0a
    <3> HIDE DEF due
    <3>3. \A x \in Refs[push[c].man] \ push[c].todo :
             \/ x \in clobbered
             \/ push[c].due < now
             \/ x \in disk /\ push[c].due <= mtime[x] + GraceWindow
      BY <2>2 DEF GInv, CheckedStillFresh
    <3>4. \A x \in Refs[push[c].man] \ (push[c].todo \ {b}) :
             \/ x \in clobbered
             \/ due < now
             \/ x \in disk /\ due <= mtime[x] + GraceWindow
      BY <2>2, <2>5, <3>1, <3>3, <1>0, <1>0a
    <3>5. CheckedStillFresh'
      BY <2>1, <2>4, <3>2, <3>4 DEF GInv, CheckedStillFresh
    <3> QED
      BY <2>1, <3>5 DEF GInv, PromptPushKeepsBlobs, ClockRead, PromptPublished,
                        SweptAreExpired, Sweeping, SweptNotPrompt
  <2>6. CASE b \notin disk
    <3>1. push'[c].pc = "idle"
      BY <2>3, <2>6, <1>0 DEF IdlePush
    <3> QED
      BY <2>1, <2>4, <3>1 DEF GInv, PromptPushKeepsBlobs, ClockRead, PromptPublished,
                        CheckedStillFresh, SweptAreExpired, Sweeping, SweptNotPrompt
  <2> QED
    BY <2>5, <2>6
<1>6. ASSUME NEW c \in Client, PublishCommit(c)
      PROVE  GInv'
  <2> DEFINE row == <<push[c].repo, push[c].man>>
  <2>1. /\ UNCHANGED <<now, disk, mtime, gc, clobbered>>
        /\ rows' = rows \cup {row}
        /\ push[c].pc = "check" /\ push[c].todo = {}
        /\ push' = [push EXCEPT ![c] = IdlePush]
        /\ prompt' = prompt \/ (prompt' = prompt \cup {row} /\ now <= push[c].due)
    BY <1>6 DEF PublishCommit, diskVars, gcVars
  <2>2. row[2] = push[c].man
    OBVIOUS
  <2> HIDE DEF row
  <2>3. now <= push[c].due =>
           \A b \in Refs[push[c].man] :
             b \in clobbered \/ (b \in disk /\ now <= mtime[b] + GraceWindow)
    BY <2>1, <1>0, <1>0a DEF GInv, CheckedStillFresh
  <2>4. PromptPushKeepsBlobs' /\ PromptPublished'
    BY <2>1, <2>2, <2>3 DEF GInv, PromptPushKeepsBlobs, PromptPublished
  <2>5. ClockRead' /\ SweptAreExpired'
    BY <2>1 DEF GInv, ClockRead, SweptAreExpired, Sweeping
  <2>6. CheckedStillFresh'
    BY <2>1, <1>0 DEF GInv, CheckedStillFresh, IdlePush
  <2>7. SweptNotPrompt'
    <3> SUFFICES ASSUME NEW p \in Proc, gc[p].pc \in {"sweep", "unlink"},
                        now <= push[c].due,
                        NEW b \in Refs[push[c].man] \cap gc[p].cand,
                        b \notin clobbered
                 PROVE  FALSE
      BY <2>1, <2>2 DEF GInv, SweptNotPrompt
    <3>1. b \in Blob /\ b \in disk /\ now <= mtime[b] + GraceWindow
      BY <2>1, <2>3, <1>0a
    <3>2. mtime[b] < gc[p].at - GraceWindow
      BY <3>1 DEF GInv, SweptAreExpired, Sweeping
    <3>3. gc[p].at <= now
      BY DEF GInv, ClockRead
    <3> QED
      BY <3>1, <3>2, <3>3, <1>0
  <2> QED
    BY <2>4, <2>5, <2>6, <2>7 DEF GInv
<1>7. ASSUME NEW repo \in Repo, NEW m \in Manifest, DeleteManifest(repo, m)
      PROVE  GInv'
  BY <1>7 DEF DeleteManifest, diskVars, gcVars, GInv, PromptPushKeepsBlobs,
              ClockRead, PromptPublished, CheckedStillFresh, SweptAreExpired, Sweeping,
              SweptNotPrompt
<1>8. ASSUME NEW repo \in Repo, DeleteRepository(repo)
      PROVE  GInv'
  BY <1>8 DEF DeleteRepository, diskVars, gcVars, GInv, PromptPushKeepsBlobs,
              ClockRead, PromptPublished, CheckedStillFresh, SweptAreExpired, Sweeping,
              SweptNotPrompt
<1>9. ASSUME NEW p \in Proc,
             \/ ComputeAcquire(p) \/ PruneExpiredGCReports(p) \/ DeleteAcquire(p)
             \/ SweepRetain(p) \/ SweepRecheck(p)
             \/ DeleteGiveUp(p) \/ CreateGCReport(p) \/ GCAbort(p)
             \/ MarkGCReportDeleted(p)
             \/ \E r \in Report : DeleteBegin(p, r)
      PROVE  GInv'
  <2>1. UNCHANGED <<now, disk, mtime, rows, push, clobbered, prompt>>
    BY <1>9 DEF ComputeAcquire, PruneExpiredGCReports, DeleteAcquire, SweepRetain,
                SweepRecheck, DeleteGiveUp, CreateGCReport, GCAbort,
                MarkGCReportDeleted, DeleteBegin, diskVars, ghosts
  <2>2. CASE ComputeAcquire(p) \/ \E r \in Report : DeleteBegin(p, r)
    <3>1. Started(p, "prune") \/ Started(p, "gate")
      BY <2>2, GCEffects
    <3> QED
      BY <2>1, <3>1, GraceFrame DEF Started
  <2>3. CASE PruneExpiredGCReports(p) \/ DeleteAcquire(p)
    <3>1. Moved(p, "list", gc[p].cand) /\ gc[p].pc # "idle"
      BY <2>3, GCEffects DEF PruneExpiredGCReports, DeleteAcquire
    <3> QED
      BY <2>1, <3>1, GraceFrame DEF Moved
  <2>4. CASE SweepRetain(p) \/ SweepRecheck(p)
    <3>1. /\ Moved(p, "sweep", gc[p].cand) \/ Moved(p, "unlink", gc[p].cand)
          /\ gc[p].pc = "sweep"
      BY <2>4, GCEffects DEF SweepRetain, SweepRecheck
    <3> QED
      BY <2>1, <3>1, GraceFrame DEF Moved
  <2>5. CASE DeleteGiveUp(p) \/ CreateGCReport(p) \/ GCAbort(p) \/ MarkGCReportDeleted(p)
    <3>1. gc' = [gc EXCEPT ![p] = IdleGC]
      BY <2>5, GCEffects DEF Returned
    <3>2. gc'[p].pc = "idle" /\ \A q \in Proc : q # p => gc'[q] = gc[q]
      BY <3>1, <1>0 DEF IdleGC
    <3> QED
      BY <2>1, <3>2, GraceFrame
  <2> QED
    BY <1>9, <2>2, <2>3, <2>4, <2>5
<1>10. ASSUME NEW p \in Proc, ListBlobs(p)
       PROVE  GInv'
  <2>1. UNCHANGED <<now, disk, mtime, rows, push, clobbered, prompt>> /\ gc[p].pc = "list"
    BY <1>10 DEF ListBlobs, diskVars, ghosts
  <2>2. Moved(p, "mark", {b \in disk : Expired(b, gc[p].at)})
    BY <1>10, GCEffects
  <2>3. PromptPushKeepsBlobs' /\ PromptPublished' /\ CheckedStillFresh'
    BY <2>1 DEF GInv, PromptPushKeepsBlobs, PromptPublished, CheckedStillFresh
  <2>4. ClockRead' /\ SweptNotPrompt'
    BY <2>1, <2>2 DEF GInv, ClockRead, SweptNotPrompt, Moved
  <2>5. SweptAreExpired'
    BY <2>1, <2>2 DEF GInv, SweptAreExpired, Sweeping, Moved, Expired
  <2> QED
    BY <2>3, <2>4, <2>5 DEF GInv
<1>11. ASSUME NEW p \in Proc, MarkReferenced(p)
       PROVE  GInv'
  <2>1. UNCHANGED <<now, disk, mtime, rows, push, clobbered, prompt>> /\ gc[p].pc = "mark"
    BY <1>11 DEF MarkReferenced, diskVars, ghosts
  <2> DEFINE x == IF gc[p].del THEN "sweep" ELSE "create"
  <2>2. Moved(p, x, gc[p].cand \ ListReferencedBlobDigests)
    BY <1>11, GCEffects
  <2>3. PromptPushKeepsBlobs' /\ PromptPublished' /\ CheckedStillFresh'
    BY <2>1 DEF GInv, PromptPushKeepsBlobs, PromptPublished, CheckedStillFresh
  <2>4. ClockRead'
    BY <2>1, <2>2 DEF GInv, ClockRead, Moved
  <2>5. SweptAreExpired'
    BY <2>1, <2>2 DEF GInv, SweptAreExpired, Sweeping, Moved
  <2>6. \A row \in prompt : Refs[row[2]] \subseteq ListReferencedBlobDigests
    BY DEF GInv, PromptPublished, ListReferencedBlobDigests
  <2>7. SweptNotPrompt'
    BY <2>1, <2>2, <2>6 DEF GInv, SweptNotPrompt, Moved
  <2> QED
    BY <2>3, <2>4, <2>5, <2>7 DEF GInv
<1>12. ASSUME NEW p \in Proc, DeleteBlob(p)
       PROVE  GInv'
  <2> DEFINE b == gc[p].cur
  <2>1. UNCHANGED <<now, rows, push, clobbered, prompt>> /\ gc[p].pc = "unlink"
    BY <1>12 DEF DeleteBlob
  <2>2. Moved(p, "sweep", gc[p].cand)
    BY <1>12, GCEffects
  <2>3. b \in gc[p].cand /\ b \in Blob
    BY <2>1, <1>0 DEF TInv, DeleteLoopLocals
  <2>4. \/ UNCHANGED <<disk, mtime>>
        \/ b \in disk /\ disk' = disk \ {b} /\ mtime' = [mtime EXCEPT ![b] = 0]
    BY <1>12 DEF DeleteBlob, diskVars
  <2> HIDE DEF b
  <2>5. \A x \in Blob : x # b => mtime'[x] = mtime[x] /\ (x \in disk' <=> x \in disk)
    BY <2>3, <2>4, <1>0
  <2>6. PromptPushKeepsBlobs'
    <3> SUFFICES ASSUME NEW row \in prompt, NEW x \in Refs[row[2]], x \notin disk'
                 PROVE  x \in clobbered
      BY <2>1 DEF PromptPushKeepsBlobs
    <3>1. CASE x \in disk
      <4>1. x = b
        BY <2>4, <3>1
      <4> QED
        BY <4>1, <2>1, <2>3 DEF GInv, SweptNotPrompt
    <3> QED
      BY <3>1 DEF GInv, PromptPushKeepsBlobs
  <2>7. PromptPublished' /\ ClockRead' /\ SweptNotPrompt'
    BY <2>1, <2>2 DEF GInv, PromptPublished, ClockRead, SweptNotPrompt, Moved
  <2>8. SweptAreExpired'
    <3> SUFFICES ASSUME NEW q \in Proc, NEW x \in Blob, Sweeping(q, x)',
                        x \notin clobbered, x \in disk'
                 PROVE  mtime'[x] < gc'[q].at - GraceWindow
      BY <2>1 DEF SweptAreExpired
    <3>1. Sweeping(q, x) /\ gc'[q].at = gc[q].at
      BY <2>1, <2>2 DEF Sweeping, Moved
    <3>2. x \in disk /\ mtime'[x] = mtime[x]
      BY <2>4, <2>5
    <3> QED
      BY <3>1, <3>2 DEF GInv, SweptAreExpired
  <2>9. CheckedStillFresh'
    <3> SUFFICES ASSUME NEW c \in Client, push[c].pc = "check",
                        NEW x \in Refs[push[c].man] \ push[c].todo,
                        x \notin clobbered, ~(push[c].due < now)
                 PROVE  x \in disk' /\ push[c].due <= mtime'[x] + GraceWindow
      BY <2>1 DEF CheckedStillFresh
    <3>1. x \in Blob /\ x \in disk /\ push[c].due <= mtime[x] + GraceWindow
      BY <1>0a DEF GInv, CheckedStillFresh
    <3>2. x # b
      <4> SUFFICES ASSUME x = b PROVE FALSE
        OBVIOUS
      <4>1. mtime[x] < gc[p].at - GraceWindow
        BY <2>1, <2>3, <3>1 DEF GInv, SweptAreExpired, Sweeping
      <4>2. gc[p].at <= now
        BY <2>1 DEF GInv, ClockRead
      <4> QED
        BY <3>1, <4>1, <4>2, <1>0, <1>0a
    <3> QED
      BY <2>5, <3>1, <3>2
  <2> QED
    BY <2>6, <2>7, <2>8, <2>9 DEF GInv
<1>13. CASE Restart
  BY <1>13 DEF Restart, IdlePush, IdleGC, diskVars, ghosts, GInv, PromptPushKeepsBlobs,
               ClockRead, PromptPublished, CheckedStillFresh, SweptAreExpired, Sweeping,
               SweptNotPrompt
<1>14. CASE UNCHANGED vars
  BY <1>14 DEF vars, diskVars, gcVars, ghosts, GInv, PromptPushKeepsBlobs,
               ClockRead, PromptPublished, CheckedStillFresh, SweptAreExpired, Sweeping,
               SweptNotPrompt
<1>15. ASSUME NEW c \in Client, PublishFail(c)
       PROVE  GInv'
  <2>1. UNCHANGED <<now, rows, disk, mtime, gc, clobbered, prompt>>
        /\ push' = [push EXCEPT ![c] = IdlePush]
    BY <1>15 DEF PublishFail, diskVars, gcVars, ghosts
  <2>2. \A d \in Client : push'[d] = push[d] \/ push'[d].pc = "idle"
    BY <2>1, <1>0 DEF IdlePush
  <2> QED
    BY <2>1, <2>2 DEF GInv, PromptPushKeepsBlobs, ClockRead, PromptPublished,
                      CheckedStillFresh, SweptAreExpired, Sweeping, SweptNotPrompt
<1> QED
  BY <1>1, <1>2, <1>3, <1>4, <1>5, <1>6, <1>7, <1>8, <1>9, <1>10, <1>11, <1>12, <1>13,
     <1>14, <1>15 DEF Next, GCStep, PushStep

\* gcGraceWindow protects a push in flight: a manifest published within the window
\* after the last write of its blobs keeps them, whatever reports and deletes run,
\* unless a blob's file was replaced under a running collector or by an older one.
THEOREM GraceProtectsPromptPush == Spec => []PromptPushKeepsBlobs
<1>1. Init => GInv
  BY DEF Init, GInv, PromptPushKeepsBlobs, ClockRead, PromptPublished,
         CheckedStillFresh, SweptAreExpired, Sweeping, SweptNotPrompt, IdlePush, IdleGC
<1>2. GInv => PromptPushKeepsBlobs
  BY DEF GInv
<1> QED
  BY <1>1, <1>2, GraceStep, TypeInvariant, PTL DEF Spec

-----------------------------------------------------------------------------
(***************************************************************************)
(* The audit trail.  What a delete has recorded and what it has still to   *)
(* do make up its report's candidates for as long as the report is not     *)
(* pruned or deleted by another request.  An unlink finds its file because *)
(* the candidates were listed under the gate, which nobody else holds, and *)
(* each is taken once.  A report in use is never absent, so its identifier *)
(* is not handed out again.                                                *)
(***************************************************************************)
Holds(p) == gc[p].pc \in {"prune", "list", "mark", "create", "sweep", "unlink"}

GateExclusive ==
    /\ \A p \in Proc : Holds(p) => gate = 1
    /\ \A p, q \in Proc : Holds(p) /\ Holds(q) => p = q

\* Of a request with locals g, against the reports, the unlinks and the files.
Accounts(g, rpt, unlinked, files) ==
    /\ g.pc \in {"gate", "sweep", "unlink"} => g.del
    /\ g.del =>
         /\ rpt[g.rep].status # "absent"
         /\ \A b \in Blob :
              /\ b \in g.todo => g.out[b] = "none"
              /\ g.out[b] = "deleted" => <<g.rep, b>> \in unlinked
              /\ g.out[b] # "missing"
              /\ rpt[g.rep].status = "reported" =>
                   (b \in rpt[g.rep].cand <=> (b \in g.todo \/ g.out[b] # "none"))
              /\ g.pc \in {"mark", "sweep", "unlink"} /\ b \in g.todo \cap g.cand =>
                   b \in files

AInv == /\ AuditTruthful
        /\ GateExclusive
        /\ \A p \in Proc : Accounts(gc[p], report, reclaimed, disk)

(* Steps that leave the collector's requests, gate, reports and record of  *)
(* unlinks alone, and remove no file.                                      *)
LEMMA AuditFrame ==
    ASSUME AInv, UNCHANGED <<gc, gate, report, reclaimed>>, disk \subseteq disk'
    PROVE  AInv'
<1>1. AuditTruthful' /\ GateExclusive'
  BY DEF AInv, AuditTruthful, GateExclusive, Holds
<1>2. \A p \in Proc : Accounts(gc[p], report, reclaimed, disk')
  BY DEF AInv, Accounts
<1> QED
  BY <1>1, <1>2 DEF AInv

(* Steps of one request on its own account, when the rows and the record   *)
(* of unlinks stay.                                                        *)
LEMMA AuditMove ==
    ASSUME AInv, NEW p \in Proc,
           UNCHANGED <<report, reclaimed, disk>>,
           \A q \in Proc : q # p => gc'[q] = gc[q],
           GateExclusive',
           Accounts(gc'[p], report, reclaimed, disk)
    PROVE  AInv'
<1>1. AuditTruthful'
  BY DEF AInv, AuditTruthful
<1>2. \A q \in Proc : Accounts(gc'[q], report, reclaimed, disk)
  BY DEF AInv
<1> QED
  BY <1>1, <1>2 DEF AInv

(* The gate while request p moves: it takes it, keeps it, or lets it go.   *)
LEMMA GateMoves ==
    ASSUME AInv, gate \in {0, 1}, NEW p \in Proc,
           \A q \in Proc : q # p => gc'[q] = gc[q],
           \/ Acquire
           \/ gate' = gate /\ (Holds(p)' => Holds(p))
           \/ Release /\ Holds(p) /\ ~Holds(p)'
    PROVE  GateExclusive'
<1>0. GateExclusive
  BY DEF AInv
<1>1. CASE Acquire
  <2>1. gate = 0 /\ gate' = 1
    BY <1>1 DEF Acquire
  <2> QED
    BY <1>0, <2>1 DEF GateExclusive, Holds
<1>2. CASE gate' = gate /\ (Holds(p)' => Holds(p))
  BY <1>0, <1>2 DEF GateExclusive, Holds
<1>3. CASE Release /\ Holds(p) /\ ~Holds(p)'
  <2>1. \A q \in Proc : q # p => ~Holds(q)'
    BY <1>0, <1>3 DEF GateExclusive, Holds
  <2> QED
    BY <1>3, <2>1 DEF GateExclusive
<1> QED
  BY <1>1, <1>2, <1>3

(* What a delete has recorded, after one more outcome.                     *)
LEMMA RecordFields ==
    ASSUME gc \in [Proc -> GCState], NEW p \in Proc, NEW b \in Blob,
           NEW o \in Outcome, gc' = Record(p, b, o)
    PROVE  /\ Moved(p, "sweep", gc[p].cand)
           /\ gc'[p].todo = gc[p].todo \ {b}
           /\ gc'[p].out = [gc[p].out EXCEPT ![b] = o]
           /\ gc[p].out \in [Blob -> Outcome]
<1> DEFINE out == [gc[p].out EXCEPT ![b] = o]
<1>1. gc[p] \in GCState
  OBVIOUS
<1>2. gc[p].out \in [Blob -> Outcome]
  BY <1>1 DEF GCState
<1> HIDE DEF out
<1> DEFINE g == [gc[p] EXCEPT !.pc = "sweep", !.todo = gc[p].todo \ {b},
                              !.cur = NoBlob, !.out = out]
<1>3. g.todo = gc[p].todo \ {b} /\ g.out = out
  BY <1>1 DEF GCState
<1>4. gc' = [gc EXCEPT ![p] = g]
  BY DEF Record, out
<1> HIDE DEF g
<1>5. gc'[p] = g
  BY <1>4
<1>6. Moved(p, "sweep", gc[p].cand)
  BY MoveRecord
<1> QED
  BY <1>2, <1>3, <1>5, <1>6 DEF out

(* One candidate is done with: it leaves the work to do, with an outcome   *)
(* other than "missing", and "deleted" only if it has been unlinked.       *)
LEMMA AccountRecord ==
    ASSUME TInv, NEW p \in Proc, NEW b \in gc[p].todo,
           NEW o \in Outcome \ {"none", "missing"},
           gc' = Record(p, b, o),
           gc[p].pc \in {"sweep", "unlink"},
           NEW U, reclaimed \subseteq U, o = "deleted" => <<gc[p].rep, b>> \in U,
           Accounts(gc[p], report, reclaimed, disk)
    PROVE  Accounts(gc'[p], report, U, disk \ {b})
<1>1. gc \in [Proc -> GCState] /\ gc[p] \in GCState
  BY DEF TInv, TypeOK
<1>2. b \in Blob /\ o \in Outcome
  BY <1>1 DEF GCState
<1>3. /\ Moved(p, "sweep", gc[p].cand)
      /\ gc'[p].todo = gc[p].todo \ {b}
      /\ gc'[p].out = [gc[p].out EXCEPT ![b] = o]
      /\ gc[p].out \in [Blob -> Outcome]
  BY <1>1, <1>2, RecordFields
<1>4. gc[p].del
  BY DEF Accounts
<1>5. \A x \in Blob : gc'[p].out[x] = IF x = b THEN o ELSE gc[p].out[x]
  BY <1>2, <1>3
<1> QED
  BY <1>3, <1>4, <1>5 DEF Accounts, Moved

(* Every step of every request keeps the account.                          *)
LEMMA AuditStep == TInv /\ AInv /\ [Next]_vars => AInv'
<1> SUFFICES ASSUME TInv, AInv, [Next]_vars
             PROVE  AInv'
  OBVIOUS
<1>0. /\ gc \in [Proc -> GCState] /\ gate \in {0, 1} /\ disk \subseteq Blob
      /\ report \in [Report -> ReportState]
  BY DEF TInv, TypeOK
<1>0a. \A p \in Proc : Accounts(gc[p], report, reclaimed, disk)
  BY DEF AInv
<1>1. CASE \/ Tick
           \/ \E b \in Blob : PutUploadChunk(b) \/ CommitUpload(b)
           \/ \E c \in Client, repo \in Repo, m \in Manifest : PublishBegin(c, repo, m)
           \/ \E c \in Client : PushStep(c)
           \/ \E repo \in Repo, m \in Manifest : DeleteManifest(repo, m)
           \/ \E repo \in Repo : DeleteRepository(repo)
           \/ UNCHANGED vars
  <2>1. UNCHANGED <<gc, gate, report, reclaimed>> /\ disk \subseteq disk'
    BY <1>1 DEF Tick, PutUploadChunk, CommitUpload, PublishBegin, PushStep, PublishCheckBlob,
                PublishFail, PublishCommit, DeleteManifest, DeleteRepository, vars, diskVars,
                gcVars, ghosts
  <2> QED
    BY <2>1, AuditFrame
<1>2. ASSUME NEW p \in Proc, ComputeAcquire(p)
      PROVE  AInv'
  <2>1. Started(p, "prune") /\ ~gc'[p].del
    BY <1>2, GCEffects
  <2>2. Acquire /\ UNCHANGED <<report, reclaimed, disk>>
    BY <1>2 DEF ComputeAcquire, diskVars, ghosts
  <2>3. GateExclusive'
    BY <1>0, <2>1, <2>2, GateMoves DEF Started
  <2>4. Accounts(gc'[p], report, reclaimed, disk)
    BY <2>1 DEF Started, Accounts
  <2> QED
    BY <2>1, <2>2, <2>3, <2>4, AuditMove DEF Started
<1>3. ASSUME NEW p \in Proc, NEW r \in Report, DeleteBegin(p, r)
      PROVE  AInv'
  <2> DEFINE g == [IdleGC EXCEPT !.pc = "gate", !.rep = r, !.del = TRUE,
                                 !.at = now, !.todo = report[r].cand]
  <2>1. /\ gc' = [gc EXCEPT ![p] = g] /\ report[r].status = "reported"
        /\ UNCHANGED <<gate, report, reclaimed, disk>>
    BY <1>3 DEF DeleteBegin, diskVars, ghosts
  <2>2. /\ g.pc = "gate" /\ g.del /\ g.rep = r /\ g.todo = report[r].cand
        /\ \A b \in Blob : g.out[b] = "none"
    BY DEF IdleGC, NoOutcome
  <2> HIDE DEF g
  <2>3. gc'[p] = g /\ \A q \in Proc : q # p => gc'[q] = gc[q]
    BY <1>0, <2>1
  <2>4. ~Holds(p)'
    BY <2>2, <2>3 DEF Holds
  <2>5. GateExclusive'
    BY <1>0, <2>1, <2>3, <2>4, GateMoves
  <2>6. Accounts(g, report, reclaimed, disk)
    BY <2>1, <2>2 DEF Accounts
  <2> QED
    BY <2>1, <2>3, <2>5, <2>6, AuditMove
<1>4. ASSUME NEW p \in Proc, PruneExpiredGCReports(p)
      PROVE  AInv'
  <2>1. gc' = [gc EXCEPT ![p].pc = "list"] /\ UNCHANGED <<gate, reclaimed, disk>>
    BY <1>4 DEF PruneExpiredGCReports, diskVars, ghosts
  <2>2. \A r \in Report : report'[r] = report[r] \/ report'[r].status = "pruned"
    BY <1>4 DEF PruneExpiredGCReports, NoRow
  <2>3. /\ \A q \in Proc : q # p => gc'[q] = gc[q]
        /\ gc'[p].pc = "list" /\ gc'[p].del = gc[p].del /\ gc'[p].rep = gc[p].rep
        /\ gc'[p].todo = gc[p].todo /\ gc'[p].out = gc[p].out /\ Holds(p)
    BY <1>0, <1>4, <2>1 DEF GCState, PruneExpiredGCReports, Holds
  <2>4. GateExclusive'
    BY <1>0, <2>1, <2>3, GateMoves
  <2>5. AuditTruthful'
    BY <2>1, <2>2 DEF AInv, AuditTruthful
  <2>6. \A q \in Proc : gc[q].del => gc[q].rep \in Report
    BY DEF TInv, DeleteLoopLocals
  <2>7. Accounts(gc'[p], report', reclaimed, disk)
    BY <1>0a, <2>2, <2>3, <2>6 DEF Accounts
  <2>8. \A q \in Proc : q # p => Accounts(gc'[q], report', reclaimed, disk)
    BY <1>0a, <2>2, <2>3, <2>6 DEF Accounts
  <2> QED
    BY <2>1, <2>4, <2>5, <2>7, <2>8 DEF AInv
<1>5. ASSUME NEW p \in Proc, DeleteAcquire(p)
      PROVE  AInv'
  <2>1. /\ gc' = [gc EXCEPT ![p].pc = "list"] /\ Acquire
        /\ UNCHANGED <<report, reclaimed, disk>>
    BY <1>5 DEF DeleteAcquire, diskVars, ghosts
  <2>2. /\ \A q \in Proc : q # p => gc'[q] = gc[q]
        /\ gc'[p].pc = "list" /\ gc'[p].del = gc[p].del /\ gc'[p].rep = gc[p].rep
        /\ gc'[p].todo = gc[p].todo /\ gc'[p].out = gc[p].out
    BY <1>0, <2>1 DEF GCState
  <2>3. GateExclusive'
    BY <1>0, <2>1, <2>2, GateMoves
  <2>4. Accounts(gc'[p], report, reclaimed, disk)
    BY <1>0a, <2>2 DEF Accounts
  <2> QED
    BY <2>1, <2>2, <2>3, <2>4, AuditMove
<1>6. ASSUME NEW p \in Proc, DeleteGiveUp(p) \/ GCAbort(p)
      PROVE  AInv'
  <2>1. gc' = [gc EXCEPT ![p] = IdleGC] /\ UNCHANGED <<report, reclaimed, disk>>
    BY <1>6 DEF DeleteGiveUp, GCAbort, diskVars, ghosts
  <2>2. gc'[p] = IdleGC /\ \A q \in Proc : q # p => gc'[q] = gc[q]
    BY <1>0, <2>1
  <2>3. ~Holds(p)'
    BY <2>2 DEF Holds, IdleGC
  <2>3a. DeleteGiveUp(p) => gate' = gate
    BY DEF DeleteGiveUp
  <2>3b. GCAbort(p) => Release /\ Holds(p)
    BY DEF GCAbort, Holds
  <2>4. GateExclusive'
    BY <1>0, <1>6, <2>2, <2>3, <2>3a, <2>3b, GateMoves
  <2>5. Accounts(IdleGC, report, reclaimed, disk)
    BY DEF IdleGC, Accounts
  <2> QED
    BY <2>1, <2>2, <2>4, <2>5, AuditMove
<1>7. ASSUME NEW p \in Proc, ListBlobs(p)
      PROVE  AInv'
  <2> DEFINE S == {b \in disk : Expired(b, gc[p].at)}
  <2>0. S \in SUBSET disk
    OBVIOUS
  <2>1. /\ gc' = [gc EXCEPT ![p].pc = "mark", ![p].cand = S]
        /\ UNCHANGED <<gate, report, reclaimed, disk>>
    BY <1>7 DEF ListBlobs, diskVars, ghosts
  <2> HIDE DEF S
  <2>2. /\ \A q \in Proc : q # p => gc'[q] = gc[q]
        /\ gc'[p].pc = "mark" /\ gc'[p].del = gc[p].del /\ gc'[p].rep = gc[p].rep
        /\ gc'[p].todo = gc[p].todo /\ gc'[p].out = gc[p].out /\ gc'[p].cand = S
    BY <1>0, <2>1 DEF GCState
  <2>3. Holds(p)
    BY <1>7 DEF ListBlobs, Holds
  <2>4. GateExclusive'
    BY <1>0, <2>1, <2>2, <2>3, GateMoves
  <2>5. Accounts(gc'[p], report, reclaimed, disk)
    BY <1>0a, <2>0, <2>2 DEF Accounts
  <2> QED
    BY <2>1, <2>2, <2>4, <2>5, AuditMove
<1>8. ASSUME NEW p \in Proc, MarkReferenced(p)
      PROVE  AInv'
  <2> DEFINE x == IF gc[p].del THEN "sweep" ELSE "create"
             S == gc[p].cand \ ListReferencedBlobDigests
  <2>0. S \subseteq gc[p].cand /\ ((x = "sweep" /\ gc[p].del) \/ x = "create")
    OBVIOUS
  <2>1. /\ gc' = [gc EXCEPT ![p].pc = x, ![p].cand = S]
        /\ UNCHANGED <<gate, report, reclaimed, disk>>
    BY <1>8 DEF MarkReferenced, diskVars, ghosts
  <2> HIDE DEF S, x
  <2>2. /\ \A q \in Proc : q # p => gc'[q] = gc[q]
        /\ gc'[p].pc = x /\ gc'[p].del = gc[p].del /\ gc'[p].rep = gc[p].rep
        /\ gc'[p].todo = gc[p].todo /\ gc'[p].out = gc[p].out /\ gc'[p].cand = S
    BY <1>0, <2>1 DEF GCState
  <2>3. Holds(p) /\ gc[p].pc = "mark"
    BY <1>8 DEF MarkReferenced, Holds
  <2>4. GateExclusive'
    BY <1>0, <2>1, <2>2, <2>3, GateMoves
  <2>5. Accounts(gc'[p], report, reclaimed, disk)
    BY <1>0a, <2>0, <2>2, <2>3 DEF Accounts
  <2> QED
    BY <2>1, <2>2, <2>4, <2>5, AuditMove
<1>9. ASSUME NEW p \in Proc, CreateGCReport(p)
      PROVE  AInv'
  <2>1. PICK r \in Report :
          /\ report[r].status = "absent"
          /\ report' = [report EXCEPT ![r] = [NoRow EXCEPT !.status = "reported",
                                                !.cand = gc[p].cand,
                                                !.expires = gc[p].at + ReportTTL]]
    BY <1>9 DEF CreateGCReport
  <2>2. /\ gc' = [gc EXCEPT ![p] = IdleGC] /\ Release /\ Holds(p)
        /\ UNCHANGED <<reclaimed, disk>>
    BY <1>9 DEF CreateGCReport, diskVars, ghosts, Holds
  <2>3. gc'[p] = IdleGC /\ \A q \in Proc : q # p => gc'[q] = gc[q]
    BY <1>0, <2>2
  <2>4. GateExclusive'
    BY <1>0, <2>2, <2>3, GateMoves DEF Holds, IdleGC
  <2>5. report'[r].status = "reported" /\ \A s \in Report : s # r => report'[s] = report[s]
    BY <1>0, <2>1 DEF NoRow
  <2>6. AuditTruthful'
    BY <2>2, <2>5 DEF AInv, AuditTruthful
  <2>7. \A q \in Proc : gc[q].del => gc[q].rep \in Report /\ gc[q].rep # r
    BY <1>0a, <2>1 DEF TInv, DeleteLoopLocals, Accounts
  <2>8. \A q \in Proc : q # p => Accounts(gc'[q], report', reclaimed, disk)
    BY <1>0a, <2>3, <2>5, <2>7 DEF Accounts
  <2>9. Accounts(IdleGC, report', reclaimed, disk)
    BY DEF IdleGC, Accounts
  <2> QED
    BY <2>2, <2>3, <2>4, <2>6, <2>8, <2>9 DEF AInv
<1>10. ASSUME NEW p \in Proc, gc[p].pc = "sweep", gate' = gate,
              UNCHANGED <<report, reclaimed, disk>>,
              NEW b \in gc[p].todo, NEW o \in {"retained", "failed"},
              gc' = Record(p, b, o)
       PROVE  AInv'
  <2>1. b \in Blob /\ o \in Outcome /\ o \in Outcome \ {"none", "missing"} /\ o # "deleted"
    BY <1>0, <1>10 DEF GCState, Outcome
  <2>2. Moved(p, "sweep", gc[p].cand)
    BY <1>0, <1>10, <2>1, MoveRecord
  <2>3. GateExclusive'
    BY <1>0, <1>10, <2>2, GateMoves DEF Moved, Holds
  <2>4. Accounts(gc'[p], report, reclaimed, disk \ {b})
    BY <1>0a, <1>10, <2>1, AccountRecord
  <2>5. Accounts(gc'[p], report, reclaimed, disk)
    BY <2>4 DEF Accounts
  <2> QED
    BY <1>10, <2>2, <2>3, <2>5, AuditMove DEF Moved
<1>11. ASSUME NEW p \in Proc, SweepRetain(p)
       PROVE  AInv'
  <2>1. PICK b \in gc[p].todo : gc' = Record(p, b, "retained")
    BY <1>11 DEF SweepRetain
  <2>2. gc[p].pc = "sweep" /\ gate' = gate /\ UNCHANGED <<report, reclaimed, disk>>
    BY <1>11 DEF SweepRetain, diskVars, ghosts
  <2> QED
    BY <1>10, <2>1, <2>2
<1>12. ASSUME NEW p \in Proc, SweepRecheck(p)
       PROVE  AInv'
  <2>1. PICK b \in gc[p].todo \cap gc[p].cand :
           \/ gc' = Record(p, b, "failed")
           \/ gc' = Record(p, b, "retained")
           \/ gc' = [gc EXCEPT ![p].pc = "unlink", ![p].cur = b]
    BY <1>12 DEF SweepRecheck
  <2>2. gc[p].pc = "sweep" /\ gate' = gate /\ UNCHANGED <<report, reclaimed, disk>>
    BY <1>12 DEF SweepRecheck, diskVars, ghosts
  <2>3. CASE gc' = Record(p, b, "failed") \/ gc' = Record(p, b, "retained")
    BY <1>10, <2>1, <2>2, <2>3
  <2>4. CASE gc' = [gc EXCEPT ![p].pc = "unlink", ![p].cur = b]
    <3>1. b \in Blob
      BY <1>0, <2>1 DEF GCState
    <3>2. Moved(p, "unlink", gc[p].cand) /\ gc'[p].todo = gc[p].todo
      BY <1>0, <2>4, <3>1, MoveUnlink
    <3>3. gc'[p].out = gc[p].out
      BY <1>0, <2>4 DEF GCState
    <3>4. GateExclusive'
      BY <1>0, <2>2, <3>2, GateMoves DEF Moved, Holds
    <3>5. Accounts(gc'[p], report, reclaimed, disk)
      BY <1>0a, <2>2, <3>2, <3>3 DEF Accounts, Moved
    <3> QED
      BY <2>2, <3>2, <3>4, <3>5, AuditMove DEF Moved
  <2> QED
    BY <2>1, <2>3, <2>4
<1>13. ASSUME NEW p \in Proc, DeleteBlob(p)
       PROVE  AInv'
  <2> DEFINE b == gc[p].cur
  <2>1. gc[p].pc = "unlink" /\ gate' = gate /\ report' = report
    BY <1>13 DEF DeleteBlob
  <2>2. b \in gc[p].todo /\ b \in gc[p].cand /\ b \in Blob
    BY <1>0, <2>1 DEF TInv, DeleteLoopLocals, GCState
  <2>3. b \in disk
    <3>1. gc[p].del
      BY <1>0a, <2>1 DEF Accounts
    <3> QED
      BY <1>0a, <2>1, <2>2, <3>1 DEF Accounts
  <2>4. PICK o \in {"deleted", "failed"} :
           /\ gc' = Record(p, b, o)
           /\ \/ /\ o = "deleted" /\ disk' = disk \ {b}
                 /\ reclaimed' = reclaimed \cup {<<gc[p].rep, b>>}
              \/ o = "failed" /\ UNCHANGED <<disk, reclaimed>>
    BY <1>13, <2>3 DEF DeleteBlob, diskVars
  <2> HIDE DEF b
  <2>5. o \in Outcome /\ o \in Outcome \ {"none", "missing"}
    BY DEF Outcome
  <2>6. Moved(p, "sweep", gc[p].cand)
    BY <1>0, <2>2, <2>4, <2>5, MoveRecord
  <2>7. GateExclusive'
    BY <1>0, <2>1, <2>6, GateMoves DEF Moved, Holds
  <2>8. reclaimed \subseteq reclaimed' /\ (o = "deleted" => <<gc[p].rep, b>> \in reclaimed')
    BY <2>4
  <2>9. Accounts(gc'[p], report, reclaimed', disk \ {b})
    BY <1>0a, <2>1, <2>2, <2>4, <2>5, <2>8, AccountRecord
  <2>10. Accounts(gc'[p], report, reclaimed', disk')
    BY <2>4, <2>9 DEF Accounts
  <2>11. \A q \in Proc : q # p => /\ gc'[q] = gc[q]
                                  /\ gc[q].pc \notin {"mark", "sweep", "unlink"}
    BY <2>1, <2>6 DEF AInv, GateExclusive, Holds, Moved
  <2>12. \A q \in Proc : q # p => Accounts(gc'[q], report, reclaimed', disk')
    BY <1>0a, <2>8, <2>11 DEF Accounts
  <2>13. AuditTruthful'
    BY <2>1, <2>8 DEF AInv, AuditTruthful
  <2> QED
    BY <2>1, <2>7, <2>10, <2>12, <2>13 DEF AInv
<1>14. ASSUME NEW p \in Proc, MarkGCReportDeleted(p)
       PROVE  AInv'
  <2> DEFINE r == gc[p].rep
  <2>1. /\ gc' = [gc EXCEPT ![p] = IdleGC] /\ Release /\ Holds(p)
        /\ gc[p].pc = "sweep" /\ gc[p].todo = {} /\ UNCHANGED <<reclaimed, disk>>
    BY <1>14 DEF MarkGCReportDeleted, diskVars, ghosts, Holds
  <2>2. gc'[p] = IdleGC /\ \A q \in Proc : q # p => gc'[q] = gc[q]
    BY <1>0, <2>1
  <2>3. GateExclusive'
    BY <1>0, <2>1, <2>2, GateMoves DEF Holds, IdleGC
  <2>4. r \in Report /\ gc[p].del
    BY <1>0a, <2>1 DEF TInv, DeleteLoopLocals, Accounts
  <2>5. \/ report' = report
        \/ /\ report[r].status = "reported"
           /\ report' = [report EXCEPT ![r].status = "deleted", ![r].out = gc[p].out]
    BY <1>14 DEF MarkGCReportDeleted
  <2> HIDE DEF r
  <2>6. CASE report' = report
    <3>1. Accounts(IdleGC, report, reclaimed, disk)
      BY DEF IdleGC, Accounts
    <3> QED
      BY <2>1, <2>2, <2>3, <2>6, <3>1, AuditMove
  <2>7. CASE /\ report[r].status = "reported"
             /\ report' = [report EXCEPT ![r].status = "deleted", ![r].out = gc[p].out]
    <3>1. /\ report'[r].status = "deleted" /\ report'[r].out = gc[p].out
          /\ report'[r].cand = report[r].cand
          /\ \A s \in Report : s # r => report'[s] = report[s]
      BY <1>0, <2>4, <2>7 DEF ReportState
    <3>2. \A b \in Blob : /\ gc[p].out[b] = "deleted" => <<r, b>> \in reclaimed
                          /\ gc[p].out[b] # "none" <=> b \in report[r].cand
                          /\ gc[p].out[b] # "missing"
      BY <1>0a, <2>1, <2>4, <2>7 DEF Accounts, r
    <3>3. AuditTruthful'
      BY <2>1, <3>1, <3>2 DEF AInv, AuditTruthful
    <3>4. \A q \in Proc : gc[q].del => gc[q].rep \in Report
      BY DEF TInv, DeleteLoopLocals
    <3>5. \A q \in Proc : q # p => Accounts(gc'[q], report', reclaimed, disk)
      BY <1>0a, <2>2, <3>1, <3>4 DEF Accounts
    <3>6. Accounts(IdleGC, report', reclaimed, disk)
      BY DEF IdleGC, Accounts
    <3> QED
      BY <2>1, <2>2, <2>3, <3>3, <3>5, <3>6 DEF AInv
  <2> QED
    BY <2>5, <2>6, <2>7
<1>15. CASE Restart
  <2>1. gc' = [p \in Proc |-> IdleGC] /\ UNCHANGED <<report, reclaimed, disk>>
    BY <1>15 DEF Restart, diskVars, ghosts
  <2>2. AuditTruthful' /\ GateExclusive'
    BY <2>1 DEF AInv, AuditTruthful, GateExclusive, Holds, IdleGC
  <2>3. \A p \in Proc : Accounts(gc'[p], report, reclaimed, disk)
    BY <2>1 DEF IdleGC, Accounts
  <2> QED
    BY <2>1, <2>2, <2>3 DEF AInv
<1> QED
  BY <1>1, <1>2, <1>3, <1>4, <1>5, <1>6, <1>7, <1>8, <1>9, <1>11, <1>12, <1>13, <1>14, <1>15
     DEF Next, GCStep

(* DeleteByGCReport's audit trail: a report in state "deleted" tells the   *)
(* fate of every candidate and claims no unlink that did not happen, with  *)
(* any number of concurrent requests, expired reports, failures and        *)
(* restarts; gcGate makes the outcome "missing" impossible.                *)
THEOREM AuditRowsAreTrue == Spec => []AuditTruthful
<1>1. Init => AInv
  BY DEF Init, AInv, AuditTruthful, GateExclusive, Holds, Accounts, IdleGC, NoRow
<1>2. AInv => AuditTruthful
  BY DEF AInv
<1> QED
  BY <1>1, <1>2, AuditStep, TypeInvariant, PTL DEF Spec
=============================================================================
