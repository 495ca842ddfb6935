--------------------------- MODULE ScanRunsProofs ---------------------------
(***************************************************************************)
(* Proofs about ScanRuns, for any images, timeout, concurrency and number  *)
(* of runs and restarts.                                                   *)
(*                                                                         *)
(* That two runs of one image are in flight only when the older one was    *)
(* force-failed depends on what GetActiveScanRunByDigest returns when      *)
(* several rows are active: a force-failed run that starts after all makes *)
(* its row active again.  The invariant orders the rows of an image: all   *)
(* but the last are finished for good, or were force-failed and created    *)
(* strictly earlier, so that the newest active row is the last one, and    *)
(* scanQueueMu carries that fact from the query to the insertion.          *)
(***************************************************************************)
EXTENDS ScanRuns, FiniteSetTheorems, SequenceTheorems, WellFoundedInduction, TLAPS

Types ==
    /\ now \in Nat
    /\ rows \in Seq(Row) /\ Len(rows) <= MaxRuns
    /\ exec \in [Runs -> Exec]
    /\ queue \in Queue
    /\ crashes \in 0 .. MaxCrashes /\ faulty \in BOOLEAN
    /\ orphaned \subseteq DOMAIN rows

(* Every goroutine has a row.                                              *)
ExecsHaveRows == \A i \in Runs : exec[i].pc # "none" => i \in DOMAIN rows

GateInv == gate = Cardinality(Holding) /\ gate <= MaxConcurrency

(* A start is not before the creation; what was force-failed had an age.   *)
Dated(r) == r.started = Never \/ r.created <= r.started
Times ==
    /\ \A i \in DOMAIN rows : rows[i].created <= now /\ Dated(rows[i])
    /\ \A i \in Holding : rows[i].created <= exec[i].started
    /\ \A i \in orphaned : rows[i].created < now

(* The row of a run in flight is active unless it was force-failed, and    *)
(* not completed in any case.                                              *)
LiveRows ==
    \A i \in Runs : Live(i) =>
        /\ rows[i].status # "completed"
        /\ i \notin orphaned => rows[i].status \in Active

(* Row i does not stand in the way of a new run.                           *)
Spare(i) == i \in orphaned \/ rows[i].status \notin Active

(* All rows of an image but the last one.                                  *)
Superseded ==
    \A i, j \in DOMAIN rows :
        (i < j /\ rows[i].img = rows[j].img) =>
            \/ i \in orphaned /\ rows[i].created < rows[j].created
            \/ i \notin orphaned /\ rows[i].status \notin Active

(* What the call that holds scanQueueMu has seen is still so.              *)
InsertInv == queue.pc = "insert" => \A i \in RunsOf(queue.img) : Spare(i)
OrphanInv ==
    queue.pc = "orphan" =>
        /\ queue.row \in RunsOf(queue.img)
        /\ queue.copy.img = queue.img
        /\ queue.copy.created = rows[queue.row].created /\ queue.copy.created < now
        /\ queue.copy.status \in Active /\ Dated(queue.copy)
        /\ queue.row \in orphaned \/ \A j \in RunsOf(queue.img) : j <= queue.row
        /\ \A i \in RunsOf(queue.img) : i # queue.row => Spare(i)

RunInv == ExecsHaveRows /\ Times /\ LiveRows /\ Superseded /\ InsertInv /\ OrphanInv
IInv == Types /\ GateInv /\ RunInv

-----------------------------------------------------------------------------
(* Rows are numbered from one, and every run in flight has one.            *)
LEMMA RowNumbers ==
    ASSUME Types
    PROVE  /\ Len(rows) \in Nat /\ DOMAIN rows = 1 .. Len(rows)
           /\ \A i \in DOMAIN rows : i \in Nat /\ i \in Runs /\ rows[i] \in Row
BY ScanRunsAssumption, ElementOfSeq DEF Types, Runs

(* What a call that holds scanQueueMu carries.                             *)
LEMMA QueueKinds ==
    ASSUME Types
    PROVE  /\ queue = Unlocked \/ queue.pc \in {"insert", "orphan"}
           /\ queue.pc = "insert" => queue.img \in Image
           /\ queue.pc = "orphan" => queue.img \in Image /\ queue.row \in Runs /\ queue.copy \in Row
BY DEF Types, Queue, Unlocked

(* One row is written over.                                                *)
LEMMA RowWritten ==
    ASSUME Types, NEW i \in DOMAIN rows, NEW r \in Row, rows' = [rows EXCEPT ![i] = r]
    PROVE  /\ rows' \in Seq(Row) /\ Len(rows') = Len(rows) /\ DOMAIN rows' = DOMAIN rows
           /\ rows'[i] = r
           /\ \A j \in DOMAIN rows : j # i => rows'[j] = rows[j]
<1>1. i \in 1 .. Len(rows) /\ rows \in Seq(Row)
  BY RowNumbers DEF Types
<1>2. /\ rows' \in Seq(Row) /\ Len(rows') = Len(rows)
      /\ \A j \in 1 .. Len(rows) : rows'[j] = IF j = i THEN r ELSE rows[j]
  BY <1>1, ExceptSeq
<1> QED
  BY <1>1, <1>2, RowNumbers

(* What an executor writes in its row.                                     *)
LEMMA PersistWrites ==
    ASSUME Types, NEW i \in DOMAIN rows, NEW status \in Active \cup Terminal,
           NEW vuln \in BOOLEAN, Persist(i, status, vuln)
    PROVE  \/ rows' = rows
           \/ \E r \in Row : /\ rows' = [rows EXCEPT ![i] = r]
                             /\ r.img = rows[i].img /\ r.created = rows[i].created
                             /\ r.status = status /\ r.started = exec[i].started
<1>1. rows[i] \in Row /\ i \in Runs
  BY RowNumbers
<1>2. exec[i].started \in Nat \cup {Never}
  BY <1>1 DEF Types, Exec
<1> DEFINE r == [rows[i] EXCEPT !.status = status, !.vuln = vuln, !.started = exec[i].started]
<1>3. r \in Row /\ r.img = rows[i].img /\ r.created = rows[i].created
      /\ r.status = status /\ r.started = exec[i].started
  BY <1>1, <1>2 DEF Row
<1>4. rows' = rows \/ rows' = [rows EXCEPT ![i] = r]
  BY DEF Persist
<1> QED
  BY <1>3, <1>4

-----------------------------------------------------------------------------
(* scanGate: a goroutine that joins the holders, or leaves them.           *)
LEMMA HoldersCounted ==
    ASSUME NEW H \in SUBSET Runs, NEW i \in Runs
    PROVE  /\ Cardinality(H) \in Nat
           /\ i \notin H => Cardinality(H \cup {i}) = Cardinality(H) + 1
           /\ i \in H => Cardinality(H \ {i}) = Cardinality(H) - 1 /\ Cardinality(H) > 0
<1>1. IsFiniteSet(Runs)
  BY FS_Interval, ScanRunsAssumption DEF Runs
<1>2. IsFiniteSet(H) /\ Cardinality(H) \in Nat
  BY <1>1, FS_Subset, FS_CardinalityType
<1>3. i \notin H => Cardinality(H \cup {i}) = Cardinality(H) + 1
  BY <1>2, FS_AddElement
<1>4. i \in H => Cardinality(H \ {i}) = Cardinality(H) - 1
  BY <1>2, FS_RemoveElement
<1>5. i \in H => Cardinality(H) # 0
  BY <1>2, FS_EmptySet
<1> QED
  BY <1>2, <1>3, <1>4, <1>5

-----------------------------------------------------------------------------
(* Before the first request there are no rows and no goroutines.           *)
LEMMA InitInv == Init => IInv
<1> SUFFICES ASSUME Init PROVE IInv
  OBVIOUS
<1>1. rows = <<>> /\ rows \in Seq(Row) /\ Len(rows) = 0 /\ DOMAIN rows = {}
  BY EmptySeq DEF Init
<1>2. NotRunning \in Exec
  BY DEF NotRunning, Exec
<1>3. Types
  BY <1>1, <1>2, ScanRunsAssumption DEF Init, Types, Queue
<1>4. Holding = {} /\ \A i \in Runs : exec[i].pc = "none" /\ ~Live(i)
  BY DEF Init, Holding, NotRunning, Live
<1>5. GateInv
  BY <1>4, FS_EmptySet, ScanRunsAssumption DEF Init, GateInv
<1>6. RunInv
  BY <1>1, <1>4 DEF Init, RunInv, ExecsHaveRows, Times, LiveRows, Superseded, InsertInv,
                    OrphanInv, Unlocked
<1> QED
  BY <1>3, <1>5, <1>6 DEF IInv

(* The clock.                                                              *)
LEMMA TickInv == IInv /\ Tick => IInv'
<1> SUFFICES ASSUME IInv, Tick PROVE IInv'
  OBVIOUS
<1> USE RowNumbers DEF IInv
<1>1. now' = now + 1 /\ UNCHANGED <<rows, exec, gate, queue, crashes, orphaned, faulty>>
  BY DEF Tick
<1>2. Types' /\ GateInv' /\ ExecsHaveRows' /\ LiveRows' /\ Superseded' /\ InsertInv'
  BY <1>1 DEF Types, GateInv, Holding, RunInv, ExecsHaveRows, LiveRows, Live, Superseded,
              InsertInv, RunsOf, Spare
<1>3. \A i \in DOMAIN rows : rows[i].created \in Nat
  BY DEF Row
<1>4. Times'
  BY <1>1, <1>3 DEF RunInv, Times, Types, Dated, Holding
<1>5. queue.pc = "orphan" => queue.copy.created \in Nat
  BY QueueKinds DEF Row
<1>6. OrphanInv'
  BY <1>1, <1>5 DEF RunInv, OrphanInv, Types, Dated, RunsOf, Spare
<1> QED
  BY <1>2, <1>4, <1>6 DEF RunInv

(* A set of row numbers has a last one.                                    *)
LEMMA LastExists ==
    ASSUME NEW n \in Nat, NEW S \in SUBSET (1 .. n), S # {}
    PROVE  \E i \in S : \A j \in S : j <= i
<1> DEFINE T == {k \in Nat : n - k \in S}
<1>1. T # {}
  <2>1. PICK j \in S : TRUE
    OBVIOUS
  <2>2. n - j \in Nat /\ n - (n - j) = j
    BY <2>1
  <2> QED
    BY <2>1, <2>2
<1>2. PICK k \in T : \A m \in T : k <= m
  <2> DEFINE less == OpToRel(<, Nat)
  <2>1. IsWellFoundedOn(less, Nat) /\ T \subseteq Nat
    BY NatLessThanWellFounded
  <2>2. \A k, m \in Nat : m < k => <<m, k>> \in less
    BY DEF OpToRel
  <2> HIDE DEF less, T
  <2>3. PICK k \in T : \A m \in T : ~(<<m, k>> \in less)
    BY <1>1, <2>1, WFMin
  <2>4. \A m \in T : ~(m < k)
    BY <2>1, <2>2, <2>3
  <2> QED
    BY <2>1, <2>3, <2>4
<1>3. \A j \in S : n - j \in Nat /\ n - (n - j) = j
  OBVIOUS
<1>4. \A j \in S : n - j \in T
  BY <1>3
<1> QED
  BY <1>2, <1>4

(* GetActiveScanRunByDigest finds a row when there is one.                 *)
LEMMA NewestExists ==
    ASSUME IInv, NEW img \in Image, ActiveRuns(img) # {}
    PROVE  GetActiveScanRunByDigest(img) # {}
<1>1. ActiveRuns(img) \in SUBSET (1 .. Len(rows)) /\ Len(rows) \in Nat
  BY RowNumbers DEF IInv, ActiveRuns, RunsOf
<1>2. PICK i \in ActiveRuns(img) : \A j \in ActiveRuns(img) : j <= i
  BY <1>1, LastExists
<1>3. \A j \in ActiveRuns(img) : rows[j].created \in Nat /\ j \in Nat
  BY RowNumbers DEF IInv, ActiveRuns, RunsOf, Row
<1>4. \A j \in ActiveRuns(img) : rows[j].created <= rows[i].created
  <2> SUFFICES ASSUME NEW j \in ActiveRuns(img), j # i PROVE rows[j].created <= rows[i].created
    BY <1>3
  <2>1. j < i /\ i \in DOMAIN rows /\ j \in DOMAIN rows /\ rows[i].img = rows[j].img
    BY <1>2, <1>3 DEF ActiveRuns, RunsOf
  <2>2. rows[j].status \in Active
    BY DEF ActiveRuns
  <2>3. rows[j].created < rows[i].created
    BY <2>1, <2>2 DEF IInv, RunInv, Superseded
  <2> QED
    BY <2>3, <1>3
<1> QED
  BY <1>4 DEF GetActiveScanRunByDigest, Newest

(* dedupAndQueueScanRun, the query: the newest active row is the last one  *)
(* of its image, and those before it were force-failed.                    *)
LEMMA QueueFindInv == ASSUME IInv, NEW img \in Image, QueueFind(img) PROVE IInv'
<1> USE RowNumbers DEF IInv
<1>1. UNCHANGED <<now, rows, exec, gate, crashes, orphaned, faulty>> /\ queue = Unlocked
  BY DEF QueueFind
<1>0. GateInv' /\ ExecsHaveRows' /\ Times' /\ LiveRows' /\ Superseded'
  BY <1>1 DEF RunInv, GateInv, Holding, ExecsHaveRows, Times, Dated, LiveRows, Live, Superseded
<1>2. CASE queue' = queue
  BY <1>0, <1>1, <1>2 DEF Types, RunInv, InsertInv, OrphanInv, Unlocked
<1>3. CASE GetActiveScanRunByDigest(img) = {} /\ queue' = [pc |-> "insert", img |-> img, row |-> 0]
  <2>1. \A i \in RunsOf(img) : rows[i].status \notin Active
    BY <1>3, NewestExists DEF ActiveRuns
  <2>2. queue' \in Queue
    BY <1>3 DEF Queue
  <2> QED
    BY <1>0, <1>1, <1>3, <2>1, <2>2 DEF Types, RunInv, InsertInv, OrphanInv, RunsOf, Spare
<1>4. ASSUME NEW h \in GetActiveScanRunByDigest(img), scanRunAge(rows[h]) > Timeout,
             queue' = [pc |-> "orphan", img |-> img, row |-> h, copy |-> rows[h]]
      PROVE  IInv'
  <2>1. /\ h \in RunsOf(img) /\ h \in DOMAIN rows /\ rows[h].img = img /\ rows[h].status \in Active
        /\ \A j \in ActiveRuns(img) : rows[j].created <= rows[h].created
    BY <1>4 DEF GetActiveScanRunByDigest, Newest, ActiveRuns, RunsOf
  <2>2. \A j \in DOMAIN rows : j \in Nat /\ rows[j].created \in Nat
    BY DEF Row
  <2>3. queue' \in Queue
    BY <1>4, <2>1 DEF Queue
  <2>4. rows[h].created < now
    <3>1. rows[h].started \in Nat \cup {Never} /\ rows[h].created \in Nat /\ now \in Nat
      BY <2>1 DEF Row, Types
    <3>2. Dated(rows[h])
      BY <2>1 DEF RunInv, Times
    <3> QED
      BY <3>1, <3>2, <1>4, ScanRunsAssumption DEF scanRunAge, Dated, Never
  <2>5. h \in orphaned \/ \A j \in RunsOf(img) : j <= h
    BY <2>1, <2>2 DEF RunInv, Superseded, RunsOf
  <2>6. ASSUME NEW i \in RunsOf(img), i # h PROVE Spare(i)
    <3>1. i \in DOMAIN rows /\ rows[i].img = img
      BY DEF RunsOf
    <3>2. CASE i < h
      BY <2>1, <3>1, <3>2 DEF RunInv, Superseded, Spare
    <3>3. CASE h < i
      <4>1. rows[h].created < rows[i].created
        BY <2>1, <3>1, <3>3 DEF RunInv, Superseded
      <4>2. i \notin ActiveRuns(img)
        BY <2>1, <2>2, <3>1, <4>1
      <4> QED
        BY <4>2, <2>6 DEF ActiveRuns, Spare
    <3> QED
      BY <2>1, <2>2, <2>6, <3>1, <3>2, <3>3
  <2>7. Dated(rows[h])
    BY <2>1 DEF RunInv, Times
  <2>8. OrphanInv'
    BY <1>1, <1>4, <2>1, <2>4, <2>5, <2>6, <2>7 DEF OrphanInv, RunsOf, Spare, Dated
  <2>9. InsertInv' /\ Types'
    BY <1>1, <1>4, <2>3 DEF InsertInv, Types
  <2> QED
    BY <1>0, <2>8, <2>9 DEF RunInv
<1>5. \/ queue' = queue
      \/ GetActiveScanRunByDigest(img) = {} /\ queue' = [pc |-> "insert", img |-> img, row |-> 0]
      \/ \E h \in GetActiveScanRunByDigest(img) :
            /\ ~(scanRunAge(rows[h]) <= Timeout)
            /\ queue' = [pc |-> "orphan", img |-> img, row |-> h, copy |-> rows[h]]
  BY DEF QueueFind
<1>6. \A h \in GetActiveScanRunByDigest(img) :
        scanRunAge(rows[h]) \in Int /\ Timeout \in Int
  BY ScanRunsAssumption DEF GetActiveScanRunByDigest, Newest, ActiveRuns, RunsOf, scanRunAge,
                            Row, Types, Never
<1> QED
  BY <1>2, <1>3, <1>4, <1>5, <1>6

(* dedupAndQueueScanRun, the force-fail: the row is written back as it was *)
(* read, and from now on every row of the image is out of the way.         *)
LEMMA QueueOrphanInv == ASSUME IInv, QueueOrphan PROVE IInv'
<1> DEFINE h == queue.row
           r == [queue.copy EXCEPT !.status = "failed"]
<1> USE RowNumbers DEF IInv
<1>1. /\ queue.pc = "orphan" /\ rows' = [rows EXCEPT ![h] = r]
      /\ orphaned' = orphaned \cup {h} /\ queue' = [pc |-> "insert", img |-> queue.img, row |-> 0]
      /\ UNCHANGED <<now, exec, gate, crashes, faulty>>
  BY DEF QueueOrphan
<1>2. /\ h \in DOMAIN rows /\ rows[h].img = queue.img /\ queue.img \in Image
      /\ r \in Row /\ r.img = rows[h].img /\ r.created = rows[h].created /\ r.created < now
      /\ r.status = "failed" /\ Dated(r)
  BY <1>1, QueueKinds DEF RunInv, OrphanInv, RunsOf, Row, Active, Terminal, Dated
<1>3. /\ rows' \in Seq(Row) /\ Len(rows') = Len(rows) /\ DOMAIN rows' = DOMAIN rows
      /\ rows'[h] = r /\ \A j \in DOMAIN rows : j # h => rows'[j] = rows[j]
  BY <1>1, <1>2, RowWritten
<1>4. /\ h \in orphaned \/ \A j \in RunsOf(queue.img) : j <= h
      /\ \A i \in RunsOf(queue.img) : i # h => Spare(i)
  BY <1>1 DEF RunInv, OrphanInv
<1> HIDE DEF r, h
<1>5. Types'
  BY <1>1, <1>2, <1>3 DEF Types, Queue
<1>6. GateInv' /\ ExecsHaveRows' /\ OrphanInv'
  BY <1>1, <1>3 DEF RunInv, GateInv, Holding, ExecsHaveRows, OrphanInv
<1>7. Times'
  BY <1>1, <1>2, <1>3 DEF RunInv, Times, Dated, Holding, ExecsHaveRows, Types
<1>8. LiveRows'
  BY <1>1, <1>2, <1>3 DEF RunInv, LiveRows, Live, ExecsHaveRows
<1>9. Superseded'
  <2> SUFFICES ASSUME NEW i \in DOMAIN rows, NEW j \in DOMAIN rows, i < j,
                      rows'[i].img = rows'[j].img
               PROVE  \/ i \in orphaned' /\ rows'[i].created < rows'[j].created
                      \/ i \notin orphaned' /\ rows'[i].status \notin Active
    BY <1>3 DEF Superseded
  <2>1. rows[i].img = rows[j].img /\ rows'[i].created = rows[i].created
        /\ rows'[j].created = rows[j].created
    BY <1>2, <1>3
  <2>2. \/ i \in orphaned /\ rows[i].created < rows[j].created
        \/ i \notin orphaned /\ rows[i].status \notin Active
    BY <2>1 DEF RunInv, Superseded
  <2>3. CASE i = h
    BY <1>1, <1>2, <1>4, <2>1, <2>2, <2>3 DEF RunsOf
  <2>4. CASE i # h
    BY <1>1, <1>3, <2>1, <2>2, <2>4
  <2> QED
    BY <2>3, <2>4
<1>10. InsertInv'
  BY <1>1, <1>2, <1>3, <1>4 DEF InsertInv, RunsOf, Spare
<1> QED
  BY <1>5, <1>6, <1>7, <1>8, <1>9, <1>10 DEF RunInv

(* dedupAndQueueScanRun, the insertion.                                    *)
LEMMA QueueInsertInv == ASSUME IInv, QueueInsert PROVE IInv'
<1> DEFINE n == Len(rows) + 1
           r == [img |-> queue.img, status |-> "queued", vuln |-> FALSE, created |-> now,
                 started |-> Never]
<1> USE RowNumbers DEF IInv
<1>1. /\ queue.pc = "insert" /\ Len(rows) < MaxRuns /\ rows' = Append(rows, r)
      /\ exec' = [exec EXCEPT ![n].pc = "gate"] /\ queue' = Unlocked
      /\ UNCHANGED <<now, gate, crashes, orphaned, faulty>>
  BY DEF QueueInsert
<1>2. /\ n \in Runs /\ n <= MaxRuns /\ n \notin DOMAIN rows /\ n \in Nat /\ queue.img \in Image
      /\ r \in Row /\ r.img = queue.img /\ r.created = now /\ r.status = "queued" /\ Dated(r)
  BY <1>1, QueueKinds, ScanRunsAssumption DEF Runs, Row, Active, Types, Dated, Never
<1>3. /\ rows' \in Seq(Row) /\ DOMAIN rows' = DOMAIN rows \cup {n} /\ Len(rows') = n
      /\ rows'[n] = r /\ \A j \in DOMAIN rows : rows'[j] = rows[j]
  <2>1. /\ rows' \in Seq(Row) /\ Len(rows') = n
        /\ \A j \in 1 .. Len(rows) : rows'[j] = rows[j]
        /\ rows'[n] = r
    BY <1>1, <1>2, AppendProperties DEF Types
  <2>2. DOMAIN rows' = 1 .. n
    BY <2>1
  <2> QED
    BY <2>1, <2>2
<1>4. /\ exec' \in [Runs -> Exec] /\ exec'[n].pc = "gate"
      /\ \A i \in Runs : i # n => exec'[i] = exec[i]
      /\ exec[n].pc = "none"
  BY <1>1, <1>2 DEF Types, Exec, RunInv, ExecsHaveRows
<1>5. \A i \in DOMAIN rows : i < n /\ i # n
  BY <1>2
<1> HIDE DEF n, r
<1>6. Types'
  BY <1>1, <1>2, <1>3, <1>4 DEF Types, Queue
<1>7. Holding' = Holding
  BY <1>2, <1>4 DEF Holding
<1>8. GateInv' /\ ExecsHaveRows' /\ OrphanInv' /\ InsertInv'
  BY <1>1, <1>3, <1>4, <1>7 DEF RunInv, GateInv, ExecsHaveRows, OrphanInv, InsertInv, Unlocked
<1>9. Times'
  <2>1. \A i \in Holding : i # n /\ i \in DOMAIN rows /\ i \in Runs
    BY <1>4 DEF Holding, RunInv, ExecsHaveRows
  <2> QED
    BY <1>1, <1>2, <1>3, <1>4, <1>5, <1>7, <2>1 DEF RunInv, Times, Types, Dated
<1>10. LiveRows'
  BY <1>1, <1>2, <1>3, <1>4 DEF RunInv, LiveRows, Live, ExecsHaveRows, Active
<1>11. Superseded'
  <2> SUFFICES ASSUME NEW i \in DOMAIN rows', NEW j \in DOMAIN rows', i < j,
                      rows'[i].img = rows'[j].img
               PROVE  \/ i \in orphaned /\ rows'[i].created < rows'[j].created
                      \/ i \notin orphaned /\ rows'[i].status \notin Active
    BY <1>1 DEF Superseded
  <2>1. i \in DOMAIN rows
    BY <1>2, <1>3, <1>5
  <2>2. CASE j = n
    <3>1. Spare(i)
      BY <1>1, <1>2, <1>3, <2>1, <2>2 DEF RunInv, InsertInv, RunsOf
    <3>2. i \in orphaned => rows[i].created < now
      BY DEF RunInv, Times
    <3> QED
      BY <1>2, <1>3, <2>1, <2>2, <3>1, <3>2 DEF Spare
  <2>3. CASE j # n
    BY <1>3, <2>1, <2>3 DEF RunInv, Superseded
  <2> QED
    BY <2>2, <2>3
<1> QED
  BY <1>6, <1>8, <1>9, <1>10, <1>11 DEF RunInv

(* A store call fails, and the call lets go of scanQueueMu.                *)
LEMMA QueueFailInv == ASSUME IInv, QueueFail PROVE IInv'
<1>1. queue' = Unlocked /\ UNCHANGED <<now, rows, exec, gate, crashes, orphaned, faulty>>
  BY DEF QueueFail
<1>2. Types' /\ GateInv'
  BY <1>1 DEF IInv, Types, Queue, GateInv, Holding
<1>3. RunInv'
  BY <1>1 DEF IInv, RunInv, ExecsHaveRows, Times, Dated, Holding, LiveRows, Live, Superseded,
              InsertInv, OrphanInv, Unlocked
<1> QED
  BY <1>2, <1>3 DEF IInv

-----------------------------------------------------------------------------
(* executeScanRun behind the gate.                                         *)
LEMMA AcquireGateInv == ASSUME IInv, NEW i \in Runs, AcquireGate(i) PROVE IInv'
<1> USE DEF IInv
<1>1. /\ exec[i].pc = "gate" /\ gate < MaxConcurrency /\ gate' = gate + 1
      /\ exec' = [exec EXCEPT ![i] = [pc |-> "start", started |-> now]]
      /\ UNCHANGED <<now, rows, queue, crashes, orphaned, faulty>>
  BY DEF AcquireGate
<1>2. exec' \in [Runs -> Exec] /\ \A j \in Runs : j # i => exec'[j] = exec[j]
  BY <1>1 DEF Types, Exec
<1>3. exec'[i].pc = "start" /\ exec'[i].started = now
  BY <1>1 DEF Types
<1>4. Holding' = Holding \cup {i} /\ i \notin Holding
  BY <1>1, <1>2, <1>3 DEF Holding
<1>5. GateInv'
  <2>1. Holding \in SUBSET Runs
    BY DEF Holding
  <2>2. Cardinality(Holding') = Cardinality(Holding) + 1 /\ Cardinality(Holding) \in Nat
    BY <1>4, <2>1, HoldersCounted
  <2> QED
    BY <1>1, <2>2, ScanRunsAssumption DEF GateInv
<1>6. Types' /\ Superseded' /\ InsertInv' /\ OrphanInv'
  BY <1>1, <1>2 DEF Types, RunInv, Superseded, InsertInv, OrphanInv, RunsOf, Spare, Dated
<1>7. ExecsHaveRows' /\ LiveRows'
  BY <1>1, <1>2, <1>3 DEF RunInv, ExecsHaveRows, LiveRows, Live
<1>8. Times'
  <2>1. i \in DOMAIN rows
    BY <1>1 DEF RunInv, ExecsHaveRows
  <2> QED
    BY <1>1, <1>2, <1>3, <1>4, <2>1 DEF RunInv, Times, Dated, Holding
<1> QED
  BY <1>5, <1>6, <1>7, <1>8 DEF RunInv

(* An executor writes its row, or fails to, and goes on to the scan or to  *)
(* its end.  Only a force-failed row can become active in this way.        *)
LEMMA ExecutorWrites ==
    ASSUME IInv, NEW i \in Holding, NEW status \in Active \cup Terminal, NEW vuln \in BOOLEAN,
           Persist(i, status, vuln), NEW pc \in {"scan", "done"},
           exec' = [exec EXCEPT ![i].pc = pc],
           pc = "scan" => status = "running", pc = "done" => status \in Terminal,
           UNCHANGED <<now, queue, crashes, orphaned, faulty>>
    PROVE  Types' /\ RunInv'
<1> USE DEF IInv
<1>1. i \in Runs /\ i \in DOMAIN rows /\ Live(i) /\ rows[i] \in Row
  BY RowNumbers DEF Holding, RunInv, ExecsHaveRows, Live
<1>2. /\ exec' \in [Runs -> Exec] /\ \A j \in Runs : j # i => exec'[j] = exec[j]
      /\ exec'[i].pc = pc /\ exec'[i].started = exec[i].started
  BY <1>1 DEF Types, Exec
<1>3. /\ rows' \in Seq(Row) /\ Len(rows') = Len(rows) /\ DOMAIN rows' = DOMAIN rows
      /\ \A j \in DOMAIN rows : j # i => rows'[j] = rows[j]
      /\ rows'[i].img = rows[i].img /\ rows'[i].created = rows[i].created
      /\ \/ rows'[i] = rows[i]
         \/ rows'[i].status = status /\ rows'[i].started = exec[i].started
  <2>1. CASE rows' = rows
    BY <2>1 DEF Types
  <2>2. CASE rows' # rows
    <3>1. PICK r \in Row : /\ rows' = [rows EXCEPT ![i] = r]
                           /\ r.img = rows[i].img /\ r.created = rows[i].created
                           /\ r.status = status /\ r.started = exec[i].started
      BY <1>1, <2>2, PersistWrites
    <3> QED
      BY <1>1, <3>1, RowWritten
  <2> QED
    BY <2>1, <2>2
<1>4. i \notin orphaned => rows[i].status \in Active
  BY <1>1 DEF RunInv, LiveRows
<1>5. \A j \in DOMAIN rows : /\ rows'[j].img = rows[j].img /\ rows'[j].created = rows[j].created
                             /\ Spare(j) => Spare(j)'
  BY <1>3, <1>4 DEF Spare
<1>6. Types' /\ ExecsHaveRows'
  BY <1>1, <1>2, <1>3 DEF Types, RunInv, ExecsHaveRows
<1>7. Times'
  <2>1. rows[i].created <= exec[i].started /\ Dated(rows[i])
    BY <1>1 DEF RunInv, Times
  <2>2. \A j \in DOMAIN rows : Dated(rows'[j])
    BY <1>3, <2>1 DEF RunInv, Times, Dated
  <2>3. \A j \in Holding' : j \in Holding /\ j \in DOMAIN rows /\ exec'[j].started = exec[j].started
    BY <1>1, <1>2 DEF Holding, RunInv, ExecsHaveRows
  <2> QED
    BY <1>3, <1>5, <2>2, <2>3 DEF RunInv, Times, Types
<1>8. LiveRows'
  BY <1>1, <1>2, <1>3, <1>4 DEF RunInv, LiveRows, Live, Active, Terminal, ExecsHaveRows
<1>9. Superseded'
  BY <1>3, <1>4, <1>5 DEF RunInv, Superseded
<1>10. InsertInv' /\ OrphanInv'
  BY <1>3, <1>5 DEF RunInv, InsertInv, OrphanInv, RunsOf
<1> QED
  BY <1>6, <1>7, <1>8, <1>9, <1>10 DEF RunInv

(* executeScanRun marks its row running, or fails to and gives up.         *)
LEMMA StartRunInv == ASSUME IInv, NEW i \in Runs, StartRun(i) PROVE IInv'
<1>1. i \in Holding /\ Types
  BY DEF StartRun, Holding, IInv
<1>2. Types' /\ RunInv'
  BY <1>1, ExecutorWrites DEF StartRun, Active
<1>3. Holding' = Holding
  BY <1>1 DEF StartRun, Holding, Types, Exec
<1> QED
  BY <1>2, <1>3 DEF IInv, GateInv, StartRun

(* executeScanRun persists its result and releases the gate.              *)
LEMMA FinishRunInv == ASSUME IInv, NEW i \in Runs, FinishRun(i) PROVE IInv'
<1>1. i \in Holding /\ Types
  BY DEF FinishRun, Holding, IInv
<1>2. Types' /\ RunInv'
  BY <1>1, ExecutorWrites DEF FinishRun, Terminal
<1>3. Holding' = Holding \ {i}
  BY <1>1 DEF FinishRun, Holding, Types, Exec
<1>4. GateInv'
  <2>1. Holding \in SUBSET Runs
    BY DEF Holding
  <2>2. /\ Cardinality(Holding') = Cardinality(Holding) - 1
        /\ Cardinality(Holding) \in Nat /\ Cardinality(Holding) > 0
    BY <1>1, <1>3, <2>1, HoldersCounted
  <2>3. gate = Cardinality(Holding) /\ gate <= MaxConcurrency /\ MaxConcurrency \in Nat
    BY ScanRunsAssumption DEF IInv, GateInv
  <2>4. gate' = IF gate > 0 THEN gate - 1 ELSE gate
    BY DEF FinishRun
  <2>5. gate' = Cardinality(Holding') /\ gate' <= MaxConcurrency
    BY <2>2, <2>3, <2>4
  <2> QED
    BY <2>5 DEF GateInv
<1> QED
  BY <1>2, <1>4 DEF IInv

(* The server starts again with the rows alone.                            *)
LEMMA RestartInv == IInv /\ Restart => IInv'
<1> SUFFICES ASSUME IInv, Restart PROVE IInv'
  OBVIOUS
<1> USE DEF IInv
<1>1. /\ crashes' \in 0 .. MaxCrashes /\ exec' = [i \in Runs |-> NotRunning] /\ gate' = 0
      /\ queue' = Unlocked /\ UNCHANGED <<now, rows, orphaned, faulty>>
  BY ScanRunsAssumption DEF Restart, Types
<1>2. exec' \in [Runs -> Exec] /\ \A i \in Runs : exec'[i].pc = "none"
  BY <1>1 DEF NotRunning, Exec
<1>3. Types'
  BY <1>1, <1>2 DEF Types, Queue
<1>4. Holding' = {}
  BY <1>2 DEF Holding
<1>5. GateInv'
  BY <1>1, <1>4, FS_EmptySet, ScanRunsAssumption DEF GateInv
<1>6. RunInv'
  BY <1>1, <1>2, <1>4 DEF RunInv, ExecsHaveRows, Times, Dated, LiveRows, Live, Superseded,
                          InsertInv, OrphanInv, Unlocked
<1> QED
  BY <1>3, <1>5, <1>6

(* Every step of the requests and executors keeps the invariant.           *)
LEMMA StepInv == IInv /\ [Next]_vars => IInv'
<1> SUFFICES ASSUME IInv, [Next]_vars PROVE IInv'
  OBVIOUS
<1>1. CASE UNCHANGED vars
  BY <1>1 DEF vars, IInv, Types, GateInv, Holding, RunInv, ExecsHaveRows, Times, Dated, LiveRows,
              Live, Superseded, InsertInv, OrphanInv, RunsOf, Spare
<1> QED
  BY <1>1, TickInv, QueueFindInv, QueueOrphanInv, QueueInsertInv, QueueFailInv, AcquireGateInv,
     StartRunInv, FinishRunInv, RestartInv DEF Next, QueueStep, ExecStep

(* The inductive invariant holds throughout.                               *)
LEMMA InvAlways == Spec => []IInv
BY InitInv, StepInv, PTL DEF Spec

-----------------------------------------------------------------------------
(* scanGate, for any max_concurrency: its counter is the number of runs    *)
(* between acquire and release, and never above the limit.                 *)
THEOREM TypeCorrect == Spec => []TypeOK
<1>1. IInv => TypeOK
  BY DEF IInv, Types, GateInv, TypeOK
<1> QED
  BY <1>1, InvAlways, PTL

(* dedupAndQueueScanRun, with restarts, failing writes and force-failed    *)
(* runs that come back: two runs of an image are in flight only if all but *)
(* the last were found older than their timeout.                           *)
THEOREM DuplicatesAreOverdue == Spec => []DuplicateOnlyIfOverdue
<1>1. ASSUME IInv PROVE DuplicateOnlyIfOverdue
  <2> SUFFICES ASSUME NEW i \in Runs, NEW j \in Runs, i < j, Live(i), Live(j),
                      rows[i].img = rows[j].img
               PROVE  i \in orphaned
    BY DEF DuplicateOnlyIfOverdue
  <2>1. i \in DOMAIN rows /\ j \in DOMAIN rows
    BY <1>1 DEF IInv, RunInv, ExecsHaveRows, Live
  <2> QED
    BY <1>1, <2>1 DEF IInv, RunInv, Superseded, LiveRows
<1> QED
  BY <1>1, InvAlways, PTL

(* executeScanRun never writes over a completed row; only a force-fail     *)
(* that had read the row before does.                                      *)
THEOREM ResultsKept == Spec => CompletedKept
<1>1. ASSUME IInv, [Next]_vars, NEW i \in DOMAIN rows, rows[i].status = "completed"
      PROVE  \/ rows'[i] = rows[i]
             \/ queue.pc = "orphan" /\ queue.row = i /\ queue.copy.status \in Active
  <2> USE <1>1, RowNumbers DEF IInv
  <2>1. CASE rows' = rows
    BY <2>1
  <2>2. CASE QueueOrphan
    <3>1. queue.pc = "orphan" /\ rows' = [rows EXCEPT ![queue.row] = [queue.copy EXCEPT !.status = "failed"]]
      BY <2>2 DEF QueueOrphan
    <3> QED
      BY <3>1 DEF RunInv, OrphanInv
  <2>3. CASE QueueInsert
    <3>1. /\ rows \in Seq(Row) /\ i \in 1 .. Len(rows)
          /\ \E x : rows' = Append(rows, x)
      BY <2>3 DEF QueueInsert, Types
    <3> QED
      BY <3>1
  <2>4. ASSUME NEW k \in Runs, StartRun(k) \/ FinishRun(k) PROVE rows'[i] = rows[i]
    <3>1. Live(k)
      BY <2>4 DEF StartRun, FinishRun, Live
    <3>2. k # i
      BY <3>1 DEF RunInv, LiveRows
    <3>3. rows' = rows \/ \E x : rows' = [rows EXCEPT ![k] = x]
      BY <2>4 DEF StartRun, FinishRun, Persist
    <3> QED
      BY <3>2, <3>3
  <2> QED
    BY <2>1, <2>2, <2>3, <2>4 DEF Next, QueueStep, ExecStep, Tick, QueueFind, QueueFail,
                                  AcquireGate, Restart, vars
<1>2. IInv /\ [Next]_vars =>
        [\A i \in DOMAIN rows : rows[i].status = "completed" =>
            \/ rows'[i] = rows[i]
            \/ queue.pc = "orphan" /\ queue.row = i /\ queue.copy.status \in Active]_vars
  BY <1>1
<1> QED
  BY <1>2, InvAlways, PTL DEF Spec, CompletedKept
=============================================================================
