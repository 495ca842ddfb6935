------------------------------ MODULE MCScans ------------------------------
(***************************************************************************)
(* Instances of ScanRuns and ScanScheduler for TLC, in one run.  They      *)
(* share no state: a behaviour is one of one of them, side says which, and *)
(* the other stays in one of its initial states.                           *)
(***************************************************************************)
EXTENDS ScanRuns, ScanScheduler

VARIABLE side

scansVars == <<vars, schedulerVars, side>>

ScansInit ==
    /\ side \in {"runs", "scheduler"}
    /\ Init /\ SchedulerInit
    /\ side = "scheduler" => ~faulty
    /\ side = "runs" => ~enabled /\ owner = CHOOSE o \in Owner : TRUE

\* A step A of one side.
OfRuns(A) == side = "runs" /\ A /\ UNCHANGED <<schedulerVars, side>>
OfScheduler(A) == side = "scheduler" /\ A /\ UNCHANGED <<vars, side>>

ScansNext ==
    \/ side = "runs" /\ Next /\ UNCHANGED <<schedulerVars, side>>
    \/ side = "scheduler" /\ SchedulerNext /\ UNCHANGED <<vars, side>>

\* The fairness of FairSpec and of FairSchedulerSpec, each on its side.
FairScansSpec ==
    /\ ScansInit /\ [][ScansNext]_scansVars
    /\ WF_scansVars(OfRuns(Tick))
    /\ WF_scansVars(OfRuns(QueueStep))
    /\ \A i \in Runs : WF_scansVars(OfRuns(ExecStep(i)))
    /\ \A img \in Image : SF_scansVars(OfRuns(QueueFind(img)))
    /\ WF_scansVars(OfScheduler(RunLoop))
    /\ WF_scansVars(OfScheduler(TimePasses))

TwoRepos == <<"a", "b">>
=============================================================================
