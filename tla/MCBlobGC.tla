------------------------------ MODULE MCBlobGC ------------------------------
(***************************************************************************)
(* Instances of BlobGC for TLC: two manifests that share one blob.         *)
(***************************************************************************)
EXTENDS BlobGC, TLC

CONSTANTS b1, m1, m2, p1, p2, g1, g2

MCRefs == (m1 :> {b1}) @@ (m2 :> {b1})

\* Pushes against one GC request at a time, or two GC requests on two
\* reports over a shorter time, without pushes.
VARIABLE side
Bounded ==
    CASE side = "pushes" -> gc[p2] = IdleGC /\ gc[p1].rep # g2 /\ report[g2] = NoRow
      [] side = "reports" -> (\A c \in Client : push[c] = IdlePush) /\ now <= 2

SidesInit == Init /\ side \in {"pushes", "reports"}
SidesNext == Next /\ UNCHANGED side /\ Bounded'
FairSidesSpec ==
    /\ SidesInit /\ [][SidesNext]_<<vars, side>>
    /\ \A p \in Proc : WF_<<vars, side>>(GCStep(p) /\ UNCHANGED side /\ Bounded')
=============================================================================
