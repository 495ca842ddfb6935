-------------------------- MODULE MCUploadSession --------------------------
(***************************************************************************)
(* Instances of UploadSession for TLC: two uploads of one piece each, or a *)
(* single one of more.                                                     *)
(***************************************************************************)
EXTENDS UploadSession, FiniteSets, TLC

Bounded ==
    \/ Cardinality(used) <= 1
    \/ /\ \A u \in Upload : Len(content[u]) <= 1
       /\ \A q \in Req : Len(req[q].body) <= 1 /\ Len(req[q].digest) <= 1

BoundedNext == Next /\ Bounded'
BoundedSpec == Init /\ [][BoundedNext]_vars

Symmetry == Permutations(Upload) \cup Permutations(Req)
=============================================================================
