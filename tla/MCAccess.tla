------------------------------ MODULE MCAccess ------------------------------
(* Three accounts and what they may do, the paths that lead to it, and the *)
(* requests that change accounts, in one run.  UserAdmin shares no state   *)
(* with the other two: a behaviour is one of one of them, side says which, *)
(* and the other stays in one of its initial states.                       *)
EXTENDS Access, Routes, UserAdmin, TLC

CONSTANTS ann, bob, rob

MCRepoName ==
    SeqOf({"a", "blobs", "uploads", "manifests", "tags", "list", "listing", "mytags", "referrers", "grants",
           "repository-overrides"}, 3) \ {<<>>}
MCLonger == {<<"listing", "list">>}
MCCompound == {<<"mytags", "tags", "my">>}

VARIABLE side

IdentityInit ==
    /\ side \in {"access", "accounts"}
    /\ AccessInit /\ Init
    /\ side = "accounts" => controller.kind = "local"
    \* Any name is tried where nothing else goes on.
    /\ requested \in IF side = "access" /\ controller.kind = "local" THEN RepoName ELSE {<<>>}
IdentityNext ==
    /\ UNCHANGED <<requested, side>>
    /\ \/ side = "access" /\ AccessNext /\ UNCHANGED vars
       \/ side = "accounts" /\ Next /\ UNCHANGED accessVars
IdentitySpec == IdentityInit /\ [][IdentityNext]_<<accessVars, requested, vars, side>>
Symmetry == Permutations(Operator)
=============================================================================
