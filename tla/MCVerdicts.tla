----------------------------- MODULE MCVerdicts -----------------------------
(* The settings with everything that reads them: pulls, statuses and secret *)
(* scans, on small sets of signatures and of request bodies.                *)
EXTENDS PullGate, SecretScans, TLC

CONSTANTS k1, stranger

MCIdentity == {[regexp |-> {"ci"}, issuer |-> "git"]}
MCPolicyInput ==
    {[enabled |-> TRUE,  keys |-> {k1}, ids |-> <<>>, self |-> "off"],
     [enabled |-> TRUE,  keys |-> {},   ids |-> <<[regexp |-> {"ci"}, issuer |-> "git"]>>, self |-> "pusher"],
     [enabled |-> TRUE,  keys |-> {},   ids |-> <<>>, self |-> "off"],
     [enabled |-> FALSE, keys |-> {k1}, ids |-> <<>>, self |-> "repo_push"]}
MCScanPolicyInput == {[enabled |-> TRUE, threshold |-> "CRITICAL_HIGH"],
                      [enabled |-> FALSE, threshold |-> "CRITICAL"]}
MCScannerInput == {[enabled |-> TRUE, schedule |-> FALSE], [enabled |-> FALSE, schedule |-> TRUE]}
MCEntry == {[payload |-> "ok", by |-> k1, binds |-> TRUE],
            [payload |-> "ok", by |-> stranger, binds |-> TRUE]}
MCBundle == <<[subject |-> "image", layer |-> TRUE, doc |-> "ok", by |-> k1, binds |-> FALSE, cert |-> NoCert],
              [subject |-> "image", layer |-> TRUE, doc |-> "ok", by |-> k1, binds |-> TRUE, cert |-> NoCert],
              [subject |-> "image", layer |-> TRUE, doc |-> "ok", by |-> stranger, binds |-> TRUE,
               cert |-> [san |-> "ci", issuer |-> "git"]]>>
MCPrincipal == {[id |-> "ann", grantedWrite |-> FALSE], [id |-> "bob", grantedWrite |-> TRUE]}

\* The gates and the scanners read different rows: a behaviour explores the
\* one side or the other.  "legs" has one change more, makes all but the first
\* one the start of a secret scan, and asks for no status.
VARIABLE side
allVars == <<policyVars, pullVars, secretVars, side>>
Init == PolicyInit /\ PullInit /\ SecretInit /\ side \in {"pulls", "secrets", "legs"}
Next == /\ UNCHANGED side
        /\ side = "legs" \/ changes < MaxChanges - 1 \/ UNCHANGED changes
        /\ \/ side = "pulls" /\ PullNext /\ UNCHANGED secretVars
           \/ side # "pulls" /\ SecretNext /\ UNCHANGED pullVars
        /\ side = "legs" => /\ changes = 0 \/ UNCHANGED changes \/ legs' # legs
                            /\ UNCHANGED ask
Spec == Init /\ [][Next]_allVars
Symmetry == Permutations(Leg) \cup Permutations(Admin)
=============================================================================
