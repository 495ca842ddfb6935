------------------------------ MODULE PullGate ------------------------------
(***************************************************************************)
(* The gates of a pull and the endpoints that foretell them, for one image *)
(* of one repository.  A request reads the settings, the latest scan run   *)
(* and the signature artifacts in separate queries, so policies, scans and *)
(* signatures may change between any two of them.                          *)
(*                                                                         *)
(*   internal/app/regixtry/queries.go            OpenManifest, *Status     *)
(*   internal/app/regixtry/service_signing.go    enforceSigningPolicy      *)
(*   internal/app/regixtry/service_scanning.go   enforceScanPolicy         *)
(*   internal/app/regixtry/service_signing_key_usage.go                    *)
(*   internal/domain/signing                     what a signature proves   *)
(*                                                                         *)
(* A legacy signature is an entry of the manifest at <digest>.sig; a       *)
(* bundle is a manifest of its own, found through the index at the digest  *)
(* tag or as a referrer.  Bundles are numbered in the order of their       *)
(* digests.  Checking a signature is external: an entry or bundle says     *)
(* whose key signed it, and whether it binds this image.                   *)
(***************************************************************************)
EXTENDS Policy

CONSTANTS
    Entry,       \* legacy entries: [payload, by, binds]
    Bundle,      \* bundles 1..n: [subject, layer, doc, by, binds, cert]
    Principal,   \* who pulls: [id, grantedWrite]
    Pusher,      \* the id of whoever pushed the image, or ""
    NoManifest,  \* the tag does not resolve
    Garbled,     \* the manifest does not parse
    NoCert,      \* the bundle carries no certificate
    NoPrincipal  \* an anonymous request

ASSUME PullGateAssumption ==
    /\ NoPrincipal \notin Principal /\ NoManifest # Garbled
    /\ \A e \in Entry : DOMAIN e = {"payload", "by", "binds"} /\ e.binds \in BOOLEAN
    /\ \A b \in DOMAIN Bundle :
          /\ b \in Nat /\ DOMAIN Bundle[b] = {"subject", "layer", "doc", "by", "binds", "cert"}
          /\ Bundle[b].layer \in BOOLEAN /\ Bundle[b].binds \in BOOLEAN

VARIABLES
    sig,        \* the manifest at <digest>.sig: its entries
    index,      \* the manifest at the digest tag: the bundles it lists
    bundles,    \* bundle manifests in the repository
    run,        \* the image's latest scan run
    rd,         \* the request that is being answered
    ghost       \* what held while it was answered, for the properties

stored == [signing |-> signing, override |-> override["signing"], scanPolicy |-> scanPolicy,
           run |-> run, sig |-> sig, index |-> index, bundles |-> bundles]
pullVars == <<sig, index, bundles, run, rd, ghost>>

ScanRun == [status : {"queued", "running", "failed"}, critical : {0}, high : {0}]
           \cup [status : {"completed"}, critical : {0, 1}, high : {0, 1}]

NoMatch == [key |-> "", identity |-> ""]
Idle == [pc |-> "idle"]
Request(op, who) ==
    [pc |-> "scanPolicy", op |-> op, who |-> who, scanPolicy |-> NotStored, policy |-> NotStored,
     todo |-> <<>>, rows |-> {}, sawIndex |-> FALSE, state |-> "", match |-> NoMatch,
     answer |-> "", count |-> 0]

-----------------------------------------------------------------------------
(* Pure parts.                                                             *)

scanPolicyViolated(settings, r) ==
    /\ settings.enabled
    /\ r.status = "completed"
    /\ r.critical > 0 \/ (settings.threshold = "CRITICAL_HIGH" /\ r.high > 0)

ScanBlocks(p, r) == r # NotStored /\ scanPolicyViolated(GetScanPolicySettings(p), r)

\* openSignaturePayload: no payload, or one over the limit, is skipped.
Readable(x) == x = "ok"

\* VerifyKeyless: a configured identity matches the certificate's name and
\* issuer, and the bundle is about this image.
VerifyKeyless(b, ids) ==
    /\ b.cert # NoCert
    /\ b.binds
    /\ \E i \in DOMAIN ids : b.cert.san \in ids[i].regexp /\ b.cert.issuer = ids[i].issuer

\* composeVerifiedIdentity: the issuer of the first identity whose pattern
\* matches the name.
composeVerifiedIdentity(cert, ids) ==
    LET matching == {i \in DOMAIN ids : cert.san \in ids[i].regexp}
        first == CHOOSE i \in matching : \A j \in matching : i <= j
    IN  ids[first].issuer

\* Mutant: a bundle of a trusted key is accepted whatever it binds.
tryVerifyBundleReferrerCandidate_NoClaims(b, policy) ==
    IF b.subject # "image" \/ ~b.layer \/ ~Readable(b.doc) THEN "skip"
    ELSE IF b.by \in policy.keys THEN "verified"
    ELSE IF VerifyKeyless(b, policy.ids) THEN "identity" ELSE "skip"

\* tryVerifyBundleReferrerCandidate: the outcome of one candidate.
tryVerifyBundleReferrerCandidate(b, policy) ==
    IF b.subject # "image" \/ ~b.layer \/ ~Readable(b.doc) THEN "skip"
    ELSE IF b.by \in policy.keys THEN IF b.binds THEN "verified" ELSE "mismatched"
    ELSE IF VerifyKeyless(b, policy.ids) THEN "identity" ELSE "skip"

\* The outcome of one entry of the legacy manifest: keys only.
TryEntry(e, policy) ==
    IF ~Readable(e.payload) \/ e.by \notin policy.keys THEN "skip"
    ELSE IF e.binds THEN "verified" ELSE "mismatched"

\* Mutant: a legacy manifest that has no match hides nothing: bundles alone count.
keyUsageMatches_BundlesOnly(k) ==
    /\ index \notin {NoManifest, Garbled}
    /\ \E b \in Range(index) \cap bundles :
          /\ Bundle[b].subject = "image" /\ Bundle[b].layer
          /\ Readable(Bundle[b].doc) /\ Bundle[b].by = k /\ Bundle[b].binds

\* keyUsageMatches and keyUsageMatchesBundle: does the image count as signed
\* by this key?  Referrers are not looked at.
keyUsageMatches(k) ==
    IF sig # NoManifest
    THEN sig # Garbled /\ \E e \in Range(sig) : Readable(e.payload) /\ e.by = k /\ e.binds
    ELSE /\ index \notin {NoManifest, Garbled}
         /\ \E b \in Range(index) \cap bundles :
               /\ Bundle[b].subject = "image" /\ Bundle[b].layer
               /\ Readable(Bundle[b].doc) /\ Bundle[b].by = k /\ Bundle[b].binds

\* Mutant: only the legacy manifest is looked at.
resolveSignatureManifestEntries_LegacyOnly ==
    IF sig \in {NoManifest, Garbled} THEN 0 ELSE Len(sig)

\* resolveSignatureManifestEntries: how many signatures the status reports.
resolveSignatureManifestEntries ==
    IF sig # NoManifest THEN IF sig = Garbled THEN 0 ELSE Len(sig)
    ELSE IF index \in {NoManifest, Garbled} THEN 0
    ELSE Cardinality({i \in DOMAIN index :
                         /\ index[i] \in bundles
                         /\ Bundle[index[i]].subject = "image" /\ Bundle[index[i]].layer})

\* The exemptions of unsigned_self_read.
SelfRead(policy, who) ==
    /\ who # NoPrincipal
    /\ \/ policy.self = "pusher" /\ Pusher # "" /\ who.id = Pusher
       \/ policy.self = "repo_push" /\ who.grantedWrite

-----------------------------------------------------------------------------
(* The request.                                                            *)

Unseen == [policies |-> {}, sigs |-> {}, open |-> FALSE, wrote |-> {}]
Signatures == (IF sig \in {NoManifest, Garbled} THEN {} ELSE Range(sig))
              \cup {Bundle[b] : b \in bundles}
Answering == rd.pc \notin {"idle", "done"}
Changed == {x \in DOMAIN stored : stored'[x] # stored[x]}

\* What a step of anybody else adds to what held during the request.  An
\* answer is looked at before the next such step.
Observe ==
    /\ rd' = IF rd.pc = "done" THEN Idle ELSE rd
    /\ ghost' = IF ~Answering THEN Unseen
             ELSE [policies |-> ghost.policies \cup {EffectiveSigning'},
                   sigs |-> ghost.sigs \cup Signatures',
                   open |-> ghost.open \/ ~ScanBlocks(scanPolicy', run'),
                   wrote |-> ghost.wrote \cup Changed]

Start(op, who) ==
    /\ rd.pc \in {"idle", "done"}
    /\ rd' = [Request(op, who) EXCEPT !.pc = IF op = "sigStatus" THEN "policy" ELSE @]
    /\ ghost' = [policies |-> {EffectiveSigning}, sigs |-> Signatures,
                 open |-> ~ScanBlocks(scanPolicy, run), wrote |-> {}]

Goto(pc) == rd' = [rd EXCEPT !.pc = pc]
Answer(a) == rd' = [rd EXCEPT !.pc = "done", !.answer = a]
At(pc) == rd.pc = pc /\ UNCHANGED <<sig, index, bundles, run, ghost>>

\* enforceScanPolicy and ScanStatus: the settings, then the latest run.
ReadScanPolicy ==
    /\ At("scanPolicy")
    /\ rd' = [rd EXCEPT !.pc = "scanRun", !.scanPolicy = scanPolicy]

enforceScanPolicy ==
    /\ At("scanRun")
    /\ IF rd.op = "pull"
       THEN IF ScanBlocks(rd.scanPolicy, run) THEN Answer("blocked") ELSE Goto("policy")
       ELSE Answer(IF run = NotStored THEN "unscanned"
                   ELSE IF run.status \in {"queued", "running"} THEN "in_progress"
                   ELSE IF run.status = "failed" THEN "failed"
                   ELSE IF ScanBlocks(rd.scanPolicy, run) THEN "blocked" ELSE "clean")

ReadSigningPolicy ==
    /\ At("policy")
    /\ rd' = [rd EXCEPT !.pc = "override", !.policy = GetSigningPolicySettings(signing)]

\* The end of verifySignature: the gate's answer, or the status report.
Settle(state, match) ==
    rd' = [rd EXCEPT !.state = state, !.match = match, !.todo = <<>>, !.rows = {},
                     !.pc = IF rd.op = "sigStatus" /\ state # "unsigned" THEN "detail" ELSE "done",
                     !.answer = IF rd.op = "sigStatus" THEN state
                                ELSE IF state = "verified" \/ SelfRead(rd.policy, rd.who)
                                THEN "allow" ELSE "deny"]

\* applySigningRepositoryOverride; the status verifies even if the gate is off.
enforceSigningPolicy ==
    /\ At("override")
    /\ LET policy == applySigningRepositoryOverride(rd.policy, override["signing"])
       IN  IF rd.op = "pull" /\ ~policy.enabled
           THEN rd' = [rd EXCEPT !.pc = "done", !.policy = policy, !.answer = "allow"]
           ELSE rd' = [rd EXCEPT !.pc = "anchors", !.policy = policy]

\* verifySignature: without an anchor nothing is looked up; otherwise the
\* legacy manifest, or the bundles if there is none.
verifySignature ==
    /\ At("anchors")
    /\ IF rd.policy.keys = {} /\ rd.policy.ids = <<>> THEN Settle("unverifiable", NoMatch)
       ELSE IF sig = NoManifest THEN Goto("index")
       ELSE IF sig = Garbled THEN Settle("unverifiable", NoMatch)
       ELSE rd' = [rd EXCEPT !.pc = "entries", !.todo = sig]

KeyMatch(x) == [key |-> x.by, identity |-> ""]

VerifyEntry ==
    /\ At("entries")
    /\ IF rd.todo = <<>> THEN Settle("untrusted", NoMatch)
       ELSE LET e == Head(rd.todo) IN
            CASE TryEntry(e, rd.policy) = "skip" -> rd' = [rd EXCEPT !.todo = Tail(@)]
              [] TryEntry(e, rd.policy) = "mismatched" -> Settle("mismatched", NoMatch)
              [] OTHER -> Settle("verified", KeyMatch(e))

\* verifyBundleSignature: the index first, ...
verifyBundleSignature ==
    /\ At("index")
    /\ IF index = NoManifest THEN Goto("referrers")
       ELSE IF index = Garbled THEN Settle("unverifiable", NoMatch)
       ELSE rd' = [rd EXCEPT !.pc = "cands", !.todo = index, !.sawIndex = TRUE]

\* One bundle; skipped is the request without it.
TryBundle(b, skipped) ==
    LET outcome == tryVerifyBundleReferrerCandidate(b, rd.policy) IN
    CASE outcome = "skip" -> rd' = skipped
      [] outcome = "mismatched" -> Settle("mismatched", NoMatch)
      [] outcome = "verified" -> Settle("verified", KeyMatch(b))
      [] outcome = "identity" ->
            Settle("verified", [key |-> "", identity |-> composeVerifiedIdentity(b.cert, rd.policy.ids)])

VerifyCandidate ==
    /\ At("cands")
    /\ IF rd.todo = <<>> THEN Goto("referrers")
       ELSE LET skipped == [rd EXCEPT !.todo = Tail(@)] IN
            IF Head(rd.todo) \notin bundles THEN rd' = skipped
            ELSE TryBundle(Bundle[Head(rd.todo)], skipped)

Referrers == {b \in bundles : Bundle[b].subject = "image"}

\* Mutant: an index that was found is the last word.
ListReferrers_IndexIsFinal ==
    /\ At("referrers")
    /\ IF rd.sawIndex THEN Settle("untrusted", NoMatch)
       ELSE IF Referrers = {} THEN Settle("unsigned", NoMatch)
       ELSE rd' = [rd EXCEPT !.pc = "rows", !.rows = Referrers]

\* ... then the referrers, ...
ListReferrers ==
    /\ At("referrers")
    /\ IF Referrers = {} /\ ~rd.sawIndex THEN Settle("unsigned", NoMatch)
       ELSE rd' = [rd EXCEPT !.pc = "rows", !.rows = Referrers]

\* ... in the order of their digests.
VerifyReferrer ==
    /\ At("rows")
    /\ \/ rd.rows = {} /\ Settle("untrusted", NoMatch)
       \/ \E b \in rd.rows : /\ \A c \in rd.rows : b <= c
                             /\ TryBundle(Bundle[b], [rd EXCEPT !.rows = @ \ {b}])

\* SignatureStatus counts the signatures after it has verified one.
SignatureStatus ==
    /\ At("detail")
    /\ rd' = [rd EXCEPT !.pc = "done", !.count = resolveSignatureManifestEntries]

\* A failing store or blob read ends the request; inside verifySignature the
\* exemption is applied to that error like to any other.
Fault ==
    /\ At(rd.pc)
    /\ Answering
    /\ IF /\ rd.op = "pull"
          /\ rd.pc \in {"anchors", "entries", "index", "cands", "referrers", "rows"}
          /\ SelfRead(rd.policy, rd.who)
       THEN Answer("allow") ELSE Answer("error")

-----------------------------------------------------------------------------
(* What cosign, other clients and the scanner do meanwhile.                *)

Append1(list, x) == IF list \in {NoManifest, Garbled} THEN <<x>> ELSE Append(list, x)

\* cosign adds its entry to the manifest at <digest>.sig.
PushSignature(e) == sig' = Append1(sig, e) /\ UNCHANGED <<index, bundles, run>>
PushBundle(b) == /\ b \notin bundles
                 /\ bundles' = bundles \cup {b}
                 /\ UNCHANGED <<sig, index, run>>
\* A push does not check that what an index lists is there.
PushIndex(b) == index' = Append1(index, b) /\ UNCHANGED <<sig, bundles, run>>
\* Another client may put anything at either tag.
Overwrite == \/ sig' = Garbled /\ UNCHANGED <<index, bundles, run>>
             \/ index' = Garbled /\ UNCHANGED <<sig, bundles, run>>
DeleteSignature == \/ sig # NoManifest /\ sig' = NoManifest /\ UNCHANGED <<index, bundles, run>>
                   \/ index # NoManifest /\ index' = NoManifest /\ UNCHANGED <<sig, bundles, run>>
                   \/ \E b \in bundles : /\ bundles' = bundles \ {b}
                                         /\ UNCHANGED <<sig, index, run>>
QueueScan == /\ run # NotStored => run.status \in {"completed", "failed"}
             /\ run' = [status |-> "queued", critical |-> 0, high |-> 0]
             /\ UNCHANGED <<sig, index, bundles>>
\* The scan's own steps need no budget: a run has two at most.
ScanStep == /\ run # NotStored
            /\ \/ run.status = "queued" /\ run' = [run EXCEPT !.status = "running"]
               \/ run.status = "queued" /\ run' = [run EXCEPT !.status = "failed"]
               \/ run.status = "running" /\ run' \in {r \in ScanRun : r.status \in {"completed", "failed"}}
            /\ UNCHANGED <<sig, index, bundles>>

World ==
    \/ /\ Change
       /\ \/ \E e \in Entry : PushSignature(e)
          \/ \E b \in DOMAIN Bundle : PushBundle(b) \/ PushIndex(b)
          \/ Overwrite
          \/ DeleteSignature
          \/ QueueScan
       /\ UNCHANGED <<signing, scanPolicy, scanner, override, adm>>
    \/ ScanStep /\ UNCHANGED policyVars

Reader ==
    \/ \E who \in Principal \cup {NoPrincipal} : Start("pull", who)
    \/ \E op \in {"sigStatus", "scanStatus"} : Start(op, NoPrincipal)
    \/ ReadScanPolicy \/ enforceScanPolicy \/ ReadSigningPolicy \/ enforceSigningPolicy
    \/ verifySignature \/ VerifyEntry \/ verifyBundleSignature \/ VerifyCandidate
    \/ ListReferrers \/ VerifyReferrer \/ SignatureStatus \/ Fault

PullInit ==
    /\ sig = NoManifest /\ index = NoManifest /\ bundles = {} /\ run = NotStored
    /\ rd = Idle
    /\ ghost = Unseen

PullNext ==
    \/ GateSettingsNext /\ UNCHANGED <<sig, index, bundles, run>> /\ Observe
    \/ World /\ Observe
    \/ Reader /\ UNCHANGED <<sig, index, bundles, run>> /\ UNCHANGED policyVars

PullSpec == PolicyInit /\ PullInit /\ [][PullNext]_<<policyVars, pullVars>>

-----------------------------------------------------------------------------
(* Properties.                                                             *)

Done(ops) == rd.pc = "done" /\ rd.op \in ops /\ rd.answer # "error"
Undisturbed == ghost.wrote = {}

\* What a signature has to be to prove anything under a policy.
Proves(s, policy) ==
    /\ s.binds
    /\ \/ s.by \in policy.keys
       \/ "cert" \in DOMAIN s /\ VerifyKeyless(s, policy.ids)
    /\ IF "doc" \in DOMAIN s THEN s.doc = "ok" /\ s.layer /\ s.subject = "image"
                            ELSE s.payload = "ok"

\* Fail closed: a pull is let through only if, at some moment while it was
\* answered, the scan policy let it through and the signing policy was off,
\* exempted this reader, or was met by a signature that proves the image.
\* The one way around is a pair of rows read apart and both rewritten in
\* between (the policy and its override, or the scan policy and the run).
\* (queries.go OpenManifest, service_signing.go enforceSigningPolicy)
AllowedPullExplained ==
    Done({"pull"}) /\ rd.answer = "allow" =>
        /\ ghost.open \/ {"scanPolicy", "run"} \subseteq ghost.wrote
        /\ \/ \E p \in ghost.policies :
                 \/ ~p.enabled
                 \/ p.self # "off" /\ rd.who # NoPrincipal /\ SelfRead(p, rd.who)
                 \/ \E s \in ghost.sigs : Proves(s, p)
           \/ {"signing", "override"} \subseteq ghost.wrote

\* What hides a proof from the lookup: a manifest at the legacy tag hides every
\* bundle, but none of its own entries, and without one a garbled index does.
Hidden(policy) ==
    \/ sig = Garbled
    \/ sig # NoManifest /\ \A e \in Range(sig) : ~Proves(e, policy)
    \/ sig = NoManifest /\ index = Garbled

\* A request nothing disturbed refuses an image that carries a proof only
\* where the lookup order says so: the proof is hidden, or a trusted signature
\* over another image ends the search.  (service_signing.go verifySignature)
RefusalExplained ==
    /\ Done({"pull", "sigStatus"})
    /\ Undisturbed
    /\ rd.state \notin {"", "verified"}
    => \/ \A s \in ghost.sigs : ~Proves(s, rd.policy)
       \/ Hidden(rd.policy)
       \/ \E s \in ghost.sigs : ~s.binds /\ s.by \in rd.policy.keys

\* A verdict has its reasons, whichever way it goes.
VerdictExplained == AllowedPullExplained /\ RefusalExplained

\* A verified status with no signature counted is the report on an image
\* whose proof is a referrer that no index lists.  The comment over the code
\* rules that out too: "a real bundle-format signature must never be reported
\* back as a nonexistent legacy tag with a zero count" (queries.go 388-391); the
\* property accepts what the code does there, and rules out every other case.
\* (queries.go resolveSignatureManifestEntries)
CountSeesIndexedSignatures ==
    Done({"sigStatus"}) /\ Undisturbed /\ rd.state = "verified" /\ rd.count = 0 =>
        /\ sig = NoManifest
        /\ index = NoManifest \/ \A b \in Range(index) \cap bundles : ~Proves(Bundle[b], rd.policy)

\* Before a key is revoked the operator is told how many images it signs.
\* An image that verifies by this key is among them unless its signature is
\* a referrer that no index lists.  (service_signing_key_usage.go)
UsageCountsVerified ==
    Done({"sigStatus", "pull"}) /\ Undisturbed /\ rd.state = "verified" /\ rd.match.key # "" =>
        \/ keyUsageMatches(rd.match.key)
        \/ /\ sig = NoManifest
           /\ index = NoManifest \/ \A b \in Range(index) \cap bundles : ~Proves(Bundle[b], rd.policy)

\* What an operator is told of an image's signatures, and before revoking a key,
\* counts what the gate accepts, but for referrers that no index lists.
CountsSeeIndexed == CountSeesIndexedSignatures /\ UsageCountsVerified

\* However the writers interleave, neither the policy nor an override is ever
\* enabled without an anchor, which would block every pull for good.
\* (feature_registry.go setSigningFeatureEnabled, normalizeSigningOverride)
NoTotalOutage ==
    \A row \in {signing, override["signing"]} \ {NotStored} :
        row.enabled => row.keys # {} \/ row.ids # <<>>

\* A writer that merges its input into the row it read changes nothing its
\* input leaves out, a revoked key for one, unless somebody else wrote the
\* row between its read and its write; and no writer causes an outage.
\* (feature_registry.go ConfigureFeature, setSigningFeatureEnabled)
MergesKeepTheRest ==
    [][NoTotalOutage' /\ \A a \in Admin :
          adm[a].op # "idle" /\ adm'[a].op = "idle" /\ adm[a].clean =>
              /\ GetSigningPolicySettings(signing').keys = GetSigningPolicySettings(signing).keys
              /\ \A f \in Scanner, field \in {"enabled", "schedule"} \ DOMAIN adm[a].patch :
                    LoadSettings(scanner'[f])[field] = LoadSettings(scanner[f])[field]]_policyVars
=============================================================================
