--------------------------- MODULE PullGateProofs ---------------------------
(***************************************************************************)
(* Theorems about PullGate, Policy and SecretScans, for any policies,      *)
(* signatures, scans and readers: a verdict on a pull has its reasons,     *)
(* what an operator is told of a key counts what the gate accepts, a merge *)
(* of settings loses nothing, and secret scans of one image overlap only   *)
(* for the reason named.                                                   *)
(*                                                                         *)
(* The argument.  What a request has read is either still so or among what *)
(* was written since, and what was so while it ran is in ghost.  A request *)
(* that nothing disturbed has looked at every signature it passed over.    *)
(***************************************************************************)
EXTENDS PullGate, SecretScans, FiniteSetTheorems, WellFoundedInduction, TLAPS

-----------------------------------------------------------------------------
(***************************************************************************)
(* The inductive invariant of a request.                                   *)
(***************************************************************************)
Fields == {"pc", "op", "who", "scanPolicy", "policy", "todo", "rows", "sawIndex", "state", "match",
           "answer", "count"}

ScanPc   == {"scanPolicy", "scanRun"}
SearchPc == {"entries", "index", "cands", "referrers", "rows"}
Verify   == {"anchors"} \cup SearchPc
Pc       == ScanPc \cup {"policy", "override", "detail", "done"} \cup Verify

Stored ==
    /\ sig \notin {NoManifest, Garbled} => sig \in Seq(Entry)
    /\ index \notin {NoManifest, Garbled} => index \in Seq(DOMAIN Bundle)
    /\ bundles \subseteq DOMAIN Bundle

\* The request is one, and has as much state as its place says.
Shape ==
    \/ rd = Idle
    \/ /\ Fields \subseteq DOMAIN rd /\ rd.pc \in Pc /\ rd.op \in {"pull", "sigStatus", "scanStatus"}
       /\ rd.pc \notin {"detail", "done"} => rd.state = ""
       /\ rd.pc = "detail" => rd.op = "sigStatus"

\* What was so while the request ran.
Seen ==
    /\ EffectiveSigning \in ghost.policies
    /\ Signatures \subseteq ghost.sigs
    /\ ghost.open \/ ScanBlocks(scanPolicy, run)
    /\ ghost.wrote = {} => ghost.sigs = Signatures

ScanOpen   == ghost.open \/ {"scanPolicy", "run"} \subseteq ghost.wrote
PolicySeen == rd.policy \in ghost.policies \/ {"signing", "override"} \subseteq ghost.wrote

\* What the request has read of the settings.
Read ==
    /\ rd.pc = "scanRun" =>
          "run" \in ghost.wrote \/ ScanBlocks(rd.scanPolicy, run) \/ ghost.open
    /\ rd.pc = "scanRun" => rd.scanPolicy = scanPolicy \/ "scanPolicy" \in ghost.wrote
    /\ rd.op = "pull" /\ rd.pc \in {"policy", "override"} \cup Verify => ScanOpen
    /\ rd.pc = "override" =>
          /\ rd.policy = GetSigningPolicySettings(signing) \/ "signing" \in ghost.wrote
          /\ rd.policy \in ghost.policies \/ override["signing"] # NotStored \/ "override" \in ghost.wrote
    /\ rd.pc \in Verify => PolicySeen

\* What it has left to look at was there.
Left ==
    /\ rd.pc = "entries" => rd.todo \in Seq(Entry) /\ Range(rd.todo) \subseteq ghost.sigs
    /\ rd.pc = "cands" => rd.todo \in Seq(DOMAIN Bundle)
    /\ rd.pc = "rows" => rd.rows \subseteq DOMAIN Bundle /\ \A b \in rd.rows : Bundle[b] \in ghost.sigs

Listed == index \notin {NoManifest, Garbled}
NoneListed(policy) ==
    index # Garbled /\ (Listed => \A b \in Range(index) \cap bundles : ~Proves(Bundle[b], policy))

\* Nothing it passed over would have been accepted, if nothing disturbed it.
Passed ==
    /\ rd.pc = "entries" =>
          /\ sig \notin {NoManifest, Garbled} /\ Range(rd.todo) \subseteq Range(sig)
          /\ \A e \in Range(sig) : Proves(e, rd.policy) => e \in Range(rd.todo)
    /\ rd.pc \in {"index", "cands", "referrers", "rows"} => sig = NoManifest
    /\ rd.pc = "cands" =>
          /\ Listed /\ Range(rd.todo) \subseteq Range(index)
          /\ \A b \in Range(index) \cap bundles : Proves(Bundle[b], rd.policy) => b \in Range(rd.todo)
    /\ rd.pc \in {"referrers", "rows"} => NoneListed(rd.policy)
    /\ rd.pc = "rows" => /\ rd.rows \subseteq bundles
                         /\ \A b \in bundles : Proves(Bundle[b], rd.policy) => b \in rd.rows

\* A state that is not verified has a reason, ...
Refusal(policy) ==
    \/ \A s \in ghost.sigs : ~Proves(s, policy)
    \/ Hidden(policy)
    \/ \E s \in ghost.sigs : ~s.binds /\ s.by \in policy.keys

\* ... and one that is was reached in one of three ways.
Acceptance(key, policy) ==
    \/ /\ sig \notin {NoManifest, Garbled}
       /\ \E e \in Range(sig) : Readable(e.payload) /\ e.binds /\ e.by = key
    \/ /\ sig = NoManifest /\ Listed
       /\ \E b \in Range(index) \cap bundles :
             /\ Bundle[b].subject = "image" /\ Bundle[b].layer /\ Readable(Bundle[b].doc)
             /\ Bundle[b].binds /\ (key # "" => Bundle[b].by = key)
    \/ sig = NoManifest /\ NoneListed(policy)

Settled ==
    /\ rd.state \notin {"", "verified"} => Refusal(rd.policy)
    /\ rd.state = "verified" => Acceptance(rd.match.key, rd.policy)

Counted ==
    rd.pc = "done" /\ rd.op = "sigStatus" /\ rd.state = "verified" /\ rd.answer # "error" =>
        rd.count = resolveSignatureManifestEntries

RInv ==
    /\ Stored /\ Shape
    /\ rd # Idle => /\ Seen /\ Read /\ Left /\ Counted /\ AllowedPullExplained
                    /\ ghost.wrote = {} => Passed /\ (rd.pc \in {"detail", "done"} => Settled)

-----------------------------------------------------------------------------
(***************************************************************************)
(* Sequences and signatures.                                               *)
(***************************************************************************)

(* The first of a list, and the others.                                    *)
LEMMA HeadTail ==
    ASSUME NEW S, NEW s \in Seq(S), s # <<>>
    PROVE  /\ Head(s) \in S /\ Head(s) \in Range(s) /\ Tail(s) \in Seq(S)
           /\ Range(Tail(s)) \subseteq Range(s)
           /\ \A x \in Range(s) : x = Head(s) \/ x \in Range(Tail(s))
<1>1. Len(s) \in Nat \ {0} /\ Head(s) = s[1] /\ DOMAIN s = 1..Len(s) /\ \A i \in 1..Len(s) : s[i] \in S
  OBVIOUS
<1>2. Tail(s) \in Seq(S) /\ DOMAIN Tail(s) = 1..(Len(s) - 1) /\ \A i \in 1..(Len(s) - 1) : Tail(s)[i] = s[i + 1]
  OBVIOUS
<1>3. ASSUME NEW x \in Range(s), x # Head(s) PROVE x \in Range(Tail(s))
  <2>1. PICK i \in 1..Len(s) : x = s[i]
    BY <1>1, <1>3 DEF Range
  <2>2. i - 1 \in 1..(Len(s) - 1) /\ Tail(s)[i - 1] = s[i]
    BY <1>1, <1>2, <1>3, <2>1
  <2> QED
    BY <1>2, <2>1, <2>2 DEF Range
<1>4. Range(Tail(s)) \subseteq Range(s)
  BY <1>1, <1>2 DEF Range
<1> QED
  BY <1>1, <1>2, <1>3, <1>4 DEF Range

(* What a bundle proves, and what trying it says.                          *)
LEMMA BundleOutcome ==
    ASSUME NEW b \in DOMAIN Bundle, NEW policy
    PROVE  LET o == tryVerifyBundleReferrerCandidate(Bundle[b], policy)
               s == Bundle[b]
           IN  /\ o \in {"skip", "mismatched", "verified", "identity"}
               /\ o \in {"verified", "identity"} =>
                    /\ Proves(s, policy) /\ s.subject = "image" /\ s.layer /\ Readable(s.doc) /\ s.binds
               /\ o \notin {"verified", "identity"} => ~Proves(s, policy)
               /\ o = "mismatched" => ~s.binds /\ s.by \in policy.keys
<1>1. /\ "doc" \in DOMAIN Bundle[b] /\ "cert" \in DOMAIN Bundle[b]
      /\ Bundle[b].layer \in BOOLEAN /\ Bundle[b].binds \in BOOLEAN
  BY PullGateAssumption
<1> DEFINE s == Bundle[b]
           o == tryVerifyBundleReferrerCandidate(s, policy)
<1>2. CASE s.subject # "image" \/ ~s.layer \/ ~Readable(s.doc)
  <2>1. o = "skip"
    BY <1>2 DEF tryVerifyBundleReferrerCandidate
  <2>2. ~Proves(s, policy)
    BY <1>1, <1>2 DEF Proves, Readable
  <2> QED
    BY <2>1, <2>2
<1>3. CASE s.subject = "image" /\ s.layer /\ Readable(s.doc) /\ s.by \in policy.keys /\ ~s.binds
  <2>1. o = "mismatched"
    BY <1>1, <1>3 DEF tryVerifyBundleReferrerCandidate, VerifyKeyless
  <2>2. ~Proves(s, policy)
    BY <1>3 DEF Proves
  <2> QED
    BY <1>3, <2>1, <2>2
<1>4. CASE s.subject = "image" /\ s.layer /\ Readable(s.doc) /\ s.by \in policy.keys /\ s.binds
  <2>1. o \in {"verified", "identity"}
    BY <1>1, <1>4 DEF tryVerifyBundleReferrerCandidate
  <2>2. Proves(s, policy)
    BY <1>1, <1>4 DEF Proves, Readable
  <2> QED
    BY <1>4, <2>1, <2>2
<1>5. CASE s.subject = "image" /\ s.layer /\ Readable(s.doc) /\ s.by \notin policy.keys
  <2>1. o = IF VerifyKeyless(s, policy.ids) THEN "identity" ELSE "skip"
    BY <1>1, <1>5 DEF tryVerifyBundleReferrerCandidate
  <2>2. VerifyKeyless(s, policy.ids) => s.binds
    BY DEF VerifyKeyless
  <2>3. Proves(s, policy) <=> VerifyKeyless(s, policy.ids)
    BY <1>1, <1>5, <2>2 DEF Proves, Readable
  <2> QED
    BY <1>5, <2>1, <2>2, <2>3
<1> QED
  BY <1>1, <1>2, <1>3, <1>4, <1>5

(* The same of an entry of the legacy manifest.                            *)
LEMMA EntryOutcome ==
    ASSUME NEW e \in Entry, NEW policy
    PROVE  /\ TryEntry(e, policy) \in {"skip", "mismatched", "verified"}
           /\ TryEntry(e, policy) = "verified" => Proves(e, policy) /\ Readable(e.payload) /\ e.binds
           /\ TryEntry(e, policy) = "skip" => ~Proves(e, policy)
           /\ TryEntry(e, policy) = "mismatched" => ~e.binds /\ e.by \in policy.keys
<1>1. "doc" \notin DOMAIN e /\ "cert" \notin DOMAIN e /\ e.binds \in BOOLEAN
  BY PullGateAssumption
<1>2. CASE ~Readable(e.payload) \/ e.by \notin policy.keys
  BY <1>1, <1>2 DEF TryEntry, Proves, Readable
<1>3. CASE Readable(e.payload) /\ e.by \in policy.keys /\ e.binds
  BY <1>1, <1>3 DEF TryEntry, Proves, Readable
<1>4. CASE Readable(e.payload) /\ e.by \in policy.keys /\ ~e.binds
  BY <1>4 DEF TryEntry
<1> QED
  BY <1>1, <1>2, <1>3, <1>4

(* Without an anchor nothing is proved.                                    *)
LEMMA NoAnchor ==
    ASSUME NEW policy, policy.keys = {}, policy.ids = <<>>, NEW s
    PROVE  ~Proves(s, policy)
BY DEF Proves, VerifyKeyless

-----------------------------------------------------------------------------
(***************************************************************************)
(* A step of the request leaves everything else alone.                     *)
(***************************************************************************)
Alone == UNCHANGED <<sig, index, bundles, run, ghost>> /\ UNCHANGED policyVars

(* What was written and seen is as before.                                 *)
LEMMA StillSeen ==
    ASSUME RInv, rd # Idle, Alone
    PROVE  Stored' /\ Seen'
<1>1. EffectiveSigning' = EffectiveSigning /\ Signatures' = Signatures
  BY DEF Alone, policyVars, EffectiveSigning, applySigningRepositoryOverride,
         GetSigningPolicySettings, Signatures
<1>2. ScanBlocks(scanPolicy, run)' = ScanBlocks(scanPolicy, run)
  BY DEF Alone, policyVars, ScanBlocks, scanPolicyViolated, GetScanPolicySettings
<1>3. Stored'
  BY DEF RInv, Stored, Alone
<1>4. ghost' = ghost
  BY DEF Alone
<1> QED
  BY <1>1, <1>2, <1>3, <1>4 DEF RInv, Seen

(* The search goes on: what has to be shown of its next place.             *)
LEMMA GoesOn ==
    ASSUME RInv, rd # Idle, Alone,
           Fields \subseteq DOMAIN rd', rd'.op = rd.op, rd'.state = "", rd'.pc \in Pc \ {"detail", "done"},
           Read', Left', ghost.wrote = {} => Passed'
    PROVE  RInv'
<1>1. Stored' /\ Seen'
  BY StillSeen
<1>2. Shape' /\ Counted' /\ AllowedPullExplained'
  BY DEF RInv, Shape, Counted, AllowedPullExplained, Done, Idle
<1>3. ghost'.wrote = {} => Passed'
  BY DEF Alone
<1> QED
  BY <1>1, <1>2, <1>3 DEF RInv

\* The policy let the request go without a signature, or nobody knows which it was.
LetGo == \/ \E p \in ghost.policies :
               ~p.enabled \/ (p.self # "off" /\ rd.who # NoPrincipal /\ SelfRead(p, rd.who))
         \/ {"signing", "override"} \subseteq ghost.wrote
Given == rd'.state = rd.state /\ rd'.match = rd.match /\ rd'.policy = rd.policy

(* A reason to refuse stays one while what it looks at does.               *)
LEMMA RefusalStays ==
    ASSUME ghost' = ghost, sig' = sig, index' = index, rd'.policy = rd.policy
    PROVE  Refusal(rd.policy) => Refusal(rd.policy)'
<1>1. (\A s \in ghost.sigs : ~Proves(s, rd.policy)) => (\A s \in ghost.sigs : ~Proves(s, rd.policy))'
  BY DEF Proves, VerifyKeyless
<1>2. (sig # NoManifest /\ \A e \in Range(sig) : ~Proves(e, rd.policy))
        => (sig # NoManifest /\ \A e \in Range(sig) : ~Proves(e, rd.policy))'
  BY DEF Proves, VerifyKeyless, Range
<1>3. Hidden(rd.policy) => Hidden(rd.policy)'
  BY <1>2 DEF Hidden
<1>4. (\E s \in ghost.sigs : ~s.binds /\ s.by \in rd.policy.keys)
        => (\E s \in ghost.sigs : ~s.binds /\ s.by \in rd.policy.keys)'
  OBVIOUS
<1> QED
  BY <1>1, <1>3, <1>4 DEF Refusal

(* The request is answered without a verdict on the signatures.            *)
LEMMA Answered ==
    ASSUME RInv, rd # Idle, Alone,
           Fields \subseteq DOMAIN rd', rd'.op = rd.op, rd'.pc = "done", rd'.who = rd.who,
           rd'.state = "" \/ (rd'.answer = "error" /\ rd.pc = "detail" /\ Given),
           rd'.op = "pull" /\ rd'.answer = "allow" => ScanOpen /\ LetGo
    PROVE  RInv'
<1>1. Stored' /\ Seen'
  BY StillSeen
<1>2. Shape' /\ Counted'
  BY DEF RInv, Shape, Counted, Pc, Idle
<1>3. Read' /\ Left'
  BY DEF Read, Left, Verify, SearchPc
<1>4. ghost' = ghost /\ sig' = sig /\ index' = index /\ bundles' = bundles
  BY DEF Alone
<1>5. AllowedPullExplained'
  <2> SUFFICES ASSUME rd'.op = "pull", rd'.answer = "allow"
               PROVE  ScanOpen /\ LetGo
    BY <1>4 DEF AllowedPullExplained, Done, SelfRead, ScanOpen, LetGo
  <2> QED
    OBVIOUS
<1>6. ASSUME ghost'.wrote = {} PROVE Passed'
  BY DEF Passed
<1>7. ASSUME ghost'.wrote = {} PROVE Settled'
  <2>1. CASE rd'.state = ""
    BY <2>1 DEF Settled
  <2>2. CASE rd'.state # ""
    <3>1. Settled /\ rd'.state = rd.state /\ rd'.match = rd.match /\ rd'.policy = rd.policy
      BY <1>4, <1>7, <2>2 DEF RInv, Given
    <3>2. Refusal(rd.policy) => Refusal(rd.policy)'
      BY <1>4, <3>1, RefusalStays
    <3>3. NoneListed(rd.policy) => NoneListed(rd.policy)'
      BY <1>4, <3>1 DEF NoneListed, Listed, Proves, VerifyKeyless
    <3>4. Acceptance(rd.match.key, rd.policy) => Acceptance(rd.match.key, rd.policy)'
      BY <1>4, <3>1, <3>3 DEF Acceptance, Listed
    <3> QED
      BY <3>1, <3>2, <3>4 DEF Settled
  <2> QED
    BY <2>1, <2>2
<1> QED
  BY <1>1, <1>2, <1>3, <1>5, <1>6, <1>7 DEF RInv

(* What a verdict leaves of the request.                                   *)
LEMMA SettleFields ==
    ASSUME NEW state, NEW match, Fields \subseteq DOMAIN rd, Settle(state, match)
    PROVE  /\ Fields \subseteq DOMAIN rd'
           /\ rd'.op = rd.op /\ rd'.who = rd.who /\ rd'.policy = rd.policy
           /\ rd'.state = state /\ rd'.match = match
           /\ rd'.pc = IF rd.op = "sigStatus" /\ state # "unsigned" THEN "detail" ELSE "done"
           /\ rd'.answer = IF rd.op = "sigStatus" THEN state
                           ELSE IF state = "verified" \/ SelfRead(rd.policy, rd.who)
                           THEN "allow" ELSE "deny"
<1>1. /\ "pc" \in DOMAIN rd /\ "op" \in DOMAIN rd /\ "who" \in DOMAIN rd /\ "policy" \in DOMAIN rd
      /\ "state" \in DOMAIN rd /\ "match" \in DOMAIN rd /\ "answer" \in DOMAIN rd
      /\ "todo" \in DOMAIN rd /\ "rows" \in DOMAIN rd
  BY DEF Fields
<1> QED
  BY <1>1 DEF Settle

(* A verdict on the signatures.                                            *)
LEMMA Verdict ==
    ASSUME RInv, rd # Idle, Alone, rd.pc \in Verify, NEW state, NEW match, Settle(state, match),
           state # "",
           state # "verified" => (ghost.wrote = {} => Refusal(rd.policy)),
           state = "verified" => /\ ghost.wrote = {} => Acceptance(match.key, rd.policy)
                                 /\ \E s \in ghost.sigs : Proves(s, rd.policy)
    PROVE  RInv'
<1>1. Stored' /\ Seen'
  BY StillSeen
<1> DEFINE Was == /\ rd'.op = rd.op /\ rd'.who = rd.who /\ rd'.policy = rd.policy
                  /\ rd'.state = state /\ rd'.match = match
                  /\ rd'.pc = IF rd.op = "sigStatus" /\ state # "unsigned" THEN "detail" ELSE "done"
                  /\ rd'.answer = IF rd.op = "sigStatus" THEN state
                                  ELSE IF state = "verified" \/ SelfRead(rd.policy, rd.who)
                                  THEN "allow" ELSE "deny"
<1>2. Fields \subseteq DOMAIN rd /\ rd.op \in {"pull", "sigStatus", "scanStatus"}
  BY DEF RInv, Shape
<1>3. Fields \subseteq DOMAIN rd' /\ Was
  BY <1>2, SettleFields
<1>4. Shape' /\ Counted'
  BY <1>2, <1>3 DEF Shape, Counted, Pc
<1>5. Read' /\ Left'
  BY <1>3 DEF Read, Left, Verify, SearchPc
<1>6. ghost' = ghost /\ sig' = sig /\ index' = index /\ bundles' = bundles
  BY DEF Alone
<1>7. AllowedPullExplained'
  <2> SUFFICES ASSUME rd'.op = "pull", rd'.answer = "allow"
               PROVE  /\ ScanOpen
                      /\ \/ \E p \in ghost.policies :
                               \/ p.self # "off" /\ rd.who # NoPrincipal /\ SelfRead(p, rd.who)
                               \/ \E s \in ghost.sigs : Proves(s, p)
                         \/ {"signing", "override"} \subseteq ghost.wrote
    BY <1>3, <1>6 DEF AllowedPullExplained, Done, SelfRead, Proves, VerifyKeyless, ScanOpen
  <2>1. ScanOpen /\ PolicySeen
    BY <1>3 DEF RInv, Read
  <2>2. \/ rd.policy.self # "off" /\ rd.who # NoPrincipal /\ SelfRead(rd.policy, rd.who)
        \/ \E s \in ghost.sigs : Proves(s, rd.policy)
    BY <1>3 DEF SelfRead
  <2> QED
    BY <2>1, <2>2 DEF PolicySeen
<1>8. Passed'
  BY <1>3 DEF Passed
<1>9. ASSUME ghost'.wrote = {} PROVE Settled'
  <2>0. rd'.policy = rd.policy
    BY <1>3
  <2> HIDE DEF Was
  <2>1. Refusal(rd.policy) => Refusal(rd.policy)'
    BY <1>6, <2>0, RefusalStays
  <2>2. NoneListed(rd.policy) => NoneListed(rd.policy)'
    BY <1>6, <2>0 DEF NoneListed, Listed, Proves, VerifyKeyless
  <2>3. Acceptance(match.key, rd.policy) => Acceptance(rd.match.key, rd.policy)'
    BY <1>3, <1>6, <2>2 DEF Acceptance, Listed, Was
  <2> QED
    BY <1>3, <1>6, <1>9, <2>1, <2>3 DEF Settled, Was
<1> QED
  BY <1>1, <1>4, <1>5, <1>7, <1>8, <1>9 DEF RInv

(* What anybody else does meanwhile.                                       *)
LEMMA Meanwhile ==
    ASSUME RInv, Observe, Stored'
    PROVE  RInv'
<1>1. CASE ~Answering
  <2>1. rd' = Idle
    BY <1>1 DEF Observe, Answering, RInv, Shape, Idle, Pc, ScanPc, Verify, SearchPc
  <2> QED
    BY <2>1 DEF RInv, Shape
<1>2. CASE Answering
  <2>1. rd' = rd /\ rd # Idle /\ rd.pc # "done"
    BY <1>2 DEF Observe, Answering, Idle
  <2>2. /\ ghost'.policies = ghost.policies \cup {EffectiveSigning'}
        /\ ghost'.sigs = ghost.sigs \cup Signatures'
        /\ ghost'.open = (ghost.open \/ ~ScanBlocks(scanPolicy', run'))
        /\ ghost'.wrote = ghost.wrote \cup Changed
    BY <1>2 DEF Observe
  <2>3. /\ signing' = signing \/ "signing" \in ghost'.wrote
        /\ override'["signing"] = override["signing"] \/ "override" \in ghost'.wrote
        /\ scanPolicy' = scanPolicy \/ "scanPolicy" \in ghost'.wrote
        /\ run' = run \/ "run" \in ghost'.wrote
        /\ sig' = sig \/ "sig" \in ghost'.wrote
        /\ index' = index \/ "index" \in ghost'.wrote
        /\ bundles' = bundles \/ "bundles" \in ghost'.wrote
    BY <2>2 DEF Changed, stored
  <2>4. RInv
    OBVIOUS
  <2> HIDE DEF Changed
  <2>5. Shape' /\ Counted' /\ AllowedPullExplained'
    BY <2>1, <2>4 DEF RInv, Shape, Counted, AllowedPullExplained, Done
  <2>6. Seen'
    <3>1. ASSUME ghost'.wrote = {} PROVE ghost'.sigs = Signatures'
      <4>1. Signatures' = Signatures
        BY <2>3, <3>1 DEF Signatures
      <4> QED
        BY <2>1, <2>2, <2>4, <3>1, <4>1 DEF RInv, Seen
    <3>2. ScanBlocks(scanPolicy', run') = ScanBlocks(scanPolicy, run)'
      OBVIOUS
    <3> QED
      BY <2>2, <3>1, <3>2 DEF Seen
  <2>7. Left'
    BY <2>1, <2>2, <2>4 DEF RInv, Left
  <2>8. Read'
    <3> SUFFICES Read /\ Seen => Read'
      BY <2>1, <2>4 DEF RInv
    <3>1. ghost.wrote \subseteq ghost'.wrote /\ ghost.policies \subseteq ghost'.policies
          /\ (ghost.open => ghost'.open)
      BY <2>2
    <3>2. rd.pc = "scanRun" /\ Read =>
            \/ "run" \in ghost'.wrote \/ ScanBlocks(rd.scanPolicy, run)' \/ ghost'.open
      BY <2>1, <2>3, <3>1 DEF Read, ScanBlocks, scanPolicyViolated, GetScanPolicySettings
    <3>3. ScanOpen => ScanOpen'
      BY <3>1 DEF ScanOpen
    <3>4. PolicySeen => PolicySeen'
      BY <2>1, <3>1 DEF PolicySeen
    <3>5. rd.pc = "override" /\ Read =>
            /\ rd'.policy = GetSigningPolicySettings(signing)' \/ "signing" \in ghost'.wrote
            /\ rd'.policy \in ghost'.policies \/ override'["signing"] # NotStored \/ "override" \in ghost'.wrote
      BY <2>1, <2>3, <3>1 DEF Read, GetSigningPolicySettings
    <3> QED
      BY <2>1, <2>3, <3>1, <3>2, <3>3, <3>4, <3>5 DEF Read
  <2>9. ASSUME ghost'.wrote = {} PROVE Passed' /\ (rd.pc = "detail" => Settled')
    <3>1. /\ sig' = sig /\ index' = index /\ bundles' = bundles /\ ghost.wrote = {}
          /\ ghost'.sigs = ghost.sigs
      <4>1. sig' = sig /\ bundles' = bundles /\ index' = index /\ ghost.wrote = {}
        BY <2>2, <2>3, <2>9
      <4>2. Signatures' = Signatures
        BY <4>1 DEF Signatures
      <4> QED
        BY <2>1, <2>2, <2>4, <4>1, <4>2 DEF RInv, Seen
    <3>2. NoneListed(rd.policy) => NoneListed(rd.policy)'
      BY <2>1, <3>1 DEF NoneListed, Listed, Proves, VerifyKeyless
    <3>3. Refusal(rd.policy) => Refusal(rd.policy)'
      BY <2>1, <3>1 DEF Refusal, Hidden, Proves, VerifyKeyless
    <3>4. Acceptance(rd.match.key, rd.policy) => Acceptance(rd.match.key, rd.policy)'
      BY <2>1, <3>1, <3>2 DEF Acceptance, Listed
    <3>5. Passed /\ (rd.pc = "detail" => Settled)
      BY <2>1, <2>4, <3>1 DEF RInv
    <3>6. Passed'
      BY <2>1, <3>1, <3>2, <3>5 DEF Passed, Listed, Proves, VerifyKeyless
    <3> QED
      BY <2>1, <3>3, <3>4, <3>5, <3>6 DEF Settled
  <2> QED
    BY <2>1, <2>5, <2>6, <2>7, <2>8, <2>9 DEF RInv
<1> QED
  BY <1>1, <1>2

-----------------------------------------------------------------------------
(***************************************************************************)
(* The steps of a request, one by one.                                     *)
(***************************************************************************)
InField == /\ "pc" \in DOMAIN rd /\ "op" \in DOMAIN rd /\ "who" \in DOMAIN rd /\ "policy" \in DOMAIN rd
           /\ "scanPolicy" \in DOMAIN rd /\ "todo" \in DOMAIN rd /\ "rows" \in DOMAIN rd
           /\ "sawIndex" \in DOMAIN rd /\ "state" \in DOMAIN rd /\ "match" \in DOMAIN rd
           /\ "answer" \in DOMAIN rd /\ "count" \in DOMAIN rd

Placed == /\ rd # Idle /\ Fields \subseteq DOMAIN rd /\ InField /\ rd.pc \in Pc
          /\ rd.op \in {"pull", "sigStatus", "scanStatus"}
          /\ rd.pc \notin {"detail", "done"} => rd.state = ""
          /\ Seen /\ Read /\ Left /\ (ghost.wrote = {} => Passed)

(* A request at a place of its code is one.                                *)
LEMMA AtPlace ==
    ASSUME RInv, rd.pc # "idle"
    PROVE  Placed
<1>1. rd # Idle
  BY DEF Idle
<1> QED
  BY <1>1 DEF RInv, Shape, Fields, InField, Placed

(* A request begins.                                                       *)
LEMMA Starts ==
    ASSUME RInv, NEW op \in {"pull", "sigStatus", "scanStatus"}, NEW who, Start(op, who),
           UNCHANGED <<sig, index, bundles, run>>, UNCHANGED policyVars
    PROVE  RInv'
<1>1. /\ Fields \subseteq DOMAIN rd' /\ rd'.op = op /\ rd'.state = ""
      /\ rd'.pc = IF op = "sigStatus" THEN "policy" ELSE "scanPolicy"
  BY DEF Start, Request, Fields
<1>2. /\ ghost'.policies = {EffectiveSigning} /\ ghost'.sigs = Signatures
      /\ ghost'.open = ~ScanBlocks(scanPolicy, run)
  BY DEF Start
<1>3. EffectiveSigning' = EffectiveSigning /\ Signatures' = Signatures
  BY DEF policyVars, EffectiveSigning, applySigningRepositoryOverride, GetSigningPolicySettings, Signatures
<1>4. ScanBlocks(scanPolicy, run)' = ScanBlocks(scanPolicy, run)
  BY DEF policyVars, ScanBlocks, scanPolicyViolated, GetScanPolicySettings
<1>5. Stored' /\ Shape'
  BY <1>1 DEF RInv, Stored, Shape, Pc, ScanPc
<1>6. Seen'
  BY <1>2, <1>3, <1>4 DEF Seen
<1>7. Read' /\ Left' /\ Counted' /\ AllowedPullExplained' /\ Passed'
  BY <1>1 DEF Read, Left, Counted, AllowedPullExplained, Done, Passed, Verify, SearchPc
<1>8. rd'.pc \notin {"detail", "done"}
  BY <1>1
<1> QED
  BY <1>5, <1>6, <1>7, <1>8 DEF RInv

LEMMA ReadsScanPolicy ==
    ASSUME RInv, Alone, ReadScanPolicy
    PROVE  RInv'
<1>1. rd.pc = "scanPolicy"
  BY DEF ReadScanPolicy, At
<1>2. Placed
  BY <1>1, AtPlace
<1>3. /\ Fields \subseteq DOMAIN rd' /\ rd'.op = rd.op /\ rd'.state = "" /\ rd'.pc = "scanRun"
      /\ rd'.scanPolicy = scanPolicy
  BY <1>1, <1>2 DEF ReadScanPolicy, InField, Placed, Fields
<1>4. Read'
  BY <1>2, <1>3 DEF Placed, Read, Seen, Verify, SearchPc, Alone, policyVars, ScanBlocks,
                    scanPolicyViolated, GetScanPolicySettings
<1>5. Left' /\ Passed'
  BY <1>3 DEF Left, Passed
<1> QED
  BY <1>2, <1>3, <1>4, <1>5, GoesOn DEF Pc, ScanPc, Placed

LEMMA EnforcesScanPolicy ==
    ASSUME RInv, Alone, enforceScanPolicy
    PROVE  RInv'
<1>1. rd.pc = "scanRun"
  BY DEF enforceScanPolicy, At
<1>2. Placed
  BY <1>1, AtPlace
<1>3. CASE rd.op = "pull" /\ ~ScanBlocks(rd.scanPolicy, run)
  <2>1. /\ Fields \subseteq DOMAIN rd' /\ rd'.op = rd.op /\ rd'.state = "" /\ rd'.pc = "policy"
    BY <1>1, <1>2, <1>3 DEF enforceScanPolicy, InField, Placed, Goto, Fields
  <2>2. ScanOpen
    BY <1>1, <1>2, <1>3 DEF Placed, Read, Seen, ScanOpen
  <2>3. Read' /\ Left' /\ Passed'
    BY <2>1, <2>2 DEF Read, Left, Passed, Verify, SearchPc, ScanOpen, Alone
  <2> QED
    BY <1>2, <2>1, <2>3, GoesOn DEF Pc, Placed
<1>4. CASE ~(rd.op = "pull" /\ ~ScanBlocks(rd.scanPolicy, run))
  <2>1. PICK a : Answer(a) /\ (rd.op = "pull" => a = "blocked")
    BY <1>4 DEF enforceScanPolicy
  <2>2. /\ Fields \subseteq DOMAIN rd' /\ rd'.op = rd.op /\ rd'.state = "" /\ rd'.pc = "done"
        /\ rd'.who = rd.who /\ rd'.answer = a
    BY <1>1, <1>2, <2>1 DEF Answer, InField, Placed, Fields
  <2> QED
    BY <1>2, <2>1, <2>2, Answered DEF Placed
<1> QED
  BY <1>3, <1>4

LEMMA ReadsSigningPolicy ==
    ASSUME RInv, Alone, ReadSigningPolicy
    PROVE  RInv'
<1>1. rd.pc = "policy"
  BY DEF ReadSigningPolicy, At
<1>2. Placed
  BY <1>1, AtPlace
<1>3. /\ Fields \subseteq DOMAIN rd' /\ rd'.op = rd.op /\ rd'.state = "" /\ rd'.pc = "override"
      /\ rd'.policy = GetSigningPolicySettings(signing)
  BY <1>1, <1>2 DEF ReadSigningPolicy, InField, Placed, Fields
<1>4. GetSigningPolicySettings(signing) \in ghost.policies \/ override["signing"] # NotStored
  BY <1>2 DEF Placed, Seen, EffectiveSigning, applySigningRepositoryOverride
<1>5. rd.op = "pull" => ScanOpen
  BY <1>1, <1>2 DEF Placed, Read
<1>6. GetSigningPolicySettings(signing)' = GetSigningPolicySettings(signing)
  BY DEF Alone, policyVars, GetSigningPolicySettings
<1>7. Read'
  BY <1>3, <1>4, <1>5, <1>6 DEF Read, Verify, SearchPc, Alone, policyVars, ScanOpen
<1>8. Left' /\ Passed'
  BY <1>3 DEF Left, Passed
<1> QED
  BY <1>2, <1>3, <1>7, <1>8, GoesOn DEF Pc, Placed

LEMMA EnforcesSigningPolicy ==
    ASSUME RInv, Alone, enforceSigningPolicy
    PROVE  RInv'
<1>1. rd.pc = "override"
  BY DEF enforceSigningPolicy, At
<1>2. Placed
  BY <1>1, AtPlace
<1> DEFINE policy == applySigningRepositoryOverride(rd.policy, override["signing"])
<1>3. policy \in ghost.policies \/ {"signing", "override"} \subseteq ghost.wrote
  BY <1>1, <1>2 DEF Placed, Read, Seen, EffectiveSigning, applySigningRepositoryOverride
<1>4. rd.op = "pull" => ScanOpen
  BY <1>1, <1>2 DEF Placed, Read
<1> HIDE DEF policy
<1>5. CASE rd.op = "pull" /\ ~policy.enabled
  <2>1. /\ Fields \subseteq DOMAIN rd' /\ rd'.op = rd.op /\ rd'.state = "" /\ rd'.pc = "done"
        /\ rd'.who = rd.who
    BY <1>1, <1>2, <1>5 DEF enforceSigningPolicy, InField, Placed, Fields, policy
  <2>2. LetGo
    BY <1>3, <1>5 DEF LetGo
  <2> QED
    BY <1>2, <1>4, <1>5, <2>1, <2>2, Answered DEF Placed
<1>6. CASE ~(rd.op = "pull" /\ ~policy.enabled)
  <2>1. /\ Fields \subseteq DOMAIN rd' /\ rd'.op = rd.op /\ rd'.state = "" /\ rd'.pc = "anchors"
        /\ rd'.policy = policy
    BY <1>1, <1>2, <1>6 DEF enforceSigningPolicy, InField, Placed, Fields, policy
  <2>2. ghost' = ghost
    BY DEF Alone
  <2>3. Read'
    BY <1>3, <1>4, <2>1, <2>2 DEF Read, Verify, SearchPc, ScanOpen, PolicySeen
  <2>4. Left' /\ Passed'
    BY <2>1 DEF Left, Passed
  <2> QED
    BY <1>2, <2>1, <2>3, <2>4, GoesOn DEF Pc, Verify, Placed
<1> QED
  BY <1>5, <1>6

(* The search for a signature goes on.                                     *)
LEMMA SearchesOn ==
    ASSUME RInv, Placed, Alone, rd.pc \in Verify,
           Fields \subseteq DOMAIN rd', rd'.op = rd.op, rd'.policy = rd.policy, rd'.state = "",
           rd'.pc \in SearchPc, Left', ghost.wrote = {} => Passed'
    PROVE  RInv'
<1>1. ghost' = ghost
  BY DEF Alone
<1>2. (rd.op = "pull" => ScanOpen) /\ PolicySeen
  BY DEF Placed, Read
<1>3. ScanOpen' = ScanOpen /\ PolicySeen' = PolicySeen
  BY <1>1 DEF ScanOpen, PolicySeen
<1>4. Read'
  BY <1>1, <1>2, <1>3 DEF Read, SearchPc
<1> QED
  BY <1>4, GoesOn DEF Placed, Pc, Verify, SearchPc

LEMMA VerifiesSignature ==
    ASSUME RInv, Alone, verifySignature
    PROVE  RInv'
<1>1. rd.pc = "anchors"
  BY DEF verifySignature, At
<1>2. Placed /\ rd.pc \in Verify /\ Stored
  BY <1>1, AtPlace DEF Verify, RInv
<1>3. CASE rd.policy.keys = {} /\ rd.policy.ids = <<>>
  <2>1. Settle("unverifiable", NoMatch)
    BY <1>3 DEF verifySignature
  <2>2. Refusal(rd.policy)
    BY <1>3, NoAnchor DEF Refusal
  <2> QED
    BY <1>2, <2>1, <2>2, Verdict DEF Placed
<1>4. CASE ~(rd.policy.keys = {} /\ rd.policy.ids = <<>>) /\ sig = NoManifest
  <2>1. /\ Fields \subseteq DOMAIN rd' /\ rd'.op = rd.op /\ rd'.state = "" /\ rd'.pc = "index"
        /\ rd'.policy = rd.policy
    BY <1>1, <1>2, <1>4 DEF verifySignature, InField, Placed, Goto, Fields
  <2>2. Left' /\ Passed'
    BY <1>4, <2>1 DEF Left, Passed, Alone
  <2> QED
    BY <1>2, <2>1, <2>2, SearchesOn DEF SearchPc
<1>5. CASE ~(rd.policy.keys = {} /\ rd.policy.ids = <<>>) /\ sig = Garbled
  <2>1. Settle("unverifiable", NoMatch)
    BY <1>5, PullGateAssumption DEF verifySignature
  <2>2. Refusal(rd.policy)
    BY <1>5 DEF Refusal, Hidden
  <2> QED
    BY <1>2, <2>1, <2>2, Verdict DEF Placed
<1>6. CASE ~(rd.policy.keys = {} /\ rd.policy.ids = <<>>) /\ sig \notin {NoManifest, Garbled}
  <2>1. /\ Fields \subseteq DOMAIN rd' /\ rd'.op = rd.op /\ rd'.state = "" /\ rd'.pc = "entries"
        /\ rd'.policy = rd.policy /\ rd'.todo = sig
    BY <1>1, <1>2, <1>6 DEF verifySignature, InField, Placed, Fields
  <2>2. sig \in Seq(Entry) /\ Range(sig) \subseteq ghost.sigs
    BY <1>2, <1>6 DEF Stored, Placed, Seen, Signatures
  <2>3. Left' /\ Passed'
    BY <1>6, <2>1, <2>2 DEF Left, Passed, Alone
  <2> QED
    BY <1>2, <2>1, <2>3, SearchesOn DEF SearchPc
<1> QED
  BY <1>3, <1>4, <1>5, <1>6

LEMMA VerifiesEntry ==
    ASSUME RInv, Alone, VerifyEntry
    PROVE  RInv'
<1>1. rd.pc = "entries"
  BY DEF VerifyEntry, At
<1>2. Placed /\ rd.pc \in Verify
  BY <1>1, AtPlace DEF Verify, SearchPc
<1>3. rd.todo \in Seq(Entry) /\ Range(rd.todo) \subseteq ghost.sigs
  BY <1>1, <1>2 DEF Placed, Left
<1>4. ghost.wrote = {} =>
        /\ sig \notin {NoManifest, Garbled} /\ Range(rd.todo) \subseteq Range(sig)
        /\ \A x \in Range(sig) : Proves(x, rd.policy) => x \in Range(rd.todo)
  BY <1>1, <1>2 DEF Placed, Passed
<1>6. CASE rd.todo = <<>>
  <2>1. Settle("untrusted", NoMatch)
    BY <1>6 DEF VerifyEntry
  <2>2. Range(rd.todo) = {}
    BY <1>6 DEF Range
  <2>3. ghost.wrote = {} => Refusal(rd.policy)
    BY <1>4, <2>2 DEF Refusal, Hidden
  <2> QED
    BY <1>2, <2>1, <2>3, Verdict DEF Placed
<1>7. CASE rd.todo # <<>>
  <2> DEFINE e == Head(rd.todo)
             o == TryEntry(e, rd.policy)
  <2>1. /\ e \in Entry /\ e \in Range(rd.todo) /\ Tail(rd.todo) \in Seq(Entry)
        /\ Range(Tail(rd.todo)) \subseteq Range(rd.todo)
        /\ \A x \in Range(rd.todo) : x = e \/ x \in Range(Tail(rd.todo))
    BY <1>3, <1>7, HeadTail
  <2>2. /\ o \in {"skip", "mismatched", "verified"}
        /\ o = "verified" => Proves(e, rd.policy) /\ Readable(e.payload) /\ e.binds
        /\ o = "skip" => ~Proves(e, rd.policy)
        /\ o = "mismatched" => ~e.binds /\ e.by \in rd.policy.keys
    BY <2>1, EntryOutcome
  <2>3. CASE o = "skip"
    <3>1. /\ Fields \subseteq DOMAIN rd' /\ rd'.op = rd.op /\ rd'.state = "" /\ rd'.pc = "entries"
          /\ rd'.policy = rd.policy /\ rd'.todo = Tail(rd.todo)
      BY <1>1, <1>2, <1>7, <2>3 DEF VerifyEntry, InField, Placed, Fields
    <3>2. Left'
      BY <1>3, <2>1, <3>1 DEF Left, Alone
    <3>3. ASSUME ghost.wrote = {}, NEW x \in Range(sig), Proves(x, rd.policy)
          PROVE  x \in Range(Tail(rd.todo))
      BY <1>4, <2>1, <2>2, <2>3, <3>3
    <3>4. sig' = sig /\ (\A x \in Range(sig) : Proves(x, rd.policy) => x \in Range(Tail(rd.todo)))
            => (\A x \in Range(sig) : Proves(x, rd.policy) => x \in Range(rd.todo))'
      BY <3>1 DEF Proves, VerifyKeyless, Range
    <3>5. ghost.wrote = {} => Passed'
      <4> SUFFICES ASSUME ghost.wrote = {} PROVE Passed'
        OBVIOUS
      <4>1. sig' = sig
        BY DEF Alone
      <4>2. (\A x \in Range(sig) : Proves(x, rd.policy) => x \in Range(rd.todo))'
        BY <3>3, <3>4, <4>1
      <4>3. sig' \notin {NoManifest, Garbled} /\ Range(rd'.todo) \subseteq Range(sig')
        BY <1>4, <2>1, <3>1, <4>1
      <4> QED
        BY <3>1, <4>2, <4>3 DEF Passed, Range
    <3> QED
      BY <1>2, <3>1, <3>2, <3>5, SearchesOn DEF SearchPc
  <2>4. CASE o = "mismatched"
    <3>1. Settle("mismatched", NoMatch)
      BY <1>7, <2>4 DEF VerifyEntry
    <3>2. Refusal(rd.policy)
      BY <1>3, <2>1, <2>2, <2>4 DEF Refusal
    <3> QED
      BY <1>2, <3>1, <3>2, Verdict DEF Placed
  <2>5. CASE o = "verified"
    <3>1. Settle("verified", KeyMatch(e)) /\ KeyMatch(e).key = e.by
      BY <1>7, <2>5 DEF VerifyEntry, KeyMatch
    <3>2. ghost.wrote = {} => Acceptance(KeyMatch(e).key, rd.policy)
      BY <1>4, <2>1, <2>2, <2>5, <3>1 DEF Acceptance
    <3>3. \E s \in ghost.sigs : Proves(s, rd.policy)
      BY <1>3, <2>1, <2>2, <2>5
    <3> QED
      BY <1>2, <3>1, <3>2, <3>3, Verdict DEF Placed
  <2> QED
    BY <2>2, <2>3, <2>4, <2>5
<1> QED
  BY <1>6, <1>7

LEMMA VerifiesBundleSignature ==
    ASSUME RInv, Alone, verifyBundleSignature
    PROVE  RInv'
<1>1. rd.pc = "index"
  BY DEF verifyBundleSignature, At
<1>2. Placed /\ rd.pc \in Verify /\ Stored
  BY <1>1, AtPlace DEF Verify, SearchPc, RInv
<1>3. ghost.wrote = {} => sig = NoManifest
  BY <1>1, <1>2 DEF Placed, Passed
<1>4. CASE index = NoManifest
  <2>1. /\ Fields \subseteq DOMAIN rd' /\ rd'.op = rd.op /\ rd'.state = "" /\ rd'.pc = "referrers"
        /\ rd'.policy = rd.policy
    BY <1>1, <1>2, <1>4 DEF verifyBundleSignature, InField, Placed, Goto, Fields
  <2>2. index' = NoManifest /\ sig' = sig
    BY <1>4 DEF Alone
  <2>3. Left' /\ (ghost.wrote = {} => Passed')
    BY <1>3, <2>1, <2>2, PullGateAssumption DEF Left, Passed, NoneListed, Listed
  <2> QED
    BY <1>2, <2>1, <2>3, SearchesOn DEF SearchPc
<1>5. CASE index = Garbled
  <2>1. Settle("unverifiable", NoMatch)
    BY <1>5, PullGateAssumption DEF verifyBundleSignature
  <2>2. ghost.wrote = {} => Refusal(rd.policy)
    BY <1>3, <1>5 DEF Refusal, Hidden
  <2> QED
    BY <1>2, <2>1, <2>2, Verdict DEF Placed
<1>6. CASE index \notin {NoManifest, Garbled}
  <2>1. /\ Fields \subseteq DOMAIN rd' /\ rd'.op = rd.op /\ rd'.state = "" /\ rd'.pc = "cands"
        /\ rd'.policy = rd.policy /\ rd'.todo = index
    BY <1>1, <1>2, <1>6 DEF verifyBundleSignature, InField, Placed, Fields
  <2>2. index' = index /\ sig' = sig /\ bundles' = bundles /\ index \in Seq(DOMAIN Bundle)
    BY <1>2, <1>6 DEF Alone, Stored
  <2>3. Left' /\ (ghost.wrote = {} => Passed')
    BY <1>3, <1>6, <2>1, <2>2 DEF Left, Passed, Listed
  <2> QED
    BY <1>2, <2>1, <2>3, SearchesOn DEF SearchPc
<1> QED
  BY <1>4, <1>5, <1>6

(* One bundle is tried: the request has its verdict, or passes it over.    *)
LEMMA TriesBundle ==
    ASSUME RInv, Placed, Alone, rd.pc \in Verify, NEW b \in DOMAIN Bundle, Bundle[b] \in ghost.sigs,
           NEW skipped, TryBundle(Bundle[b], skipped),
           ghost.wrote = {} => sig = NoManifest /\ (NoneListed(rd.policy)
                                                    \/ (Listed /\ b \in Range(index) \cap bundles))
    PROVE  RInv' \/ (rd' = skipped /\ ~Proves(Bundle[b], rd.policy))
<1> DEFINE s == Bundle[b]
           o == tryVerifyBundleReferrerCandidate(s, rd.policy)
           whose == composeVerifiedIdentity(s.cert, rd.policy.ids)
           match == IF o = "identity" THEN [key |-> "", identity |-> whose] ELSE KeyMatch(s)
<1>1. /\ o \in {"skip", "mismatched", "verified", "identity"}
      /\ o \in {"verified", "identity"} =>
           /\ Proves(s, rd.policy) /\ s.subject = "image" /\ s.layer /\ Readable(s.doc) /\ s.binds
      /\ o \notin {"verified", "identity"} => ~Proves(s, rd.policy)
      /\ o = "mismatched" => ~s.binds /\ s.by \in rd.policy.keys
  BY BundleOutcome
<1> HIDE DEF whose
<1>2. /\ o = "skip" => rd' = skipped
      /\ o = "mismatched" => Settle("mismatched", NoMatch)
      /\ o \in {"verified", "identity"} => Settle("verified", match)
  BY <1>1 DEF TryBundle, whose
<1> HIDE DEF o
<1>3. CASE o = "mismatched"
  <2>1. Refusal(rd.policy)
    BY <1>1, <1>3 DEF Refusal
  <2> QED
    BY <1>2, <1>3, <2>1, Verdict DEF Placed
<1>4. CASE o \in {"verified", "identity"}
  <2>1. match.key # "" => match.key = s.by
    BY DEF KeyMatch
  <2> HIDE DEF match
  <2>2. ghost.wrote = {} => Acceptance(match.key, rd.policy)
    <3> SUFFICES ASSUME ghost.wrote = {} PROVE Acceptance(match.key, rd.policy)
      OBVIOUS
    <3>1. CASE NoneListed(rd.policy)
      BY <3>1 DEF Acceptance
    <3>2. CASE Listed /\ b \in Range(index) \cap bundles
      BY <1>1, <1>4, <2>1, <3>2 DEF Acceptance
    <3> QED
      BY <3>1, <3>2
  <2> QED
    BY <1>1, <1>2, <1>4, <2>2, Verdict DEF Placed
<1> QED
  BY <1>1, <1>2, <1>3, <1>4

LEMMA VerifiesCandidate ==
    ASSUME RInv, Alone, VerifyCandidate
    PROVE  RInv'
<1>1. rd.pc = "cands"
  BY DEF VerifyCandidate, At
<1>2. Placed /\ rd.pc \in Verify /\ Stored
  BY <1>1, AtPlace DEF Verify, SearchPc, RInv
<1>3. rd.todo \in Seq(DOMAIN Bundle)
  BY <1>1, <1>2 DEF Placed, Left
<1>4. ghost.wrote = {} =>
        /\ sig = NoManifest /\ Listed /\ Range(rd.todo) \subseteq Range(index)
        /\ \A b \in Range(index) \cap bundles : Proves(Bundle[b], rd.policy) => b \in Range(rd.todo)
  BY <1>1, <1>2 DEF Placed, Passed
<1>5. index' = index /\ sig' = sig /\ bundles' = bundles
  BY DEF Alone
<1>6. CASE rd.todo = <<>>
  <2>1. /\ Fields \subseteq DOMAIN rd' /\ rd'.op = rd.op /\ rd'.state = "" /\ rd'.pc = "referrers"
        /\ rd'.policy = rd.policy
    BY <1>1, <1>2, <1>6 DEF VerifyCandidate, InField, Placed, Goto, Fields
  <2>2. Range(rd.todo) = {}
    BY <1>6 DEF Range
  <2>3. ghost.wrote = {} => NoneListed(rd.policy)
    BY <1>4, <2>2 DEF NoneListed, Listed
  <2>4. NoneListed(rd.policy) => NoneListed(rd.policy)'
    BY <1>5, <2>1 DEF NoneListed, Listed, Proves, VerifyKeyless
  <2>5. Left' /\ (ghost.wrote = {} => Passed')
    BY <1>4, <1>5, <2>1, <2>3, <2>4 DEF Left, Passed
  <2> QED
    BY <1>2, <2>1, <2>5, SearchesOn DEF SearchPc
<1>7. CASE rd.todo # <<>>
  <2> DEFINE b == Head(rd.todo)
             skipped == [rd EXCEPT !.todo = Tail(@)]
  <2>1. /\ b \in DOMAIN Bundle /\ b \in Range(rd.todo) /\ Tail(rd.todo) \in Seq(DOMAIN Bundle)
        /\ Range(Tail(rd.todo)) \subseteq Range(rd.todo)
        /\ \A x \in Range(rd.todo) : x = b \/ x \in Range(Tail(rd.todo))
    BY <1>3, <1>7, HeadTail
  <2>2. ASSUME rd' = skipped, b \in bundles => ~Proves(Bundle[b], rd.policy)
        PROVE  RInv'
    <3>1. /\ Fields \subseteq DOMAIN rd' /\ rd'.op = rd.op /\ rd'.state = "" /\ rd'.pc = "cands"
          /\ rd'.policy = rd.policy /\ rd'.todo = Tail(rd.todo)
      BY <1>1, <1>2, <2>2 DEF InField, Placed, Fields
    <3> HIDE DEF b, skipped
    <3>2. ASSUME ghost.wrote = {}
          PROVE  \A x \in Range(index) \cap bundles :
                    Proves(Bundle[x], rd.policy) => x \in Range(Tail(rd.todo))
      BY <1>4, <2>1, <2>2, <3>2
    <3>3. \A x : Proves(Bundle[x], rd.policy)' => Proves(Bundle[x], rd.policy)
      BY <3>1 DEF Proves, VerifyKeyless
    <3>4. ASSUME ghost.wrote = {} PROVE Passed'
      BY <1>4, <1>5, <2>1, <3>1, <3>2, <3>3, <3>4 DEF Passed, Listed
    <3>5. Left'
      BY <2>1, <3>1 DEF Left
    <3> QED
      BY <1>2, <3>1, <3>4, <3>5, SearchesOn DEF SearchPc
  <2>3. CASE b \notin bundles
    BY <1>7, <2>2, <2>3 DEF VerifyCandidate
  <2>4. CASE b \in bundles
    <3>1. TryBundle(Bundle[b], skipped)
      BY <1>7, <2>4 DEF VerifyCandidate
    <3>2. Bundle[b] \in ghost.sigs
      BY <1>2, <2>4 DEF Placed, Seen, Signatures
    <3>3. ghost.wrote = {} => sig = NoManifest /\ Listed /\ b \in Range(index) \cap bundles
      BY <1>4, <2>1, <2>4
    <3> HIDE DEF b, skipped
    <3>4. RInv' \/ (rd' = skipped /\ ~Proves(Bundle[b], rd.policy))
      BY <1>2, <2>1, <3>1, <3>2, <3>3, TriesBundle
    <3> QED
      BY <2>2, <3>4
  <2> QED
    BY <2>3, <2>4
<1> QED
  BY <1>6, <1>7

(* A proof is a referrer of the image.                                     *)
LEMMA ProofsAreReferrers ==
    ASSUME RInv, NEW b \in bundles, NEW policy, Proves(Bundle[b], policy)
    PROVE  b \in Referrers
<1>1. b \in DOMAIN Bundle
  BY DEF RInv, Stored
<1>2. "doc" \in DOMAIN Bundle[b]
  BY <1>1, PullGateAssumption
<1> QED
  BY <1>2 DEF Proves, Referrers

LEMMA ListsReferrers ==
    ASSUME RInv, Alone, ListReferrers
    PROVE  RInv'
<1>1. rd.pc = "referrers"
  BY DEF ListReferrers, At
<1>2. Placed /\ rd.pc \in Verify /\ Stored
  BY <1>1, AtPlace DEF Verify, SearchPc, RInv
<1>3. ghost.wrote = {} => sig = NoManifest /\ NoneListed(rd.policy)
  BY <1>1, <1>2 DEF Placed, Passed
<1>4. CASE Referrers = {} /\ ~rd.sawIndex
  <2>1. Settle("unsigned", NoMatch)
    BY <1>4 DEF ListReferrers
  <2>2. ghost.wrote = {} => Refusal(rd.policy)
    <3> SUFFICES ASSUME ghost.wrote = {}, NEW s \in ghost.sigs PROVE ~Proves(s, rd.policy)
      BY DEF Refusal
    <3>1. s \in Signatures /\ sig = NoManifest
      BY <1>2, <1>3 DEF Placed, Seen
    <3>2. PICK b \in bundles : s = Bundle[b]
      BY <3>1 DEF Signatures
    <3> QED
      BY <1>4, <3>2, ProofsAreReferrers
  <2> QED
    BY <1>2, <2>1, <2>2, Verdict DEF Placed
<1>5. CASE ~(Referrers = {} /\ ~rd.sawIndex)
  <2>1. /\ Fields \subseteq DOMAIN rd' /\ rd'.op = rd.op /\ rd'.state = "" /\ rd'.pc = "rows"
        /\ rd'.policy = rd.policy /\ rd'.rows = Referrers
    BY <1>1, <1>2, <1>5 DEF ListReferrers, InField, Placed, Fields
  <2>2. index' = index /\ sig' = sig /\ bundles' = bundles /\ ghost' = ghost
    BY DEF Alone
  <2>3. Referrers \subseteq bundles /\ bundles \subseteq DOMAIN Bundle
        /\ \A b \in bundles : Bundle[b] \in ghost.sigs
    BY <1>2 DEF Referrers, Stored, Placed, Seen, Signatures
  <2>4. Left'
    BY <2>1, <2>2, <2>3 DEF Left
  <2>5. NoneListed(rd.policy) => NoneListed(rd.policy)'
    BY <2>1, <2>2 DEF NoneListed, Listed, Proves, VerifyKeyless
  <2>6. \A b : Proves(Bundle[b], rd.policy)' => Proves(Bundle[b], rd.policy)
    BY <2>1 DEF Proves, VerifyKeyless
  <2>7. \A b \in bundles : Proves(Bundle[b], rd.policy) => b \in Referrers
    BY ProofsAreReferrers
  <2>8. ASSUME ghost.wrote = {} PROVE Passed'
    BY <1>3, <2>1, <2>2, <2>3, <2>5, <2>6, <2>7, <2>8 DEF Passed
  <2> QED
    BY <1>2, <2>1, <2>4, <2>8, SearchesOn DEF SearchPc
<1> QED
  BY <1>4, <1>5

LEMMA VerifiesReferrer ==
    ASSUME RInv, Alone, VerifyReferrer
    PROVE  RInv'
<1>1. rd.pc = "rows"
  BY DEF VerifyReferrer, At
<1>2. Placed /\ rd.pc \in Verify /\ Stored
  BY <1>1, AtPlace DEF Verify, SearchPc, RInv
<1>3. rd.rows \subseteq DOMAIN Bundle /\ \A b \in rd.rows : Bundle[b] \in ghost.sigs
  BY <1>1, <1>2 DEF Placed, Left
<1>4. ghost.wrote = {} =>
        /\ sig = NoManifest /\ NoneListed(rd.policy) /\ rd.rows \subseteq bundles
        /\ \A b \in bundles : Proves(Bundle[b], rd.policy) => b \in rd.rows
  BY <1>1, <1>2 DEF Placed, Passed
<1>5. CASE rd.rows = {} /\ Settle("untrusted", NoMatch)
  <2>1. ghost.wrote = {} => Refusal(rd.policy)
    <3> SUFFICES ASSUME ghost.wrote = {}, NEW s \in ghost.sigs PROVE ~Proves(s, rd.policy)
      BY DEF Refusal
    <3>1. s \in Signatures /\ sig = NoManifest
      BY <1>2, <1>4 DEF Placed, Seen
    <3>2. PICK b \in bundles : s = Bundle[b]
      BY <3>1 DEF Signatures
    <3> QED
      BY <1>4, <1>5, <3>2
  <2> QED
    BY <1>2, <1>5, <2>1, Verdict DEF Placed
<1>6. ASSUME NEW b \in rd.rows, TryBundle(Bundle[b], [rd EXCEPT !.rows = @ \ {b}])
      PROVE  RInv'
  <2> DEFINE skipped == [rd EXCEPT !.rows = @ \ {b}]
  <2>1. TryBundle(Bundle[b], skipped)
    BY <1>6
  <2>2. ASSUME rd' = skipped, ~Proves(Bundle[b], rd.policy) PROVE RInv'
    <3>1. /\ Fields \subseteq DOMAIN rd' /\ rd'.op = rd.op /\ rd'.state = "" /\ rd'.pc = "rows"
          /\ rd'.policy = rd.policy /\ rd'.rows = rd.rows \ {b}
      BY <1>1, <1>2, <2>2 DEF InField, Placed, Fields
    <3>2. index' = index /\ sig' = sig /\ bundles' = bundles /\ ghost' = ghost
      BY DEF Alone
    <3>3. NoneListed(rd.policy) => NoneListed(rd.policy)'
      BY <3>1, <3>2 DEF NoneListed, Listed, Proves, VerifyKeyless
    <3>4. \A x : Proves(Bundle[x], rd.policy)' => Proves(Bundle[x], rd.policy)
      BY <3>1 DEF Proves, VerifyKeyless
    <3> HIDE DEF skipped
    <3>5. ASSUME ghost.wrote = {} PROVE Passed'
      BY <1>4, <2>2, <3>1, <3>2, <3>3, <3>4, <3>5 DEF Passed
    <3>6. Left'
      BY <1>3, <3>1, <3>2 DEF Left
    <3> QED
      BY <1>2, <3>1, <3>5, <3>6, SearchesOn DEF SearchPc
  <2> HIDE DEF skipped
  <2>3. RInv' \/ (rd' = skipped /\ ~Proves(Bundle[b], rd.policy))
    BY <1>2, <1>3, <1>4, <1>6, <2>1, TriesBundle
  <2> QED
    BY <2>2, <2>3
<1> QED
  BY <1>5, <1>6 DEF VerifyReferrer

LEMMA CountsSignatures ==
    ASSUME RInv, Alone, SignatureStatus
    PROVE  RInv'
<1>1. rd.pc = "detail" /\ rd # Idle
  BY DEF SignatureStatus, At, Idle
<1>2. Placed /\ rd.op = "sigStatus"
  BY <1>1, AtPlace DEF RInv, Shape
<1>3. /\ Fields \subseteq DOMAIN rd' /\ rd'.pc = "done" /\ rd'.op = rd.op /\ Given
      /\ rd'.count = resolveSignatureManifestEntries
  BY <1>1, <1>2 DEF SignatureStatus, InField, Placed, Fields, Given
<1>4. Stored' /\ Seen'
  BY <1>1, StillSeen
<1>5. ghost' = ghost /\ sig' = sig /\ index' = index /\ bundles' = bundles
  BY DEF Alone
<1>6. resolveSignatureManifestEntries' = resolveSignatureManifestEntries
  BY <1>5 DEF resolveSignatureManifestEntries
<1>7. Shape' /\ Counted'
  BY <1>2, <1>3, <1>6 DEF Shape, Counted, Pc
<1>8. Read' /\ Left' /\ Passed' /\ AllowedPullExplained'
  BY <1>2, <1>3 DEF Read, Left, Passed, AllowedPullExplained, Done, Verify, SearchPc
<1>9. ASSUME ghost'.wrote = {} PROVE Settled'
  <2>1. Settled
    BY <1>1, <1>5, <1>9 DEF RInv
  <2>2. Refusal(rd.policy) => Refusal(rd.policy)'
    BY <1>3, <1>5 DEF Refusal, Hidden, Proves, VerifyKeyless, Given
  <2>3. NoneListed(rd.policy) => NoneListed(rd.policy)'
    BY <1>3, <1>5 DEF NoneListed, Listed, Proves, VerifyKeyless, Given
  <2>4. Acceptance(rd.match.key, rd.policy) => Acceptance(rd.match.key, rd.policy)'
    BY <1>3, <1>5, <2>3 DEF Acceptance, Listed, Given
  <2> QED
    BY <1>3, <2>1, <2>2, <2>4 DEF Settled, Given
<1> QED
  BY <1>4, <1>7, <1>8, <1>9 DEF RInv

LEMMA Faults ==
    ASSUME RInv, Alone, Fault
    PROVE  RInv'
<1>1. rd.pc \notin {"idle", "done"}
  BY DEF Fault, Answering
<1>2. Placed
  BY <1>1, AtPlace
<1>3. PICK a : /\ Answer(a)
               /\ \/ a = "error"
                  \/ rd.op = "pull" /\ rd.pc \in Verify /\ SelfRead(rd.policy, rd.who)
  BY DEF Fault, Verify, SearchPc
<1>4. /\ Fields \subseteq DOMAIN rd' /\ rd'.op = rd.op /\ rd'.pc = "done" /\ rd'.who = rd.who
      /\ rd'.answer = a /\ Given
  BY <1>1, <1>2, <1>3 DEF Answer, InField, Placed, Fields, Given
<1>5. rd'.state = "" \/ (rd'.answer = "error" /\ rd.pc = "detail" /\ Given)
  BY <1>1, <1>2, <1>3, <1>4 DEF Placed, Given, Verify, SearchPc
<1>6. ASSUME rd'.op = "pull", rd'.answer = "allow" PROVE ScanOpen /\ LetGo
  <2>1. rd.op = "pull" /\ rd.pc \in Verify /\ SelfRead(rd.policy, rd.who)
    BY <1>3, <1>4, <1>6
  <2>2. ScanOpen /\ PolicySeen
    BY <1>2, <2>1 DEF Placed, Read
  <2>3. rd.policy.self # "off" /\ rd.who # NoPrincipal
    BY <2>1 DEF SelfRead
  <2> QED
    BY <2>1, <2>2, <2>3 DEF PolicySeen, LetGo
<1> QED
  BY <1>2, <1>4, <1>5, <1>6, Answered DEF Placed

-----------------------------------------------------------------------------
(***************************************************************************)
(* The request's invariant, and what follows from it.                      *)
(***************************************************************************)

(* What others push and delete is signatures and bundles.                  *)
LEMMA WorldStored ==
    ASSUME Stored, World
    PROVE  Stored'
<1>1. ASSUME NEW e \in Entry, PushSignature(e) PROVE Stored'
  BY <1>1 DEF Stored, PushSignature, Append1
<1>2. ASSUME NEW b \in DOMAIN Bundle, PushBundle(b) \/ PushIndex(b) PROVE Stored'
  <2>1. CASE PushBundle(b)
    BY <2>1 DEF Stored, PushBundle
  <2>2. CASE PushIndex(b)
    <3>1. <<b>> \in Seq(DOMAIN Bundle)
      OBVIOUS
    <3>2. index \in Seq(DOMAIN Bundle) => Append(index, b) \in Seq(DOMAIN Bundle)
      OBVIOUS
    <3> QED
      BY <2>2, <3>1, <3>2 DEF Stored, PushIndex, Append1
  <2> QED
    BY <1>2, <2>1, <2>2
<1>3. ASSUME Overwrite \/ DeleteSignature PROVE Stored'
  BY <1>3 DEF Stored, Overwrite, DeleteSignature
<1>4. ASSUME QueueScan \/ ScanStep PROVE Stored'
  BY <1>4 DEF Stored, QueueScan, ScanStep
<1> QED
  BY <1>1, <1>2, <1>3, <1>4 DEF World

(* A step of the request.                                                  *)
LEMMA ReaderStep ==
    ASSUME RInv, Reader, UNCHANGED <<sig, index, bundles, run>>, UNCHANGED policyVars
    PROVE  RInv'
<1>1. ASSUME NEW who, Start("pull", who) PROVE RInv'
  BY <1>1, Starts
<1>2. ASSUME NEW op \in {"sigStatus", "scanStatus"}, Start(op, NoPrincipal) PROVE RInv'
  BY <1>2, Starts
<1>3. ASSUME \/ ReadScanPolicy \/ enforceScanPolicy \/ ReadSigningPolicy \/ enforceSigningPolicy
             \/ verifySignature \/ VerifyEntry \/ verifyBundleSignature \/ VerifyCandidate
             \/ ListReferrers \/ VerifyReferrer \/ SignatureStatus \/ Fault
      PROVE  RInv'
  <2>1. Alone
    BY <1>3 DEF Alone, At, ReadScanPolicy, enforceScanPolicy, ReadSigningPolicy, enforceSigningPolicy,
                verifySignature, VerifyEntry, verifyBundleSignature, VerifyCandidate, ListReferrers,
                VerifyReferrer, SignatureStatus, Fault
  <2> QED
    BY <1>3, <2>1, ReadsScanPolicy, EnforcesScanPolicy, ReadsSigningPolicy, EnforcesSigningPolicy,
       VerifiesSignature, VerifiesEntry, VerifiesBundleSignature, VerifiesCandidate, ListsReferrers,
       VerifiesReferrer, CountsSignatures, Faults
<1> QED
  BY <1>1, <1>2, <1>3 DEF Reader

(* Nothing happens.                                                        *)
LEMMA Stutters ==
    ASSUME RInv, UNCHANGED <<policyVars, pullVars>>
    PROVE  RInv'
<1>1. Alone /\ rd' = rd
  BY DEF Alone, pullVars
<1>2. CASE rd = Idle
  BY <1>1, <1>2 DEF RInv, Stored, Shape, Alone
<1>3. CASE rd # Idle
  <2>1. Stored' /\ Seen'
    BY <1>3, <1>1, StillSeen
  <2>2. ghost' = ghost /\ sig' = sig /\ index' = index /\ bundles' = bundles
    BY <1>1 DEF Alone
  <2>3. Shape' /\ Left'
    BY <1>1, <1>3, <2>2 DEF RInv, Shape, Left
  <2>4. Read'
    BY <1>1, <1>3, <2>2 DEF RInv, Read, ScanOpen, PolicySeen, Alone, policyVars, ScanBlocks,
           scanPolicyViolated, GetScanPolicySettings, GetSigningPolicySettings
  <2>5. Counted'
    BY <1>1, <1>3, <2>2 DEF RInv, Counted, resolveSignatureManifestEntries
  <2>6. AllowedPullExplained'
    BY <1>1, <1>3, <2>2 DEF RInv, AllowedPullExplained, Done, SelfRead, Proves, VerifyKeyless
  <2>7. NoneListed(rd.policy) => NoneListed(rd.policy)'
    BY <1>1, <2>2 DEF NoneListed, Listed, Proves, VerifyKeyless
  <2>8. Passed => Passed'
    BY <1>1, <2>2, <2>7 DEF Passed, Listed, Proves, VerifyKeyless
  <2>9. Refusal(rd.policy) => Refusal(rd.policy)'
    BY <1>1, <2>2 DEF Refusal, Hidden, Proves, VerifyKeyless
  <2>10. Acceptance(rd.match.key, rd.policy) => Acceptance(rd.match.key, rd.policy)'
    BY <1>1, <2>2, <2>7 DEF Acceptance, Listed
  <2>11. Settled => Settled'
    BY <1>1, <2>9, <2>10 DEF Settled
  <2> QED
    BY <1>1, <1>3, <2>1, <2>2, <2>3, <2>4, <2>5, <2>6, <2>8, <2>11 DEF RInv
<1> QED
  BY <1>2, <1>3

LEMMA RequestInvariant == PullSpec => []RInv
<1>1. PolicyInit /\ PullInit => RInv
  BY DEF PullInit, RInv, Stored, Shape
<1>2. RInv /\ [PullNext]_<<policyVars, pullVars>> => RInv'
  <2> SUFFICES ASSUME RInv, [PullNext]_<<policyVars, pullVars>> PROVE RInv'
    OBVIOUS
  <2>1. CASE GateSettingsNext /\ UNCHANGED <<sig, index, bundles, run>> /\ Observe
    <3>1. Stored'
      BY <2>1 DEF RInv, Stored
    <3> QED
      BY <2>1, <3>1, Meanwhile
  <2>2. CASE World /\ Observe
    BY <2>2, WorldStored, Meanwhile DEF RInv
  <2>3. CASE Reader /\ UNCHANGED <<sig, index, bundles, run>> /\ UNCHANGED policyVars
    BY <2>3, ReaderStep
  <2>4. CASE UNCHANGED <<policyVars, pullVars>>
    BY <2>4, Stutters
  <2> QED
    BY <2>1, <2>2, <2>3, <2>4 DEF PullNext
<1> QED
  BY <1>1, <1>2, PTL DEF PullSpec

(* A verdict has its reasons: a pull is let through only if at some moment *)
(* while it was answered the scan policy and the signing policy let it     *)
(* (or a pair of rows read apart was rewritten in between), and one that   *)
(* nothing disturbed is refused only for want of a proof that the lookup   *)
(* order reaches.  (queries.go OpenManifest, service_signing.go)           *)
THEOREM VerdictsExplained == PullSpec => []VerdictExplained
<1>1. RInv => VerdictExplained
  <2> SUFFICES ASSUME RInv PROVE VerdictExplained
    OBVIOUS
  <2>1. AllowedPullExplained
    BY DEF RInv, AllowedPullExplained, Done, Idle
  <2>2. RefusalExplained
    <3> SUFFICES ASSUME Done({"pull", "sigStatus"}), Undisturbed, rd.state \notin {"", "verified"}
                 PROVE  Refusal(rd.policy)
      BY DEF RefusalExplained, Refusal
    <3>0. rd.pc = "done" /\ ghost.wrote = {}
      BY DEF Done, Undisturbed
    <3>1. rd # Idle
      BY <3>0, AtPlace DEF Placed
    <3>2. Settled
      BY <3>0, <3>1 DEF RInv
    <3> QED
      BY <3>2 DEF Settled
  <2> QED
    BY <2>1, <2>2 DEF VerdictExplained
<1> QED
  BY <1>1, RequestInvariant, PTL

(* What an operator is told before revoking a key counts what the gate     *)
(* accepts, but for referrers that no index lists.                         *)
(* (queries.go resolveSignatureManifestEntries,                            *)
(* service_signing_key_usage.go keyUsageMatches)                           *)
THEOREM UsageSeesIndexed == PullSpec => []CountsSeeIndexed
<1>1. RInv => CountsSeeIndexed
  <2> SUFFICES ASSUME RInv, rd.pc = "done", Undisturbed, rd.state = "verified", rd.answer # "error"
               PROVE  /\ rd.op = "sigStatus" /\ rd.count = 0 => sig = NoManifest /\ NoneListed(rd.policy)
                      /\ rd.match.key # "" => \/ keyUsageMatches(rd.match.key)
                                              \/ sig = NoManifest /\ NoneListed(rd.policy)
    BY DEF CountsSeeIndexed, CountSeesIndexedSignatures, UsageCountsVerified, Done, NoneListed, Listed
  <2>1. Acceptance(rd.match.key, rd.policy) /\ Stored
        /\ (rd.op = "sigStatus" => rd.count = resolveSignatureManifestEntries)
    BY DEF RInv, Undisturbed, Settled, Counted, Idle
  <2>2. CASE /\ sig \notin {NoManifest, Garbled}
             /\ \E e \in Range(sig) : Readable(e.payload) /\ e.binds /\ e.by = rd.match.key
    <3>1. keyUsageMatches(rd.match.key)
      BY <2>2 DEF keyUsageMatches
    <3>2. resolveSignatureManifestEntries = Len(sig)
      BY <2>2 DEF resolveSignatureManifestEntries
    <3>3. Len(sig) # 0
      BY <2>1, <2>2 DEF Stored, Range
    <3> QED
      BY <2>1, <3>1, <3>2, <3>3
  <2>3. CASE /\ sig = NoManifest /\ Listed
             /\ \E b \in Range(index) \cap bundles :
                   /\ Bundle[b].subject = "image" /\ Bundle[b].layer /\ Readable(Bundle[b].doc)
                   /\ Bundle[b].binds /\ (rd.match.key # "" => Bundle[b].by = rd.match.key)
    <3> DEFINE S == {i \in DOMAIN index : /\ index[i] \in bundles
                                         /\ Bundle[index[i]].subject = "image" /\ Bundle[index[i]].layer}
    <3>1. rd.match.key # "" => keyUsageMatches(rd.match.key)
      BY <2>3 DEF keyUsageMatches, Listed
    <3>2. resolveSignatureManifestEntries = Cardinality(S)
      BY <2>3 DEF resolveSignatureManifestEntries, Listed
    <3>3. IsFiniteSet(S)
      <4>1. index \in Seq(DOMAIN Bundle)
        BY <2>1, <2>3 DEF Stored, Listed
      <4>2. IsFiniteSet(1..Len(index)) /\ S \subseteq 1..Len(index)
        BY <4>1, FS_Interval
      <4> QED
        BY <4>2, FS_Subset
    <3>4. S # {}
      BY <2>3 DEF Range
    <3>5. Cardinality(S) # 0
      BY <3>3, <3>4, FS_EmptySet
    <3> QED
      BY <2>1, <3>1, <3>2, <3>5
  <2>4. CASE sig = NoManifest /\ NoneListed(rd.policy)
    BY <2>4
  <2> QED
    BY <2>1, <2>2, <2>3, <2>4 DEF Acceptance
<1> QED
  BY <1>1, RequestInvariant, PTL

-----------------------------------------------------------------------------
(***************************************************************************)
(* The writers of settings.                                                *)
(***************************************************************************)
Anchored(row) == row # NotStored /\ row.enabled => row.keys # {} \/ row.ids # <<>>
MaybeSigning  == SigningRow \cup {NotStored}
MaybeScanner  == ScannerRow \cup {NotStored}

\* What a caller has read, and what it is about to write.
CallerSound(c) ==
    /\ {"op", "feature", "patch", "seen", "clean"} \subseteq DOMAIN c
    /\ c.op \in {"idle", "toggle", "configure", "import", "ensure"}
    /\ c.op = "toggle" =>
          /\ c.feature = "signing" /\ c.seen \in MaybeSigning
          /\ c.patch.enabled \in BOOLEAN /\ (c.patch.enabled => GetSigningPolicySettings(c.seen).keys # {})
    /\ c.op \in {"configure", "import", "ensure"} =>
          c.feature \in Scanner /\ c.seen \in MaybeScanner /\ c.patch \in ScannerPatch
    /\ c.op \in {"import", "ensure"} => c.feature = "trivy"

Fresh(a) == adm[a].op # "idle" /\ adm[a].clean => adm[a].seen = Row(adm[a].feature)

PInv ==
    /\ signing \in MaybeSigning /\ Anchored(signing) /\ Anchored(override["signing"])
    /\ scanner \in [Scanner -> MaybeScanner]
    /\ DOMAIN override = Scanner \cup {"signing"}
    /\ DOMAIN adm = Admin /\ adm = [a \in Admin |-> adm[a]]
    /\ \A a \in Admin : /\ CallerSound(adm[a])
                        /\ Fresh(a)

\* The merge of caller a, if this step ends it, keeps what its input leaves out.
Keeps(a) ==
    adm[a].op # "idle" /\ adm'[a].op = "idle" /\ adm[a].clean =>
        /\ GetSigningPolicySettings(signing').keys = GetSigningPolicySettings(signing).keys
        /\ \A f \in Scanner, field \in {"enabled", "schedule"} \ DOMAIN adm[a].patch :
              LoadSettings(scanner'[f])[field] = LoadSettings(scanner[f])[field]

(* What the row of a feature means is a row.                               *)
LEMMA Meant ==
    /\ \A row \in MaybeSigning : GetSigningPolicySettings(row) \in SigningRow
    /\ \A row \in MaybeScanner : LoadSettings(row) \in ScannerRow
    /\ \A row \in SigningRow : GetSigningPolicySettings(row) = row
    /\ \A row \in ScannerRow : LoadSettings(row) = row
BY PolicyAssumption DEF MaybeSigning, MaybeScanner, GetSigningPolicySettings, LoadSettings, SigningRow, ScannerRow

(* A merge keeps what its input leaves out.                                *)
LEMMA Merged ==
    ASSUME NEW row \in MaybeScanner, NEW patch \in ScannerPatch
    PROVE  /\ mergeFeatureSettings(row, patch) \in ScannerRow
           /\ \A field \in {"enabled", "schedule"} \ DOMAIN patch :
                 mergeFeatureSettings(row, patch)[field] = LoadSettings(row)[field]
<1>1. LoadSettings(row) \in ScannerRow
  BY Meant
<1>2. DOMAIN LoadSettings(row) = {"enabled", "schedule"}
      /\ \A field \in {"enabled", "schedule"} : LoadSettings(row)[field] \in BOOLEAN
  BY <1>1 DEF ScannerRow
<1>3. PICK fields \in SUBSET {"enabled", "schedule"} : patch \in [fields -> BOOLEAN]
  BY DEF ScannerPatch
<1>4. \A field \in DOMAIN patch : patch[field] \in BOOLEAN
  BY <1>3
<1> DEFINE m == mergeFeatureSettings(row, patch)
<1>5. m = [field \in {"enabled", "schedule"} |->
              IF field \in DOMAIN patch THEN patch[field] ELSE LoadSettings(row)[field]]
  BY <1>2 DEF mergeFeatureSettings
<1> HIDE DEF m
<1>6. DOMAIN m = {"enabled", "schedule"} /\ m["enabled"] \in BOOLEAN /\ m["schedule"] \in BOOLEAN
  BY <1>2, <1>4, <1>5
<1>7. m = [enabled |-> m["enabled"], schedule |-> m["schedule"]]
  BY <1>5, <1>6
<1>8. m \in ScannerRow
  BY <1>6, <1>7 DEF ScannerRow
<1>9. \A field \in {"enabled", "schedule"} \ DOMAIN patch : m[field] = LoadSettings(row)[field]
  BY <1>5
<1> QED
  BY <1>8, <1>9 DEF m

(* Somebody writes a whole row: callers that read it are no longer clean.  *)
LEMMA Soiled ==
    ASSUME PInv, NEW f \in Scanner \cup {"signing"}, NEW except, adm' = Soil(f, except),
           \A g \in Scanner \cup {"signing"} : g # f => Row(g)' = Row(g)
    PROVE  /\ DOMAIN adm' = Admin /\ adm' = [a \in Admin |-> adm'[a]]
           /\ \A a \in Admin : /\ CallerSound(adm'[a]) /\ adm'[a].op = adm[a].op
                               /\ a # except => Fresh(a)'
<1>1. DOMAIN adm' = Admin /\ adm' = [a \in Admin |-> adm'[a]]
  BY DEF Soil
<1> SUFFICES ASSUME NEW a \in Admin
             PROVE  /\ CallerSound(adm'[a]) /\ adm'[a].op = adm[a].op
                    /\ a # except => Fresh(a)'
  BY <1>1
<1>2. CallerSound(adm[a]) /\ Fresh(a)
  BY DEF PInv
<1>3. CASE a # except /\ adm[a].feature = f
  <2>1. adm'[a] = [adm[a] EXCEPT !.clean = FALSE]
    BY <1>3 DEF Soil
  <2>2. /\ DOMAIN adm'[a] = DOMAIN adm[a] /\ adm'[a].op = adm[a].op /\ adm'[a].feature = adm[a].feature
        /\ adm'[a].patch = adm[a].patch /\ adm'[a].seen = adm[a].seen /\ adm'[a].clean = FALSE
    BY <1>2, <2>1 DEF CallerSound
  <2> QED
    BY <1>2, <2>2 DEF CallerSound, Fresh
<1>4. CASE ~(a # except /\ adm[a].feature = f)
  <2>1. adm'[a] = adm[a]
    BY <1>4 DEF Soil
  <2>2. adm[a].op # "idle" => adm[a].feature \in Scanner \cup {"signing"}
    BY <1>2 DEF CallerSound
  <2> QED
    <3>1. a # except => Fresh(a)'
      <4> SUFFICES ASSUME a # except, adm[a].op # "idle", adm[a].clean
                   PROVE  adm[a].seen = Row(adm[a].feature)'
        BY <2>1 DEF Fresh
      <4>1. adm[a].feature # f /\ adm[a].feature \in Scanner \cup {"signing"}
        BY <1>4, <2>2
      <4>2. Row(adm[a].feature)' = Row(adm[a].feature)
        BY <2>1, <4>1 DEF Row
      <4> QED
        BY <1>2, <4>2 DEF Fresh
    <3> QED
      BY <1>2, <2>1, <3>1
<1> QED
  BY <1>3, <1>4

(* A step that leaves the callers and what they read alone.                *)
LEMMA CallersAlone ==
    ASSUME PInv, UNCHANGED <<signing, scanner, adm>>
    PROVE  /\ DOMAIN adm' = Admin /\ adm' = [a \in Admin |-> adm'[a]]
           /\ \A a \in Admin : CallerSound(adm'[a]) /\ Fresh(a)' /\ Keeps(a)
<1> SUFFICES ASSUME NEW a \in Admin PROVE CallerSound(adm'[a]) /\ Fresh(a)' /\ Keeps(a)
  BY DEF PInv
<1>1. CallerSound(adm[a]) /\ Fresh(a)
  BY DEF PInv
<1>2. Fresh(a)'
  BY <1>1 DEF Fresh, Row
<1> QED
  BY <1>1, <1>2 DEF Keeps

LEMMA WritesSigning ==
    ASSUME PInv, NEW p \in PolicyInput, UpdateSigningPolicySettings(p)
    PROVE  PInv' /\ \A a \in Admin : Keeps(a)
<1>1. /\ signing' = p /\ adm' = Soil("signing", Nobody) /\ scanner' = scanner /\ override' = override
      /\ Anchored(p)
  BY DEF UpdateSigningPolicySettings, decodeSigningPolicySettings, Anchored
<1>2. p \in MaybeSigning
  BY PolicyAssumption DEF MaybeSigning
<1>3. \A g \in Scanner \cup {"signing"} : g # "signing" => Row(g)' = Row(g)
  BY <1>1 DEF Row
<1>4. /\ DOMAIN adm' = Admin /\ adm' = [a \in Admin |-> adm'[a]]
      /\ \A a \in Admin : CallerSound(adm'[a]) /\ adm'[a].op = adm[a].op /\ (a # Nobody => Fresh(a)')
  BY <1>1, <1>3, Soiled
<1>5. \A a \in Admin : Fresh(a)'
  BY <1>4, PolicyAssumption
<1>6. PInv'
  BY <1>1, <1>2, <1>4, <1>5 DEF PInv, Anchored
<1>7. \A a \in Admin : Keeps(a)
  BY <1>4 DEF Keeps
<1> QED
  BY <1>6, <1>7

LEMMA WritesScanner ==
    ASSUME PInv, NEW s \in ScannerInput, UpdateScanSettings(s)
    PROVE  PInv' /\ \A a \in Admin : Keeps(a)
<1>1. /\ signing' = signing /\ adm' = Soil("trivy", Nobody) /\ override' = override
      /\ scanner' = [scanner EXCEPT !["trivy"] = s]
  BY DEF UpdateScanSettings
<1>2. s \in MaybeScanner
  BY PolicyAssumption DEF MaybeScanner
<1>3. scanner' \in [Scanner -> MaybeScanner]
  BY <1>1, <1>2 DEF PInv
<1>4. \A g \in Scanner \cup {"signing"} : g # "trivy" => Row(g)' = Row(g)
  BY <1>1 DEF Row, PInv
<1>5. /\ DOMAIN adm' = Admin /\ adm' = [a \in Admin |-> adm'[a]]
      /\ \A a \in Admin : CallerSound(adm'[a]) /\ adm'[a].op = adm[a].op /\ (a # Nobody => Fresh(a)')
  BY <1>1, <1>4, Soiled DEF Scanner
<1>6. \A a \in Admin : Fresh(a)'
  BY <1>5, PolicyAssumption
<1>7. PInv'
  BY <1>1, <1>3, <1>5, <1>6 DEF PInv, Anchored
<1>8. \A a \in Admin : Keeps(a)
  BY <1>5 DEF Keeps
<1> QED
  BY <1>7, <1>8

LEMMA WritesOverride ==
    ASSUME PInv, NEW f \in Scanner \cup {"signing"}, NEW p,
           SetRepositoryOverride(f, p) \/ ClearRepositoryOverride(f)
    PROVE  PInv' /\ \A a \in Admin : Keeps(a)
<1>1. UNCHANGED <<signing, scanner, adm>>
  BY DEF SetRepositoryOverride, ClearRepositoryOverride
<1>2. CASE SetRepositoryOverride(f, p)
  <2>1. override' = [override EXCEPT ![f] = p] /\ (f = "signing" => Anchored(p))
    BY <1>2 DEF SetRepositoryOverride, normalizeSigningOverride, Anchored
  <2>2. Anchored(override'["signing"]) /\ DOMAIN override' = Scanner \cup {"signing"}
    BY <2>1 DEF PInv, Anchored
  <2> QED
    BY <1>1, <2>2, CallersAlone DEF PInv, Anchored
<1>3. CASE ClearRepositoryOverride(f)
  <2>1. override' = [override EXCEPT ![f] = NotStored]
    BY <1>3 DEF ClearRepositoryOverride
  <2>2. Anchored(override'["signing"]) /\ DOMAIN override' = Scanner \cup {"signing"}
    BY <2>1 DEF PInv, Anchored
  <2> QED
    BY <1>1, <2>2, CallersAlone DEF PInv, Anchored
<1> QED
  BY <1>2, <1>3

(* A caller reads its row.                                                 *)
LEMMA Reads ==
    ASSUME PInv, NEW b \in Admin, NEW op, NEW f, NEW patch, Begin(b, op, f, patch),
           UNCHANGED <<signing, scanner, override>>,
           \/ /\ op = "toggle" /\ f = "signing" /\ patch.enabled \in BOOLEAN
              /\ patch.enabled => GetSigningPolicySettings(signing).keys # {}
           \/ op = "configure" /\ f \in Scanner /\ patch \in ScannerPatch
           \/ op \in {"import", "ensure"} /\ f = "trivy" /\ patch \in ScannerPatch
    PROVE  PInv' /\ \A a \in Admin : Keeps(a)
<1>1. DOMAIN adm = Admin /\ adm[b].op = "idle"
  BY DEF PInv, Begin
<1>2. /\ DOMAIN adm' = Admin /\ adm' = [a \in Admin |-> adm'[a]]
      /\ \A a \in Admin : a # b => adm'[a] = adm[a]
      /\ adm'[b] = [op |-> op, feature |-> f, patch |-> patch, seen |-> Row(f), clean |-> TRUE]
  BY <1>1 DEF Begin
<1>3. Row(f) = IF f = "signing" THEN signing ELSE scanner[f]
  BY DEF Row
<1>4. CallerSound(adm'[b]) /\ adm'[b].op # "idle"
  BY <1>2, <1>3 DEF CallerSound, PInv, Scanner
<1>5. Fresh(b)'
  BY <1>2, <1>3 DEF Fresh, Row
<1>6. ASSUME NEW a \in Admin, a # b PROVE CallerSound(adm'[a]) /\ Fresh(a)'
  BY <1>2, <1>6 DEF PInv, Fresh, Row
<1>7. PInv'
  BY <1>2, <1>4, <1>5, <1>6 DEF PInv, Anchored
<1>8. \A a \in Admin : Keeps(a)
  BY <1>1, <1>2 DEF Keeps
<1> QED
  BY <1>7, <1>8

(* A caller writes its row, and is done.                                   *)
LEMMA Writes ==
    ASSUME PInv, NEW b \in Admin, NEW f \in Scanner \cup {"signing"}, NEW row, Write(b, f, row),
           UNCHANGED override,
           f = "signing" => row \in SigningRow /\ Anchored(row),
           f \in Scanner => row \in ScannerRow
    PROVE  /\ PInv'
           /\ \A a \in Admin : adm[a].op # "idle" /\ adm'[a].op = "idle" => a = b
           /\ f = "signing" => signing' = row /\ scanner' = scanner
           /\ f \in Scanner => /\ signing' = signing /\ scanner'[f] = row
                               /\ \A g \in Scanner : g # f => scanner'[g] = scanner[g]
<1> DEFINE soiled == Soil(f, b)
<1>1. /\ adm' = [soiled EXCEPT ![b] = AdmIdle]
      /\ f = "signing" => signing' = row /\ scanner' = scanner
      /\ f # "signing" => scanner' = [scanner EXCEPT ![f] = row] /\ signing' = signing
  BY DEF Write
<1>2. f \in Scanner => f # "signing"
  BY DEF Scanner
<1>3. /\ signing' \in MaybeSigning /\ Anchored(signing') /\ scanner' \in [Scanner -> MaybeScanner]
      /\ f = "signing" => signing' = row /\ scanner' = scanner
      /\ f \in Scanner => /\ signing' = signing /\ scanner'[f] = row
                          /\ \A g \in Scanner : g # f => scanner'[g] = scanner[g]
  BY <1>1, <1>2 DEF PInv, MaybeSigning, MaybeScanner
<1>4. DOMAIN soiled = Admin
  BY DEF Soil
<1>5. \A a \in Admin : soiled[a] = IF a # b /\ adm[a].feature = f THEN [adm[a] EXCEPT !.clean = FALSE]
                                   ELSE adm[a]
  BY DEF Soil
<1> HIDE DEF soiled
<1>6. /\ DOMAIN adm' = Admin /\ adm' = [a \in Admin |-> adm'[a]] /\ adm'[b] = AdmIdle
      /\ \A a \in Admin : a # b => adm'[a] = soiled[a]
  BY <1>1, <1>4
<1>7. CallerSound(adm'[b]) /\ Fresh(b)'
  BY <1>6 DEF CallerSound, AdmIdle, Fresh
<1>8. ASSUME NEW a \in Admin, a # b
      PROVE  CallerSound(adm'[a]) /\ Fresh(a)' /\ adm'[a].op = adm[a].op
  <2>1. CallerSound(adm[a]) /\ Fresh(a)
    BY DEF PInv
  <2>2. CASE adm[a].feature = f
    <3>1. adm'[a] = [adm[a] EXCEPT !.clean = FALSE]
      BY <1>5, <1>6, <1>8, <2>2
    <3>2. /\ DOMAIN adm'[a] = DOMAIN adm[a] /\ adm'[a].op = adm[a].op /\ adm'[a].feature = adm[a].feature
          /\ adm'[a].patch = adm[a].patch /\ adm'[a].seen = adm[a].seen /\ adm'[a].clean = FALSE
      BY <2>1, <3>1 DEF CallerSound
    <3> QED
      BY <2>1, <3>2 DEF CallerSound, Fresh
  <2>3. CASE adm[a].feature # f
    <3>1. adm'[a] = adm[a]
      BY <1>5, <1>6, <1>8, <2>3
    <3>2. adm[a].op # "idle" => Row(adm[a].feature)' = Row(adm[a].feature)
      <4>1. adm[a].op # "idle" => adm[a].feature \in Scanner \cup {"signing"}
        BY <2>1 DEF CallerSound
      <4> QED
        BY <1>2, <1>3, <2>3, <3>1, <4>1 DEF Row
    <3> QED
      BY <2>1, <3>1, <3>2 DEF Fresh
  <2> QED
    BY <2>2, <2>3
<1>9. PInv'
  BY <1>3, <1>6, <1>7, <1>8 DEF PInv, Anchored
<1> QED
  BY <1>3, <1>8, <1>9

LEMMA FinishesToggle ==
    ASSUME PInv, NEW b \in Admin, FinishToggleSigning(b)
    PROVE  PInv' /\ \A a \in Admin : Keeps(a)
<1> DEFINE c == adm[b]
           old == GetSigningPolicySettings(c.seen)
           row == [old EXCEPT !.enabled = c.patch.enabled]
<1>1. CallerSound(c) /\ Fresh(b) /\ c.op = "toggle"
  BY DEF PInv, FinishToggleSigning
<1>2. old \in SigningRow /\ c.patch.enabled \in BOOLEAN /\ (c.patch.enabled => old.keys # {})
      /\ c.feature = "signing"
  BY <1>1, Meant DEF CallerSound
<1>3. Write(b, "signing", row) /\ override' = override
  BY DEF FinishToggleSigning
<1> HIDE DEF old
<1>4. row \in SigningRow /\ row.keys = old.keys /\ row.enabled = c.patch.enabled
  BY <1>2 DEF SigningRow
<1>5. Anchored(row)
  BY <1>2, <1>4 DEF Anchored
<1> HIDE DEF row, c
<1>6. /\ PInv' /\ signing' = row /\ scanner' = scanner
      /\ \A a \in Admin : adm[a].op # "idle" /\ adm'[a].op = "idle" => a = b
  BY <1>3, <1>4, <1>5, Writes DEF Scanner
<1>7. c.clean => old = GetSigningPolicySettings(signing)
  BY <1>1, <1>2 DEF Fresh, Row, old, c
<1>8. GetSigningPolicySettings(signing').keys = old.keys
  BY <1>4, <1>6, Meant
<1>9. Keeps(b)
  BY <1>6, <1>7, <1>8 DEF Keeps, c
<1> QED
  BY <1>6, <1>9 DEF Keeps

(* A caller that writes a merged row keeps what its input leaves out.      *)
LEMMA WritesMerged ==
    ASSUME PInv, NEW b \in Admin, adm[b].op \in {"configure", "ensure"},
           NEW seen \in MaybeScanner, adm[b].clean => scanner[adm[b].feature] = seen,
           Write(b, adm[b].feature, mergeFeatureSettings(seen, adm[b].patch)), UNCHANGED override
    PROVE  PInv' /\ \A a \in Admin : Keeps(a)
<1> DEFINE f == adm[b].feature
           patch == adm[b].patch
           row == mergeFeatureSettings(seen, patch)
<1>1. f \in Scanner /\ patch \in ScannerPatch /\ f # "signing"
  BY DEF PInv, CallerSound, Scanner
<1>2. row \in ScannerRow
      /\ \A field \in {"enabled", "schedule"} \ DOMAIN patch : row[field] = LoadSettings(seen)[field]
  BY <1>1, Merged
<1>3. Write(b, f, row)
  OBVIOUS
<1> HIDE DEF f, patch, row
<1>4. /\ PInv' /\ signing' = signing /\ scanner'[f] = row
      /\ \A g \in Scanner : g # f => scanner'[g] = scanner[g]
      /\ \A a \in Admin : adm[a].op # "idle" /\ adm'[a].op = "idle" => a = b
  BY <1>1, <1>2, <1>3, Writes
<1>5. LoadSettings(row) = row
  BY <1>2, Meant
<1>6. Keeps(b)
  <2> SUFFICES ASSUME adm[b].clean, NEW g \in Scanner, NEW field \in {"enabled", "schedule"} \ DOMAIN patch
               PROVE  LoadSettings(scanner'[g])[field] = LoadSettings(scanner[g])[field]
    BY <1>4 DEF Keeps, patch
  <2>1. CASE g = f
    <3>1. scanner[f] = seen
      BY DEF f
    <3> QED
      BY <1>2, <1>4, <1>5, <2>1, <3>1
  <2>2. CASE g # f
    BY <1>4, <2>2
  <2> QED
    BY <2>1, <2>2
<1> QED
  BY <1>4, <1>6 DEF Keeps

(* A caller finds its row there, and is done; or reads it again.           *)
LEMMA LooksAgain ==
    ASSUME PInv, NEW b \in Admin, NEW c, adm' = [adm EXCEPT ![b] = c], CallerSound(c),
           c.op # "idle" /\ c.clean => c.seen = Row(c.feature),
           UNCHANGED <<signing, scanner, override>>
    PROVE  PInv' /\ \A a \in Admin : Keeps(a)
<1>1. /\ DOMAIN adm' = Admin /\ adm' = [a \in Admin |-> adm'[a]] /\ adm'[b] = c
      /\ \A a \in Admin : a # b => adm'[a] = adm[a]
  BY DEF PInv
<1>2. Fresh(b)'
  BY <1>1 DEF Fresh, Row
<1>3. ASSUME NEW a \in Admin, a # b PROVE CallerSound(adm'[a]) /\ Fresh(a)'
  BY <1>1, <1>3 DEF PInv, Fresh, Row
<1>4. PInv'
  BY <1>1, <1>2, <1>3 DEF PInv, Anchored
<1> QED
  BY <1>4 DEF Keeps

LEMMA ImportsLegacy ==
    ASSUME PInv, NEW b \in Admin, ImportLegacyFeatureConfigIfMissing(b)
    PROVE  PInv' /\ \A a \in Admin : Keeps(a)
<1>1. CallerSound(adm[b]) /\ adm[b].op = "import" /\ b \in DOMAIN adm
  BY DEF PInv, ImportLegacyFeatureConfigIfMissing
<1>2. UNCHANGED <<signing, scanner, override>>
  BY DEF ImportLegacyFeatureConfigIfMissing
<1>3. CASE adm[b].seen # NotStored
  <2>1. adm' = [adm EXCEPT ![b] = AdmIdle]
    BY <1>1, <1>3 DEF ImportLegacyFeatureConfigIfMissing
  <2>2. CallerSound(AdmIdle) /\ AdmIdle.op = "idle"
    BY DEF CallerSound, AdmIdle
  <2> QED
    BY <1>2, <2>1, <2>2, LooksAgain
<1>4. CASE adm[b].seen = NotStored
  <2> DEFINE c == [adm[b] EXCEPT !.op = "configure", !.seen = Row("trivy"), !.clean = TRUE]
  <2>1. adm' = [adm EXCEPT ![b] = c]
    BY <1>1, <1>4 DEF ImportLegacyFeatureConfigIfMissing
  <2>2. /\ DOMAIN c = DOMAIN adm[b] /\ c.op = "configure" /\ c.seen = Row("trivy")
        /\ c.feature = adm[b].feature /\ c.patch = adm[b].patch
    BY <1>1 DEF CallerSound
  <2>3. Row("trivy") \in MaybeScanner
    BY DEF PInv, Row, Scanner
  <2> HIDE DEF c
  <2>4. CallerSound(c) /\ c.feature = "trivy"
    BY <1>1, <2>2, <2>3 DEF CallerSound
  <2> QED
    BY <1>2, <2>1, <2>2, <2>4, LooksAgain
<1> QED
  BY <1>3, <1>4

LEMMA EnsuresSettings ==
    ASSUME PInv, NEW b \in Admin, EnsureScanSettings(b)
    PROVE  PInv' /\ \A a \in Admin : Keeps(a)
<1>1. CallerSound(adm[b]) /\ adm[b].op = "ensure" /\ Fresh(b) /\ adm[b].feature = "trivy"
  BY DEF PInv, EnsureScanSettings, CallerSound
<1>2. CASE adm[b].seen # NotStored
  <2>1. adm' = [adm EXCEPT ![b] = AdmIdle] /\ UNCHANGED <<signing, scanner, override>>
    BY <1>2 DEF EnsureScanSettings
  <2>2. CallerSound(AdmIdle) /\ AdmIdle.op = "idle"
    BY DEF CallerSound, AdmIdle
  <2> QED
    BY <2>1, <2>2, LooksAgain
<1>3. CASE adm[b].seen = NotStored
  <2>1. Write(b, adm[b].feature, mergeFeatureSettings(NotStored, adm[b].patch)) /\ override' = override
    BY <1>1, <1>3 DEF EnsureScanSettings
  <2>2. adm[b].clean => scanner[adm[b].feature] = NotStored
    BY <1>1, <1>3 DEF Fresh, Row
  <2>3. NotStored \in MaybeScanner
    BY DEF MaybeScanner
  <2> QED
    BY <1>1, <2>1, <2>2, <2>3, WritesMerged
<1> QED
  BY <1>2, <1>3

(* One step of anybody.                                                    *)
LEMMA PolicyStep ==
    ASSUME PInv, [PolicyNext]_policyVars
    PROVE  PInv' /\ \A a \in Admin : Keeps(a)
<1>1. CASE /\ UNCHANGED <<signing, scanner, adm>>
           /\ UNCHANGED override
  BY <1>1, CallersAlone DEF PInv, Anchored
<1>2. ASSUME NEW p \in PolicyInput, UpdateSigningPolicySettings(p) PROVE PInv' /\ \A a \in Admin : Keeps(a)
  BY <1>2, WritesSigning
<1>3. ASSUME NEW f \in Scanner \cup {"signing"}, NEW p,
             SetRepositoryOverride(f, p) \/ ClearRepositoryOverride(f)
      PROVE  PInv' /\ \A a \in Admin : Keeps(a)
  BY <1>3, WritesOverride
<1>4. ASSUME NEW p, UpdateScanPolicySettings(p) PROVE PInv' /\ \A a \in Admin : Keeps(a)
  BY <1>1, <1>4 DEF UpdateScanPolicySettings
<1>5. ASSUME NEW s \in ScannerInput, UpdateScanSettings(s) PROVE PInv' /\ \A a \in Admin : Keeps(a)
  BY <1>5, WritesScanner
<1>6. ASSUME NEW a \in Admin, NEW on \in BOOLEAN, BeginToggleSigning(a, on)
      PROVE  PInv' /\ \A x \in Admin : Keeps(x)
  <2>1. Begin(a, "toggle", "signing", [enabled |-> on]) /\ UNCHANGED <<signing, scanner, override>>
    BY <1>6 DEF BeginToggleSigning
  <2>2. on => GetSigningPolicySettings(signing).keys # {}
    BY <1>6 DEF BeginToggleSigning, setSigningFeatureEnabled
  <2> QED
    BY <2>1, <2>2, Reads
<1>7. ASSUME NEW a \in Admin, NEW f \in Scanner, NEW patch \in ScannerPatch, BeginConfigure(a, f, patch)
      PROVE  PInv' /\ \A x \in Admin : Keeps(x)
  <2>1. Begin(a, "configure", f, patch) /\ UNCHANGED <<signing, scanner, override>>
    BY <1>7 DEF BeginConfigure
  <2> QED
    BY <2>1, Reads
<1>8. ASSUME NEW a \in Admin, NEW s \in ScannerInput, BeginImport(a, s) \/ BeginEnsure(a, s)
      PROVE  PInv' /\ \A x \in Admin : Keeps(x)
  <2>1. PICK op \in {"import", "ensure"} : /\ Begin(a, op, "trivy", s)
                                           /\ UNCHANGED <<signing, scanner, override>>
    BY <1>8 DEF BeginImport, BeginEnsure
  <2>2. s \in ScannerPatch
    <3>1. s \in ScannerRow
      BY PolicyAssumption
    <3>2. s \in [{"enabled", "schedule"} -> BOOLEAN]
      BY <3>1 DEF ScannerRow
    <3> QED
      BY <3>2 DEF ScannerPatch
  <2> QED
    BY <2>1, <2>2, Reads
<1>9. ASSUME NEW a \in Admin, ConfigureFeature(a) PROVE PInv' /\ \A x \in Admin : Keeps(x)
  <2>1. /\ CallerSound(adm[a]) /\ Fresh(a) /\ adm[a].op = "configure" /\ override' = override
        /\ Write(a, adm[a].feature, mergeFeatureSettings(adm[a].seen, adm[a].patch))
    BY <1>9 DEF ConfigureFeature, PInv
  <2>2. adm[a].seen \in MaybeScanner /\ adm[a].feature # "signing"
    BY <2>1 DEF CallerSound, Scanner
  <2>3. adm[a].clean => scanner[adm[a].feature] = adm[a].seen
    BY <2>1, <2>2 DEF Fresh, Row
  <2> QED
    BY <2>1, <2>2, <2>3, WritesMerged
<1>10. CASE GateSettingsNext
  BY <1>2, <1>3, <1>4, <1>6, <1>10, FinishesToggle DEF GateSettingsNext
<1>11. CASE ScannerSettingsNext
  BY <1>3, <1>5, <1>7, <1>8, <1>9, <1>11, ImportsLegacy, EnsuresSettings DEF ScannerSettingsNext
<1> QED
  BY <1>1, <1>10, <1>11 DEF PolicyNext, policyVars

(* However the writers of settings interleave, neither the signing policy  *)
(* nor its override is ever enabled without an anchor, and a merge into a  *)
(* row nobody else wrote keeps every field its input leaves out.           *)
(* (feature_registry.go ConfigureFeature, setSigningFeatureEnabled)        *)
THEOREM MergesAlwaysKeepTheRest == PolicySpec => MergesKeepTheRest
<1>1. PolicyInit => PInv
  <2> SUFFICES ASSUME PolicyInit PROVE PInv
    OBVIOUS
  <2>1. ASSUME NEW a \in Admin PROVE CallerSound(adm[a]) /\ Fresh(a)
    BY DEF PolicyInit, AdmIdle, CallerSound, Fresh
  <2> QED
    BY <2>1 DEF PolicyInit, PInv, MaybeSigning, MaybeScanner, Anchored
<1>2. PInv /\ [PolicyNext]_policyVars => PInv'
  BY PolicyStep
<1>3. PInv /\ PInv' /\ [PolicyNext]_policyVars =>
        [NoTotalOutage' /\ \A a \in Admin :
          adm[a].op # "idle" /\ adm'[a].op = "idle" /\ adm[a].clean =>
              /\ GetSigningPolicySettings(signing').keys = GetSigningPolicySettings(signing).keys
              /\ \A f \in Scanner, field \in {"enabled", "schedule"} \ DOMAIN adm[a].patch :
                    LoadSettings(scanner'[f])[field] = LoadSettings(scanner[f])[field]]_policyVars
  <2> SUFFICES ASSUME PInv, PInv', [PolicyNext]_policyVars
               PROVE  NoTotalOutage' /\ \A a \in Admin : Keeps(a)
    BY DEF Keeps
  <2>1. NoTotalOutage'
    BY DEF PInv, Anchored, NoTotalOutage
  <2> QED
    BY <2>1, PolicyStep
<1> QED
  BY <1>1, <1>2, <1>3, PTL DEF PolicySpec, MergesKeepTheRest

-----------------------------------------------------------------------------
(***************************************************************************)
(* Secret scans.  A leg that has looked for an active run knows that the   *)
(* runs it saw are over or overdue, until it inserts its own: time makes   *)
(* the older ones overdue first, and looking at the newest is enough.      *)
(***************************************************************************)
SRow == [image : Image, status : {"running", "lost", "completed", "failed"},
         findings : BOOLEAN, overdue : BOOLEAN, seen : Nat]

LegFields == {"pc", "image", "settings", "seen", "row"}

LegSound(l) ==
    /\ DOMAIN legs[l] = LegFields
    /\ legs[l].image \in Image /\ legs[l].seen \in Nat
    /\ legs[l].pc \in {"orphan", "scan"} => legs[l].row \in DOMAIN srows
    /\ legs[l].pc \in {"orphan", "gate", "insert"} => legs[l].seen <= Len(srows)

InFlight(r) == srows[r].status \in ActiveStatus

\* What the leg saw does not run any more, or is overdue.
Cleared(l) ==
    legs[l].pc \in {"orphan", "gate", "insert"} =>
        \A r \in DOMAIN srows :
            r <= legs[l].seen /\ srows[r].image = legs[l].image /\ InFlight(r) => srows[r].overdue

OlderFirst ==
    \A r, s \in DOMAIN srows : r < s /\ InFlight(r) /\ InFlight(s) /\ srows[s].overdue => srows[r].overdue

SInv ==
    /\ srows \in Seq(SRow)
    /\ DOMAIN legs = Leg
    /\ DOMAIN ask = {"pc", "enabled", "answer"}
    /\ \A l \in Leg : LegSound(l) /\ Cleared(l)
    /\ OlderFirst
    /\ SecretDuplicateNeedsOverlap

\* A step of one leg that leaves the rows alone.
LEMMA LegMoves ==
    ASSUME SInv, NEW l \in Leg, srows' = srows, ask' = ask,
           DOMAIN legs' = Leg, \A k \in Leg : k # l => legs'[k] = legs[k],
           LegSound(l)', Cleared(l)'
    PROVE  SInv'
<1>1. ASSUME NEW k \in Leg PROVE LegSound(k)' /\ Cleared(k)'
  <2>1. CASE k = l
    BY <2>1
  <2>2. CASE k # l
    BY <2>2 DEF SInv, LegSound, Cleared, InFlight
  <2> QED
    BY <2>1, <2>2
<1> QED
  BY <1>1 DEF SInv, OlderFirst, SecretDuplicateNeedsOverlap, InFlight

(* A leg ends.                                                             *)
LEMMA LegLeaves ==
    ASSUME SInv, NEW l \in Leg, Leave(l), srows' = srows, ask' = ask
    PROVE  SInv'
<1>1. /\ DOMAIN legs' = Leg /\ legs'[l] = LegIdle
      /\ \A k \in Leg : k # l => legs'[k] = legs[k]
  BY DEF SInv, Leave
<1>2. LegSound(l)' /\ Cleared(l)'
  BY <1>1 DEF LegSound, Cleared, LegIdle, LegFields, Image
<1> QED
  BY <1>1, <1>2, LegMoves

(* A leg goes on without looking at the rows.                              *)
LEMMA LegAdvances ==
    ASSUME SInv, NEW l \in Leg, NEW pc, Advance(l, pc), srows' = srows, ask' = ask,
           pc \notin {"orphan", "scan"},
           pc \in {"gate", "insert"} => legs[l].pc \in {"orphan", "gate", "insert"}
    PROVE  SInv'
<1>1. /\ DOMAIN legs' = Leg /\ \A k \in Leg : k # l => legs'[k] = legs[k]
  BY DEF SInv, Advance
<1>2. /\ DOMAIN legs'[l] = LegFields /\ legs'[l].pc = pc /\ legs'[l].image = legs[l].image
      /\ legs'[l].seen = legs[l].seen
  BY DEF SInv, Advance, LegSound, LegFields
<1>3. LegSound(l)' /\ Cleared(l)'
  BY <1>2 DEF SInv, LegSound, Cleared, InFlight
<1> QED
  BY <1>1, <1>3, LegMoves

(* A set of row numbers has a last one.                                    *)
LEMMA LastExists ==
    ASSUME NEW n \in Nat, NEW S \in SUBSET (1 .. n), S # {}
    PROVE  \E i \in S : \A j \in S : j <= i
<1> DEFINE T == {k \in Nat : n - k \in S}
<1>1. T # {}
  <2>1. PICK j \in S : TRUE
    OBVIOUS
  <2>2. n - j \in Nat /\ n - (n - j) = j
    BY <2>1
  <2> QED
    BY <2>1, <2>2
<1>2. PICK k \in T : \A m \in T : k <= m
  <2> DEFINE less == OpToRel(<, Nat)
  <2>1. IsWellFoundedOn(less, Nat) /\ T \subseteq Nat
    BY NatLessThanWellFounded
  <2>2. \A k, m \in Nat : m < k => <<m, k>> \in less
    BY DEF OpToRel
  <2> HIDE DEF less, T
  <2>3. PICK k \in T : \A m \in T : ~(<<m, k>> \in less)
    BY <1>1, <2>1, WFMin
  <2>4. \A m \in T : ~(m < k)
    BY <2>1, <2>2, <2>3
  <2> QED
    BY <2>1, <2>3, <2>4
<1>3. \A j \in S : n - j \in Nat /\ n - (n - j) = j
  OBVIOUS
<1>4. \A j \in S : n - j \in T
  BY <1>3
<1> QED
  BY <1>2, <1>4

(* A leg looks for an active run.                                          *)
LEMMA ChecksActive ==
    ASSUME SInv, NEW l \in Leg, CheckActive(l)
    PROVE  SInv'
<1> DEFINE active == ActiveRows(legs[l].image)
           newest == CHOOSE r \in active : \A s \in active : s <= r
<1>1. srows' = srows /\ ask' = ask /\ l \in DOMAIN legs /\ DOMAIN legs[l] = LegFields
      /\ legs[l].image \in Image /\ Len(srows) \in Nat /\ DOMAIN srows = 1 .. Len(srows)
  BY DEF SInv, CheckActive, LegSound
<1>2. CASE active = {}
  <2>1. legs' = [legs EXCEPT ![l].pc = "gate", ![l].seen = Len(srows)]
    BY <1>2 DEF CheckActive
  <2>2. /\ DOMAIN legs' = Leg /\ \A k \in Leg : k # l => legs'[k] = legs[k]
        /\ DOMAIN legs'[l] = LegFields /\ legs'[l].pc = "gate" /\ legs'[l].image = legs[l].image
        /\ legs'[l].seen = Len(srows)
    BY <1>1, <2>1 DEF SInv, LegFields
  <2>3. LegSound(l)' /\ Cleared(l)'
    BY <1>1, <1>2, <2>2 DEF LegSound, Cleared, InFlight, ActiveRows
  <2> QED
    BY <1>1, <2>2, <2>3, LegMoves
<1>3. CASE active # {} /\ ~srows[newest].overdue
  BY <1>1, <1>3, LegLeaves DEF CheckActive
<1>4. CASE active # {} /\ srows[newest].overdue
  <2>1. legs' = [legs EXCEPT ![l].pc = "orphan", ![l].seen = Len(srows), ![l].row = newest]
    BY <1>4 DEF CheckActive
  <2>2. newest \in active /\ \A s \in active : s <= newest
    <3>1. active \subseteq 1 .. Len(srows)
      BY <1>1 DEF ActiveRows
    <3>2. \E r \in active : \A s \in active : s <= r
      BY <1>1, <1>4, <3>1, LastExists
    <3> QED
      BY <3>2
  <2> HIDE DEF newest
  <2>3. newest \in DOMAIN srows /\ InFlight(newest) /\ srows[newest].image = legs[l].image
    BY <2>2 DEF ActiveRows, InFlight
  <2>4. /\ DOMAIN legs' = Leg /\ \A k \in Leg : k # l => legs'[k] = legs[k]
        /\ DOMAIN legs'[l] = LegFields /\ legs'[l].pc = "orphan" /\ legs'[l].image = legs[l].image
        /\ legs'[l].seen = Len(srows) /\ legs'[l].row = newest
    BY <1>1, <2>1 DEF SInv, LegFields
  <2>5. LegSound(l)'
    BY <1>1, <2>3, <2>4 DEF LegSound
  <2>6. ASSUME NEW r \in DOMAIN srows, srows[r].image = legs[l].image, InFlight(r)
        PROVE  srows[r].overdue
    <3>1. r \in active
      BY <2>6 DEF ActiveRows, InFlight
    <3>2. r = newest \/ r < newest
      BY <1>1, <2>2, <2>3, <3>1
    <3> QED
      BY <1>4, <2>3, <2>6, <3>2 DEF SInv, OlderFirst
  <2>7. Cleared(l)'
    BY <1>1, <2>4, <2>6 DEF Cleared, InFlight
  <2> QED
    BY <1>1, <2>4, <2>5, <2>7, LegMoves
<1> QED
  BY <1>2, <1>3, <1>4

(* A leg that fails an overdue run, and one that ends its own: the row is  *)
(* not in flight any more, and no other one changes.                       *)
LEMMA RowSettles ==
    ASSUME SInv, NEW r \in DOMAIN srows, NEW row \in SRow, srows' = [srows EXCEPT ![r] = row],
           row.status \notin ActiveStatus, ask' = ask, DOMAIN legs' = Leg,
           \A k \in Leg : \/ legs'[k] = LegIdle
                          \/ legs'[k] = legs[k]
                          \/ legs[k].pc = "orphan" /\ legs'[k] = [legs[k] EXCEPT !.pc = "gate"]
    PROVE  SInv'
<1>1. /\ srows' \in Seq(SRow) /\ DOMAIN srows' = DOMAIN srows
      /\ \A s \in DOMAIN srows : IF s = r THEN srows'[s] = row ELSE srows'[s] = srows[s]
  BY DEF SInv
<1>2. \A s \in DOMAIN srows : InFlight(s)' => srows'[s] = srows[s] /\ InFlight(s)
  BY <1>1 DEF InFlight
<1>3. ASSUME NEW k \in Leg PROVE LegSound(k)' /\ Cleared(k)'
  <2>1. CASE legs'[k] = LegIdle
    BY <2>1 DEF LegSound, Cleared, LegIdle, LegFields, Image
  <2>2. CASE legs'[k] = legs[k]
    BY <1>1, <1>2, <2>2 DEF SInv, LegSound, Cleared
  <2>3. CASE legs[k].pc = "orphan" /\ legs'[k] = [legs[k] EXCEPT !.pc = "gate"]
    <3>1. /\ DOMAIN legs'[k] = LegFields /\ legs'[k].pc = "gate" /\ legs'[k].image = legs[k].image
          /\ legs'[k].seen = legs[k].seen
      BY <2>3 DEF SInv, LegSound, LegFields
    <3> QED
      BY <1>1, <1>2, <2>3, <3>1 DEF SInv, LegSound, Cleared
  <2> QED
    BY <1>3, <2>1, <2>2, <2>3
<1>4. OlderFirst'
  BY <1>1, <1>2 DEF SInv, OlderFirst
<1>5. SecretDuplicateNeedsOverlap'
  BY <1>1, <1>2 DEF SInv, SecretDuplicateNeedsOverlap, InFlight
<1> QED
  BY <1>1, <1>3, <1>4, <1>5 DEF SInv

LEMMA FailsOrphan ==
    ASSUME SInv, NEW l \in Leg, FailOrphan(l)
    PROVE  SInv'
<1> DEFINE r == legs[l].row
           row == [srows[r] EXCEPT !.status = "failed"]
<1>1. r \in DOMAIN srows /\ l \in DOMAIN legs /\ legs[l].pc = "orphan" /\ srows[r] \in SRow
  BY DEF SInv, FailOrphan, LegSound
<1>2. row \in SRow /\ row.status \notin ActiveStatus
  BY <1>1 DEF SRow, ActiveStatus
<1>3. /\ srows' = [srows EXCEPT ![r] = row] /\ ask' = ask
      /\ legs' = [legs EXCEPT ![l] = [legs[l] EXCEPT !.pc = "gate"]]
  BY DEF FailOrphan, Advance
<1>4. DOMAIN legs' = Leg
      /\ \A k \in Leg : \/ legs'[k] = legs[k]
                        \/ legs[k].pc = "orphan" /\ legs'[k] = [legs[k] EXCEPT !.pc = "gate"]
  BY <1>1, <1>3 DEF SInv
<1> HIDE DEF r, row
<1> QED
  BY <1>1, <1>2, <1>3, <1>4, RowSettles

LEMMA FinishesScan ==
    ASSUME SInv, NEW l \in Leg, FinishScan(l)
    PROVE  SInv'
<1>1. CASE srows' = srows
  BY <1>1, LegLeaves DEF FinishScan
<1>2. CASE srows' # srows
  <2> DEFINE r == legs[l].row
  <2>1. r \in DOMAIN srows /\ srows[r] \in SRow
    BY DEF SInv, FinishScan, LegSound
  <2>2. PICK status \in {"completed", "failed"}, found \in BOOLEAN :
          srows' = [srows EXCEPT ![r].status = status, ![r].findings = found /\ status = "completed"]
    BY <1>2 DEF FinishScan
  <2> DEFINE row == [srows[r] EXCEPT !.status = status, !.findings = found /\ status = "completed"]
  <2>3. row \in SRow /\ row.status \notin ActiveStatus
    BY <2>1 DEF SRow, ActiveStatus
  <2>4. srows' = [srows EXCEPT ![r] = row] /\ ask' = ask
    BY <2>1, <2>2 DEF FinishScan
  <2>5. DOMAIN legs' = Leg /\ \A k \in Leg : legs'[k] = LegIdle \/ legs'[k] = legs[k]
    BY DEF SInv, FinishScan, Leave
  <2> HIDE DEF r, row
  <2> QED
    BY <2>1, <2>3, <2>4, <2>5, RowSettles
<1> QED
  BY <1>1, <1>2

(* A leg inserts its row: the runs it saw are over or overdue, the others  *)
(* came after it looked.                                                   *)
LEMMA InsertsRow ==
    ASSUME SInv, NEW l \in Leg, InsertRow(l)
    PROVE  SInv'
<1> DEFINE n == Len(srows)
<1>1. PICK status \in {"running", "lost"} :
        srows' = Append(srows, [image |-> legs[l].image, status |-> status, findings |-> FALSE,
                                overdue |-> FALSE, seen |-> legs[l].seen])
  BY DEF InsertRow
<1> DEFINE row == [image |-> legs[l].image, status |-> status, findings |-> FALSE,
                   overdue |-> FALSE, seen |-> legs[l].seen]
<1>2. row \in SRow /\ l \in DOMAIN legs /\ DOMAIN legs[l] = LegFields /\ legs[l].pc = "insert"
  BY DEF SInv, LegSound, SRow, InsertRow
<1>3. n \in Nat /\ DOMAIN srows = 1 .. n
  BY DEF SInv
<1>4. row.image = legs[l].image /\ row.seen = legs[l].seen /\ ~row.overdue
  OBVIOUS
<1> HIDE DEF row
<1>5. /\ srows' \in Seq(SRow) /\ DOMAIN srows' = 1 .. (n + 1) /\ srows'[n + 1] = row
      /\ \A s \in DOMAIN srows : srows'[s] = srows[s]
  BY <1>1, <1>2, <1>3 DEF SInv, row
<1>6. legs' = [legs EXCEPT ![l].pc = "scan", ![l].row = n + 1] /\ ask' = ask
  BY DEF InsertRow
<1>7. /\ DOMAIN legs' = Leg /\ \A k \in Leg : k # l => legs'[k] = legs[k]
      /\ DOMAIN legs'[l] = LegFields /\ legs'[l].pc = "scan" /\ legs'[l].image = legs[l].image
      /\ legs'[l].seen = legs[l].seen /\ legs'[l].row = n + 1
  BY <1>2, <1>6 DEF SInv, LegFields
<1> HIDE DEF n
<1>8. \A s \in DOMAIN srows : InFlight(s)' = InFlight(s)
  BY <1>5 DEF InFlight
<1>9. \A s \in DOMAIN srows' : s \in DOMAIN srows \/ s = n + 1
  BY <1>3, <1>5
<1>10. ASSUME NEW k \in Leg PROVE LegSound(k)' /\ Cleared(k)'
  <2>1. CASE k = l
    BY <1>3, <1>5, <1>7, <2>1 DEF SInv, LegSound, Cleared
  <2>2. CASE k # l
    <3>1. LegSound(k)'
      BY <1>3, <1>5, <1>7, <2>2 DEF SInv, LegSound
    <3>2. Cleared(k)'
      <4> SUFFICES ASSUME legs[k].pc \in {"orphan", "gate", "insert"}, NEW s \in DOMAIN srows',
                          s <= legs[k].seen, srows'[s].image = legs[k].image, InFlight(s)'
                   PROVE  srows'[s].overdue
        BY <1>7, <2>2 DEF Cleared
      <4>1. s \in DOMAIN srows
        BY <1>3, <1>9, <2>2 DEF SInv, LegSound
      <4> QED
        BY <1>5, <1>8, <4>1 DEF SInv, Cleared
    <3> QED
      BY <3>1, <3>2
  <2> QED
    BY <2>1, <2>2
<1>11. OlderFirst'
  BY <1>3, <1>4, <1>5, <1>8, <1>9 DEF SInv, OlderFirst
<1>12. SecretDuplicateNeedsOverlap'
  <2> SUFFICES ASSUME NEW r \in DOMAIN srows', NEW s \in DOMAIN srows', r < s,
                      srows'[r].image = srows'[s].image, InFlight(r)', InFlight(s)'
               PROVE  srows'[r].overdue \/ srows'[s].seen < r
    BY DEF SecretDuplicateNeedsOverlap, InFlight
  <2>1. r \in DOMAIN srows
    BY <1>3, <1>5
  <2>2. CASE s \in DOMAIN srows
    BY <1>5, <1>8, <2>1, <2>2 DEF SInv, SecretDuplicateNeedsOverlap, InFlight
  <2>3. CASE s = n + 1
    <3>1. legs[l].seen \in Nat /\ srows[r].image = legs[l].image /\ InFlight(r) /\ r \in Nat
      BY <1>3, <1>4, <1>5, <1>8, <2>1, <2>3 DEF SInv, LegSound
    <3>2. r <= legs[l].seen => srows[r].overdue
      BY <1>2, <2>1, <3>1 DEF SInv, Cleared
    <3> QED
      BY <1>4, <1>5, <2>1, <2>3, <3>1, <3>2
  <2> QED
    BY <1>9, <2>2, <2>3
<1> QED
  BY <1>5, <1>6, <1>7, <1>10, <1>11, <1>12 DEF SInv

(* Time passes: the older runs in flight are overdue first.                *)
LEMMA RunsOverdue ==
    ASSUME SInv, NEW r \in DOMAIN srows, Overdue(r)
    PROVE  SInv'
<1>1. DOMAIN srows = 1 .. Len(srows) /\ Len(srows) \in Nat /\ \A s \in DOMAIN srows : srows[s] \in SRow
  BY DEF SInv
<1>2. UNCHANGED <<legs, ask>> /\ DOMAIN srows' = DOMAIN srows
  BY DEF Overdue
<1>3. ASSUME NEW s \in DOMAIN srows
      PROVE  /\ srows'[s] \in SRow /\ srows'[s].status = srows[s].status
             /\ srows'[s].image = srows[s].image /\ srows'[s].seen = srows[s].seen
             /\ srows'[s].overdue <=> (srows[s].overdue \/ (s <= r /\ InFlight(s)))
  <2>1. srows'[s] = [srows[s] EXCEPT !.overdue = @ \/ (s <= r /\ srows[s].status \in ActiveStatus)]
    BY DEF Overdue
  <2>2. srows[s].overdue \in BOOLEAN
    BY <1>1 DEF SRow
  <2> QED
    BY <1>1, <2>1, <2>2 DEF SRow, InFlight
<1>4. srows' \in Seq(SRow)
  <2>1. srows' = [s \in 1 .. Len(srows) |-> srows'[s]]
    BY <1>1 DEF Overdue
  <2> QED
    BY <1>1, <1>3, <2>1
<1>5. \A s \in DOMAIN srows : InFlight(s)' = InFlight(s)
  BY <1>3 DEF InFlight
<1>6. ASSUME NEW k \in Leg PROVE LegSound(k)' /\ Cleared(k)'
  BY <1>2, <1>3, <1>5 DEF SInv, LegSound, Cleared
<1>7. OlderFirst'
  BY <1>1, <1>2, <1>3, <1>5 DEF SInv, OlderFirst
<1>8. SecretDuplicateNeedsOverlap'
  BY <1>2, <1>3, <1>5 DEF SInv, SecretDuplicateNeedsOverlap, InFlight
<1> QED
  BY <1>2, <1>4, <1>6, <1>7, <1>8 DEF SInv

(* One step of anybody.                                                    *)
LEMMA SecretStep ==
    ASSUME SInv, [SecretNext]_<<policyVars, secretVars>>
    PROVE  SInv'
<1>1. CASE UNCHANGED secretVars
  BY <1>1 DEF SInv, LegSound, Cleared, OlderFirst, SecretDuplicateNeedsOverlap, InFlight, secretVars
<1>2. ASSUME NEW l \in Leg, NEW i \in Image, StartLeg(l, i) PROVE SInv'
  <2>1. /\ DOMAIN legs' = Leg /\ \A k \in Leg : k # l => legs'[k] = legs[k]
        /\ legs'[l] = [LegIdle EXCEPT !.pc = "settings", !.image = i]
        /\ UNCHANGED <<srows, ask>>
    BY <1>2 DEF SInv, StartLeg
  <2>2. LegSound(l)' /\ Cleared(l)'
    BY <2>1 DEF LegSound, Cleared, LegIdle, LegFields
  <2> QED
    BY <2>1, <2>2, LegMoves
<1>3. CASE Restart
  <2>1. \A l \in Leg : legs'[l] = LegIdle
    BY <1>3 DEF Restart
  <2>2. \A l \in Leg : LegSound(l)' /\ Cleared(l)'
    BY <2>1 DEF LegSound, Cleared, LegIdle, LegFields, Image
  <2> QED
    BY <1>3, <2>2 DEF Restart, AskIdle, SInv, OlderFirst, SecretDuplicateNeedsOverlap, InFlight
<1>4. ASSUME NEW l \in Leg, ResolveSettings(l) PROVE SInv'
  <2>1. CASE Leave(l)
    BY <1>4, <2>1, LegLeaves DEF ResolveSettings
  <2>2. CASE legs' = [legs EXCEPT ![l].pc = "override", ![l].settings = scanner["gitleaks"]]
    <3>1. UNCHANGED <<srows, ask>> /\ l \in DOMAIN legs /\ DOMAIN legs[l] = LegFields
      BY <1>4 DEF ResolveSettings, SInv, LegSound
    <3>2. /\ DOMAIN legs' = Leg /\ \A k \in Leg : k # l => legs'[k] = legs[k]
          /\ DOMAIN legs'[l] = LegFields /\ legs'[l].pc = "override"
          /\ legs'[l].image = legs[l].image /\ legs'[l].seen = legs[l].seen
      BY <2>2, <3>1 DEF SInv, LegFields
    <3>3. LegSound(l)' /\ Cleared(l)'
      BY <3>2 DEF SInv, LegSound, Cleared
    <3> QED
      BY <3>1, <3>2, <3>3, LegMoves
  <2> QED
    BY <1>4, <2>1, <2>2 DEF ResolveSettings
<1>5. ASSUME NEW l \in Leg, ApplyOverride(l) PROVE SInv'
  BY <1>5, LegLeaves, LegAdvances DEF ApplyOverride
<1>6. ASSUME NEW l \in Leg, AcquireGate(l) PROVE SInv'
  BY <1>6, LegAdvances DEF AcquireGate
<1>7. ASSUME NEW l \in Leg, GiveUp(l) PROVE SInv'
  BY <1>7, LegLeaves DEF GiveUp
<1>8. CASE AskSettings \/ AskOverride \/ SecretScanStatus
  <2>1. UNCHANGED <<srows, legs>> /\ DOMAIN ask' = {"pc", "enabled", "answer"}
    BY <1>8 DEF AskSettings, AskOverride, SecretScanStatus, SInv
  <2> QED
    BY <2>1 DEF SInv, LegSound, Cleared, OlderFirst, SecretDuplicateNeedsOverlap, InFlight
<1> QED
  BY <1>1, <1>2, <1>3, <1>4, <1>5, <1>6, <1>7, <1>8, ChecksActive, FailsOrphan, FinishesScan,
     InsertsRow, RunsOverdue DEF SecretNext

(* The status reports no scan only if newer runs hide those of the image.  *)
LEMMA StatusLooksAtNewest ==
    ASSUME SInv, [SecretNext]_<<policyVars, secretVars>>
    PROVE  UnscannedOnlyWhenCrowdedOut
<1> SUFFICES ASSUME ask.pc = "rows", ask'.pc = "done", ask'.answer = "unscanned",
                    NEW r \in Inserted, srows[r].image = "image"
             PROVE  Cardinality(Newer(r)) >= ListLimit
  BY DEF UnscannedOnlyWhenCrowdedOut
<1>1. SecretScanStatus
  <2>1. ask' # ask
    OBVIOUS
  <2>2. ASSUME NEW l \in Leg
        PROVE  /\ \A i \in Image : ~StartLeg(l, i)
               /\ ~(ResolveSettings(l) \/ ApplyOverride(l) \/ CheckActive(l) \/ FailOrphan(l)
                    \/ AcquireGate(l) \/ GiveUp(l) \/ InsertRow(l) \/ FinishScan(l))
    BY <2>1 DEF StartLeg, ResolveSettings, ApplyOverride, CheckActive, FailOrphan, AcquireGate, GiveUp,
                InsertRow, FinishScan
  <2>3. \A q \in DOMAIN srows : ~Overdue(q)
    BY <2>1 DEF Overdue
  <2>4. ~Restart
    <3>1. AskIdle.pc = "idle"
      BY DEF AskIdle
    <3> QED
      BY <3>1 DEF Restart
  <2>5. ~AskSettings /\ ~AskOverride
    BY DEF AskSettings, AskOverride
  <2>6. ~UNCHANGED secretVars
    BY <2>1 DEF secretVars
  <2> QED
    BY <2>2, <2>3, <2>4, <2>5, <2>6 DEF SecretNext
<1>2. r \notin Recent
  BY <1>1 DEF SecretScanStatus, SInv
<1>3. Cardinality(Newer(r)) \in Nat
  <2>1. Len(srows) \in Int /\ 1 \in Int /\ DOMAIN srows = 1 .. Len(srows)
    BY DEF SInv
  <2>2. IsFiniteSet(1 .. Len(srows))
    BY <2>1, FS_Interval
  <2>3. Newer(r) \in SUBSET (1 .. Len(srows))
    BY <2>1 DEF Newer, Inserted
  <2> QED
    BY <2>2, <2>3, FS_Subset, FS_CardinalityType
<1> QED
  BY <1>2, <1>3, SecretScansAssumption DEF Recent

(* However many legs run, and however often the server restarts: two scans *)
(* of one image are in flight, neither overdue, only if the later leg      *)
(* looked before the earlier one inserted its row; and an image whose scan *)
(* is in the store is reported as unscanned only while newer runs fill the *)
(* list.  (service_scanning.go executeSecretScanLeg, queries.go            *)
(* SecretScanStatus)                                                       *)
THEOREM SecretScansAlwaysExplained == SecretSpec => SecretScansExplained
<1>1. SecretInit => SInv
  <2> SUFFICES ASSUME SecretInit PROVE SInv
    OBVIOUS
  <2>1. srows \in Seq(SRow) /\ DOMAIN srows = {}
    BY DEF SecretInit
  <2>2. DOMAIN legs = Leg /\ DOMAIN ask = {"pc", "enabled", "answer"} /\ \A l \in Leg : legs[l] = LegIdle
    BY DEF SecretInit, AskIdle
  <2>3. \A l \in Leg : LegSound(l) /\ Cleared(l)
    BY <2>2 DEF LegSound, Cleared, LegIdle, LegFields, Image
  <2> QED
    BY <2>1, <2>2, <2>3 DEF SInv, OlderFirst, SecretDuplicateNeedsOverlap
<1>2. SInv /\ [SecretNext]_<<policyVars, secretVars>> => SInv'
  BY SecretStep
<1>3. SInv /\ SInv' /\ [SecretNext]_<<policyVars, secretVars>> =>
        [SecretDuplicateNeedsOverlap' /\ UnscannedOnlyWhenCrowdedOut]_secretVars
  BY StatusLooksAtNewest DEF SInv
<1> QED
  BY <1>1, <1>2, <1>3, PTL DEF SecretSpec, SecretScansExplained
=============================================================================
