------------------------------- MODULE Policy -------------------------------
(***************************************************************************)
(* Settings and per-repository overrides: the rows that decide whether     *)
(* images are scanned and what a pull is checked against, with the         *)
(* operations that write them.  A whole-row write (a PUT) is one step; an  *)
(* operation that merges its input into the row it found (enable, disable, *)
(* configure, the imports at start) is a read and a later write.           *)
(*                                                                         *)
(*   internal/app/regixtry/feature_registry.go                             *)
(*   internal/app/regixtry/repository_overrides.go                         *)
(*   internal/app/regixtry/service_update_channel.go                       *)
(*   internal/infra/metadata/sqlite/store.go   the settings tables         *)
(***************************************************************************)
EXTENDS Integers, Sequences, FiniteSets, Functions

CONSTANTS
    Key,           \* trusted public keys
    Identity,      \* trusted identities: [regexp, issuer]
    Admin,         \* callers of the read-and-write operations
    PolicyInput,   \* bodies sent to the signing policy and override endpoints
    ScanPolicyInput, \* bodies sent to the scan policy endpoint
    ScannerInput,  \* bodies sent to the configure and override endpoints
    MaxAnchors,    \* maxSigningPolicyTrustedKeys
    MaxChanges,    \* bound: writes, pushes and scans altogether
    NotStored          \* the row does not exist

Scanner == {"trivy", "gitleaks"}
SigningRow == [enabled : BOOLEAN, keys : SUBSET Key, ids : Seq(Identity),
               self : {"off", "pusher", "repo_push"}]
ScanPolicyRow == [enabled : BOOLEAN, threshold : {"CRITICAL", "CRITICAL_HIGH"}]
ScannerRow == [enabled : BOOLEAN, schedule : BOOLEAN]

Nobody == "nobody"   \* who writes a whole row: none of the callers

ASSUME PolicyAssumption ==
    /\ Nobody \notin Admin
    /\ MaxAnchors \in Nat
    /\ MaxChanges \in Nat
    /\ PolicyInput \subseteq SigningRow
    /\ ScanPolicyInput \subseteq ScanPolicyRow
    /\ ScannerInput \subseteq ScannerRow
    /\ NotStored \notin SigningRow /\ NotStored \notin ScannerRow

\* An input names the fields it changes: a function on a subset of them.
ScannerPatch == UNION {[fields -> BOOLEAN] : fields \in SUBSET {"enabled", "schedule"}}

VARIABLES
    signing,      \* signing_policy_settings
    scanPolicy,   \* scan_policy_settings
    scanner,      \* scan_settings, per feature
    override,     \* repository_feature_overrides of the one repository
    adm,          \* callers between their read and their write
    changes       \* changes so far, for the bound

policyVars == <<signing, scanPolicy, scanner, override, adm, changes>>

AdmIdle == [op |-> "idle", feature |-> "signing", patch |-> <<>>, seen |-> NotStored,
            clean |-> TRUE]

-----------------------------------------------------------------------------
(* What the rows mean.                                                     *)

\* GetSigningPolicySettings: without a row the gate is off.
GetSigningPolicySettings(row) ==
    IF row = NotStored THEN [enabled |-> FALSE, keys |-> {}, ids |-> <<>>, self |-> "off"] ELSE row

\* GetScanPolicySettings: without a row the gate is on.
GetScanPolicySettings(row) ==
    IF row = NotStored THEN [enabled |-> TRUE, threshold |-> "CRITICAL"] ELSE row

\* loadFeatureSettings: the defaults of a feature that has no row.
LoadSettings(row) == IF row = NotStored THEN [enabled |-> FALSE, schedule |-> FALSE] ELSE row

\* resolveRepositoryOverride: a row replaces what the feature is set to.
applySigningRepositoryOverride(policy, row) == IF row = NotStored THEN policy ELSE row
applyRepositoryOverride(settings, row) ==
    IF row = NotStored THEN settings ELSE [settings EXCEPT !.enabled = row.enabled]

EffectiveSigning ==
    applySigningRepositoryOverride(GetSigningPolicySettings(signing), override["signing"])

\* What an override must satisfy, ...
normalizeSigningOverride(p) ==
    /\ Cardinality(p.keys) <= MaxAnchors
    /\ Len(p.ids) <= MaxAnchors
    /\ p.enabled => p.keys # {} \/ p.ids # <<>>

\* ... and, decoded by code of its own, what the policy must.
decodeSigningPolicySettings(p) ==
    /\ p.keys \subseteq Key /\ Cardinality(p.keys) <= MaxAnchors
    /\ Len(p.ids) <= MaxAnchors
    /\ p.enabled => p.keys # {} \/ p.ids # <<>>

\* Mutant: fields the input leaves out go back to their defaults.
mergeFeatureSettings_Defaults(row, patch) ==
    [field \in DOMAIN LoadSettings(row) |->
        IF field \in DOMAIN patch THEN patch[field] ELSE LoadSettings(NotStored)[field]]

mergeFeatureSettings(row, patch) ==
    [field \in DOMAIN LoadSettings(row) |->
        IF field \in DOMAIN patch THEN patch[field] ELSE LoadSettings(row)[field]]

-----------------------------------------------------------------------------
(* Whole-row writes.                                                       *)

Change == changes < MaxChanges /\ changes' = changes + 1

\* Another write of the row: what a caller has read of it is no longer clean.
Soil(feature, except) ==
    [a \in Admin |-> IF a # except /\ adm[a].feature = feature
                     THEN [adm[a] EXCEPT !.clean = FALSE] ELSE adm[a]]

UpdateSigningPolicySettings(p) ==
    /\ Change
    /\ decodeSigningPolicySettings(p)
    /\ signing' = p
    /\ adm' = Soil("signing", Nobody)
    /\ UNCHANGED <<scanPolicy, scanner, override>>

UpdateScanPolicySettings(p) ==
    /\ Change
    /\ scanPolicy' = p
    /\ UNCHANGED <<signing, scanner, override, adm>>

UpdateScanSettings(s) ==
    /\ Change
    /\ scanner' = [scanner EXCEPT !["trivy"] = s]
    /\ adm' = Soil("trivy", Nobody)
    /\ UNCHANGED <<signing, scanPolicy, override>>

SetRepositoryOverride(f, p) ==
    /\ Change
    /\ f = "signing" => normalizeSigningOverride(p)
    /\ override' = [override EXCEPT ![f] = p]
    /\ UNCHANGED <<signing, scanPolicy, scanner, adm>>

ClearRepositoryOverride(f) ==
    /\ Change
    /\ override[f] # NotStored
    /\ override' = [override EXCEPT ![f] = NotStored]
    /\ UNCHANGED <<signing, scanPolicy, scanner, adm>>

-----------------------------------------------------------------------------
(* Operations that read a row and write it back.                           *)

Row(f) == IF f = "signing" THEN signing ELSE scanner[f]

Begin(a, op, f, patch) ==
    /\ adm[a].op = "idle"
    /\ adm' = [adm EXCEPT ![a] = [op |-> op, feature |-> f, patch |-> patch,
                                  seen |-> Row(f), clean |-> TRUE]]

Write(a, f, row) ==
    /\ IF f = "signing" THEN signing' = row /\ UNCHANGED scanner
                        ELSE scanner' = [scanner EXCEPT ![f] = row] /\ UNCHANGED signing
    /\ adm' = [Soil(f, a) EXCEPT ![a] = AdmIdle]

\* Mutant: the shortcut enables whatever it finds.
setSigningFeatureEnabled_Unchecked(row, on) == TRUE

\* setSigningFeatureEnabled: enabling needs a key (an identity is not enough).
setSigningFeatureEnabled(row, on) ==
    /\ on => GetSigningPolicySettings(row).keys # {}

\* SetFeatureEnabled("signing", on): the read and its check, ...
BeginToggleSigning(a, on) ==
    /\ Change
    /\ setSigningFeatureEnabled(signing, on)
    /\ Begin(a, "toggle", "signing", [enabled |-> on])
    /\ UNCHANGED <<signing, scanPolicy, scanner, override>>

\* ... and the write of the row it found with the one bit changed.
FinishToggleSigning(a) ==
    /\ adm[a].op = "toggle"
    /\ Write(a, "signing",
             [GetSigningPolicySettings(adm[a].seen) EXCEPT !.enabled = adm[a].patch.enabled])
    /\ UNCHANGED <<scanPolicy, override, changes>>

\* ConfigureFeature, and through it SetFeatureEnabled of a scanner.
BeginConfigure(a, f, patch) ==
    /\ Change
    /\ Begin(a, "configure", f, patch)
    /\ UNCHANGED <<signing, scanPolicy, scanner, override>>

ConfigureFeature(a) ==
    /\ adm[a].op = "configure"
    /\ Write(a, adm[a].feature, mergeFeatureSettings(adm[a].seen, adm[a].patch))
    /\ UNCHANGED <<scanPolicy, override, changes>>

\* ImportLegacyFeatureConfigIfMissing of setup: looks for the row, and
\* configures the feature when there is none, which reads the row again.
BeginImport(a, patch) ==
    /\ Change
    /\ Begin(a, "import", "trivy", patch)
    /\ UNCHANGED <<signing, scanPolicy, scanner, override>>

ImportLegacyFeatureConfigIfMissing(a) ==
    /\ adm[a].op = "import"
    /\ adm' = [adm EXCEPT ![a] = IF @.seen # NotStored THEN AdmIdle
                                 ELSE [@ EXCEPT !.op = "configure", !.seen = Row("trivy"),
                                                !.clean = TRUE]]
    /\ UNCHANGED <<signing, scanPolicy, scanner, override, changes>>

\* EnsureScanSettings of a starting server: a whole row, when there is none.
BeginEnsure(a, patch) ==
    /\ Change
    /\ Begin(a, "ensure", "trivy", patch)
    /\ UNCHANGED <<signing, scanPolicy, scanner, override>>

EnsureScanSettings(a) ==
    /\ adm[a].op = "ensure"
    /\ IF adm[a].seen # NotStored
       THEN adm' = [adm EXCEPT ![a] = AdmIdle] /\ UNCHANGED <<signing, scanner>>
       ELSE Write(a, "trivy", mergeFeatureSettings(NotStored, adm[a].patch))
    /\ UNCHANGED <<scanPolicy, override, changes>>

-----------------------------------------------------------------------------
PolicyInit ==
    /\ signing = NotStored
    /\ scanPolicy = NotStored
    /\ scanner = [f \in Scanner |-> NotStored]
    /\ override = [f \in Scanner \cup {"signing"} |-> NotStored]
    /\ adm = [a \in Admin |-> AdmIdle]
    /\ changes = 0

\* Writers of what a pull is checked against.
GateSettingsNext ==
    \/ \E p \in PolicyInput : \/ UpdateSigningPolicySettings(p)
                              \/ SetRepositoryOverride("signing", p)
    \/ ClearRepositoryOverride("signing")
    \/ \E p \in ScanPolicyInput : UpdateScanPolicySettings(p)
    \/ \E a \in Admin : \/ \E on \in BOOLEAN : BeginToggleSigning(a, on)
                        \/ FinishToggleSigning(a)

\* Writers of what is scanned.
ScannerSettingsNext ==
    \/ \E s \in ScannerInput : \/ UpdateScanSettings(s)
                               \/ \E f \in Scanner : SetRepositoryOverride(f, s)
    \/ \E f \in Scanner : ClearRepositoryOverride(f)
    \/ \E a \in Admin :
          \/ \E f \in Scanner, patch \in ScannerPatch : BeginConfigure(a, f, patch)
          \/ ConfigureFeature(a)
          \/ \E s \in ScannerInput : BeginImport(a, s) \/ BeginEnsure(a, s)
          \/ ImportLegacyFeatureConfigIfMissing(a)
          \/ EnsureScanSettings(a)

\* Everything that writes settings, and changes elsewhere that only count.
PolicyNext ==
    \/ GateSettingsNext
    \/ ScannerSettingsNext
    \/ Change /\ UNCHANGED <<signing, scanPolicy, scanner, override, adm>>

PolicySpec == PolicyInit /\ [][PolicyNext]_policyVars
=============================================================================
