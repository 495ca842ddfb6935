CONSTANTS
  k1 = k1 stranger = stranger
  Key = {k1}
  Identity <- MCIdentity
  Admin = {a1, a2}
  PolicyInput <- MCPolicyInput
  ScanPolicyInput <- MCScanPolicyInput
  ScannerInput <- MCScannerInput
  MaxAnchors = 2
  MaxChanges = 4
  NotStored = NotStored
  Entry <- MCEntry
  Bundle <- MCBundle
  Principal <- MCPrincipal
  Pusher = "ann"
  NoManifest = NoManifest
  Garbled = Garbled
  NoCert = NoCert
  NoPrincipal = NoPrincipal
  Leg = {l1, l2}
  MaxConcurrency = 2
  ListLimit = 1
SYMMETRY Symmetry
SPECIFICATION Spec
CHECK_DEADLOCK FALSE
INVARIANTS
    VerdictExplained
    CountsSeeIndexed
PROPERTIES
    MergesKeepTheRest
    SecretScansExplained
