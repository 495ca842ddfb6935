CONSTANTS
  img = img sig = sig layer = layer ann = ann bob = bob c1 = c1 c2 = c2
  None = None
  Repo = {1, 2}
  Tag = {1, 2}
  Digest = {img, sig}
  Blob = {layer}
  User = {ann, bob}
  Pusher = {c1}
  Reader = {c2}
  BlobsOf <- MCBlobsOf
  SubjectOf <- MCSubjectOf
  ArtifactTypeOf <- MCArtifactTypeOf
  ConfigTypeOf <- MCConfigTypeOf
  Accessory = {2}
  Visible = {2}
  Limit = 1
  MaxRow = 4
  Time = {3, 4}
SYMMETRY Symmetry
SPECIFICATION Spec
CHECK_DEADLOCK FALSE
INVARIANTS
    TornOnlyByWrites
    ListingsComplete
PROPERTIES
    DanglingNeedsDelete
    ImplementsContents
