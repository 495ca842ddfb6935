SPECIFICATION BoundedSpec
CONSTANTS
    Upload = {u1, u2}
    Req = {q1, q2}
    Piece = {a}
    NoUpload = NoUpload
    MaxLen = 2
    MaxBody = 2
SYMMETRY Symmetry
\* The run may stop when every upload id was used.
CHECK_DEADLOCK FALSE
INVARIANTS
    TypeOK
    IntactUnlessOverlapped
    AckedPresent
    QuietIsSound
