SPECIFICATION Spec
CONSTANTS
    User = {u1, u2}
    Req = {q1, q2}
    NoUser = NoUser
SYMMETRY Symmetry
INVARIANT
    LastAdminKept
