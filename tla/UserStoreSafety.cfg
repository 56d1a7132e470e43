SPECIFICATION Spec
CONSTANTS
    r1 = r1
    r2 = r2
    r3 = r3
    u1 = u1
    u2 = u2
    u3 = u3
    u4 = u4
    u5 = u5
    a = a
    b = b
    secret = secret
    guess = guess
    UNSET = UNSET
    NULL = NULL
    None = None
    Nobody = Nobody
    Absent = Absent
    NoOp = NoOp
    UserIds = {u1, u2, u3, u4, u5}
    Requests = {r1, r2, r3}
    Names = {a, b}
    Passwords = {secret, guess}
    Seeds <- MCSeeds
    Ops <- AllOps
SYMMETRY Interchangeable
INVARIANTS
    TypeOK
    NamesDistinct
PROPERTIES
    ServesAtomically
