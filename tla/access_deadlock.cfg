CONSTANTS
    Clients = {t1, t2}
    Dispatchers = {s1}
    c1 = c1
    d1 = d1
    p1 = p1
    p2 = p2
    Documents = {d1, d2}
    Collections = {c1}
    Permissions = {p1, p2}
    Resource <- MCResource
    None = None
SYMMETRY ClientSymmetry
SPECIFICATION Spec
INVARIANTS
    NoCircularWait
CHECK_DEADLOCK FALSE
