CONSTANTS
    u1 = u1
    u2 = u2
    k1 = k1
    k2 = k2
    Users = {u1, u2}
    KeyNames = {k1, k2}
    Vals = {v1, v2}
    Pw = {p1, p2}
    None = None
    Acls <- MCAcls
    Mods <- MCMods
    TableKeys = {k2}
    MetaUsers = {}
    Foreign = Foreign
SPECIFICATION Spec
SYMMETRY MCSymmetry
INVARIANTS BfsReach SessionAgree
PROPERTIES Authorized
