SPECIFICATION Spec
CONSTANTS
    g1 = g1  g2 = g2  k1 = k1  k2 = k2
    Users = {"s", "u"}
    Supers = {"s"}
    Groups = {g1, g2}
    Chans = {"c1"}
    Saves = {k1, k2}
    GroupCalls = {}
    SaveOps = {"create", "update", "share", "delete"}
    GroupOps = {}
    Globals = {"keep"}
    Faulty = FALSE
    NoUser = NoUser
SYMMETRY SharingSymmetry
CHECK_DEADLOCK FALSE
INVARIANT SettledLinks
