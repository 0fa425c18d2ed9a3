SPECIFICATION Spec
CONSTANTS
    k1 = k1  k2 = k2  g1 = g1  p1 = p1  p2 = p2
    Users = {1, 2, 3}
    Tokens = {1}
    Groups = {g1}
    Calls = {k1, k2}
    Ops = {"login", "createUser", "updateUser", "deleteUser", "createToken", "revokeToken", "changePassword", "setMember", "ownRow"}
    Passwords = {p1, p2}
    Faulty = FALSE
    NoGroup = NoGroup
SYMMETRY AccountsSymmetry
CHECK_DEADLOCK FALSE
INVARIANTS TypeOK NoOrphans FirstAdminStays ForcedChange
PROPERTIES UserWritesAuthorized
