SPECIFICATION Spec
CONSTANTS
    k1 = k1  k2 = k2  g1 = g1  p1 = p1
    Users = {1, 2}
    Tokens = {1, 2}
    Groups = {g1}
    Calls = {k1, k2}
    Ops = {"createToken", "revokeToken"}
    Passwords = {p1}
    Faulty = FALSE
    NoGroup = NoGroup
SYMMETRY AccountsSymmetry
CHECK_DEADLOCK FALSE
INVARIANTS RevokedRefused
