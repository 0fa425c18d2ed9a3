SPECIFICATION Spec
CONSTANTS
    k1 = k1  k2 = k2  g1 = g1  p1 = p1  t1 = t1  c1 = c1  x1 = x1  x2 = x2
    Users = {"s", "u"}
    Supers = {"s"}
    Groups = {g1}
    Projects = {p1}
    Templates = {t1}
    Channels = {c1}
    Contents = {x1, x2}
    Calls = {k1, k2}
    Ops = {"updateTemplate"}
    MaxTries = 2
    None = None
SYMMETRY TemplatesSymmetry
CHECK_DEADLOCK FALSE
PROPERTIES GlobalBySuper
