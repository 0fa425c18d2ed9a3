SPECIFICATION Spec
CONSTANTS
    k1 = k1  k2 = k2  g1 = g1  p1 = p1  t1 = t1  t2 = t2  c1 = c1  c2 = c2  c3 = c3  x1 = x1  x2 = x2
    Users = {"s", "u"}
    Supers = {"s"}
    Groups = {g1}
    Projects = {p1}
    Templates = {t1, t2}
    Channels = {c1, c2, c3}
    Contents = {x1, x2}
    Calls = {k1, k2}
    Ops = {"createProject", "updateProject", "deleteProject", "applyProject", "saveRule", "saveChannel", "updateTemplate", "deleteTemplate", "applyTemplate", "channels"}
    MaxTries = 2
    None = None
SYMMETRY TemplatesSymmetry
CHECK_DEADLOCK FALSE
INVARIANTS TypeOK NameFreeWhenFound AppliedWhole StraysTraced
PROPERTIES WritesTraced LinksInReach
