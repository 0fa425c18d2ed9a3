SPECIFICATION Spec
CONSTANTS
    c1 = c1  c2 = c2  r1 = r1  r2 = r2
    Channels = {c1}
    Rules = {r1, r2}
    Requests = {"q1"}
    Admins = {"a1"}
    Names = {"default"}
    Default = "default"
    NoName = NoName
    NoChannel = NoChannel
    NoRule = NoRule
    Signals = {"s"}
    Actions = {"noop", "replace"}
    Priorities = {0, 10}
    MaxPriority = 10
    MaxReorder = 2
    Tiers = {0}
    SesameOn = FALSE
    DbFaults = {"lookup", "rules"}
    MaxRestarts = 0
SYMMETRY RowSymmetry
INVARIANTS AuditTrail
PROPERTY DecidesAtOnce
