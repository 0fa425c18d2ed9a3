SPECIFICATION FairSpec
CONSTANTS
    c1 = c1  c2 = c2  r1 = r1  r2 = r2
    Channels = {c1}
    Rules = {r1, r2}
    Requests = {"q1"}
    Admins = {}
    Names = {"default", "sports"}
    Default = "default"
    NoName = NoName
    NoChannel = NoChannel
    NoRule = NoRule
    Signals = {"s"}
    Actions = {"noop"}
    Priorities = {0}
    MaxPriority = 0
    MaxReorder = 1
    Tiers = {0, 2}
    SesameOn = TRUE
    DbFaults = {"lookup", "rules", "log"}
    MaxRestarts = 1
PROPERTY RequestsAnswered
