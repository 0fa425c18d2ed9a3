SPECIFICATION Spec
CONSTANTS
    LenMod = 16
    LoopMod = 32
    SectionMod = 4096
    T33 = 256
    T40 = 512
    PoisOut <- DefaultUpid
    MaxHops = 2
    NoOrder = NoOrder
    NoCue = NoCue
    Garbled = Garbled
    Opaque = Opaque
    Unanswered = Unanswered
    Incoming <- SomeSignals
    IncomingCues <- SomeCues
    Orders <- SomeOrders
CHECK_DEADLOCK FALSE
INVARIANTS TypeOK DecodersAgree
PROPERTIES DroppedOnlyByPanic KeepsContract
