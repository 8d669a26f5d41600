CONSTANTS
    MeterTimeout = 1
    RxTimeout = 1
    AgeCap = 1
    BodyLen = 1
    SequenceMod = 4
    SeqHalf = 3
    EnergyMod = 1
    FrameCap = 0
    HoldBase = 1
    RecordLen = 1
    BodyKinds = {"escape", "stuffed"}
    Readings <- MCReadings
    PinStates <- MCPinStates
SPECIFICATION LSpec
INVARIANTS RegistersAgree ReportAgrees ClosedAsLastSeen
