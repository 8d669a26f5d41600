CONSTANTS
    MeterTimeout = 1
    RxTimeout = 1
    AgeCap = 1
    BodyLen = 1
    SequenceMod = 2
    SeqHalf = 2
    EnergyMod = 1
    FrameCap = 0
    HoldBase = 1
    RecordLen = 1
    BodyKinds = {"plain"}
    Readings <- MCReadings
    PinStates <- MCPinStates
SPECIFICATION Spec
PROPERTIES ReceivedByteSurvives
