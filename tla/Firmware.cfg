CONSTANTS
    MeterTimeout = 1
    RxTimeout = 1
    AgeCap = 1
    BodyLen = 1
    SequenceMod = 2
    SeqHalf = 2
    EnergyMod = 1
    FrameCap = 0
    HoldBase = 0
    RecordLen = 2
    BodyKinds = {"plain"}
    Readings <- MCReadings
    PinStates <- MCPinStates
SPECIFICATION FairSpec
INVARIANTS ContactorOpenWhileReporting EveryByteIsSent
PROPERTIES TripOpensContactor SilenceOpensContactor ReportEnds
