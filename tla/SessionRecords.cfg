CONSTANTS
    MeterTimeout = 2
    RxTimeout = 1
    AgeCap = 2
    BodyLen = 1
    SequenceMod = 2
    SeqHalf = 2
    EnergyMod = 3
    FrameCap = 2
    HoldBase = 1
    HashMax = 0
    MaxStep = 1
    PilotCodes = {0, 1, 2}
    Power = {1}
SPECIFICATION HostSpec
INVARIANTS OneRecordPerSession
