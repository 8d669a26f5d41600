CONSTANTS
    MeterTimeout = 2
    RxTimeout = 1
    AgeCap = 2
    BodyLen = 1
    SequenceMod = 2
    SeqHalf = 2
    EnergyMod = 2
    FrameCap = 0
    HoldBase = 1
    HashMax = 0
    MaxStep = 2
    PilotCodes <- MCPilotCodes
    Power <- MCPower
SPECIFICATION FairSpec
INVARIANTS PinsAgree SessionIsFresh ChargingLinkGood PinRulesSettled
PROPERTIES ReportsAreExact LatchHolds SilenceEnds PartialBodyEnds
