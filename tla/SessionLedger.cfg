CONSTANTS
    MeterTimeout = 2
    RxTimeout = 1
    AgeCap = 2
    BodyLen = 1
    SequenceMod = 4
    SeqHalf = 3
    EnergyMod = 2
    FrameCap = 1
    HoldBase = 2
    HashMax = 0
    MaxStep = 1
    MaxSamples = 4
    MaxDelay = 1
    PilotCodes <- MCPilotCodes
    Power <- MCPower
    Measurements <- MCMeasurements
SPECIFICATION MSpec
INVARIANTS TotalsAreTheBill NoSampleBilledTwice LossIsFlagged BilledSamplesAreHealthy
PROPERTIES ResumeAfterFullDelay ClosesOnGoodSample
