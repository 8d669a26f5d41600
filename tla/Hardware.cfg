CONSTANTS
    TxRates = {7, 9}
    RxClks = 8
    DataBits = 2
    ToSend = 3
    MaxPause = 9
    TicksPerMs = 3
    AgeCap = 3
    Counters <- MCCounters
    MaxEdges = 15
    Flip = 2
    BodyLen = 3
    BusWord = 4
    Frames = 2
    MaxDamage = 2
    Words = 3
    Registers = 3
    Depth = 2
    Instructions <- MCInstructions
SPECIFICATION BenchSpec
INVARIANTS GotIsPrefixOfSent AgeIsElapsed AcceptedWasSent IntactFrameArrives OneVerdictPerCandidate DamageCost
PROPERTIES UartDelivers ImplementsIsa
