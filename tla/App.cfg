SPECIFICATION FairSpec
CONSTANTS
    Addresses <- MCAddresses
    Picked = {"S6", "S11"}
    Opened = {"integrity"}
    Roaming = {"S6"}
    Clicked = {1}
    MostCorrupted = 2
    Examined = {0, 1, 2, 3, 4}
    Positions = {0}
    QueueCap = 1
    GridQueueCap = 1
INVARIANTS ViewInRange PlayingIsDriven NarrationIsTrue PanelsAgree EvidenceAgrees
PROPERTIES PlaybackEnds FleetStoryGoesOn
CHECK_DEADLOCK FALSE
