SPECIFICATION Spec
CONSTANTS
    Addresses <- MCAddresses
    Picked = {"S6", "S11"}
    Opened = {"integrity"}
    Roaming = {"S6"}
    Clicked = {1}
    MostCorrupted = 2
    Examined = {0, 1, 2, 3, 4}
    Positions = {0}
    QueueCap = 1
    GridQueueCap = 0
INVARIANT PlayerBarUsable
CHECK_DEADLOCK FALSE
