SPECIFICATION FairSpec
CONSTANTS
    Scenes <- MCScenes
    Icons <- MCIcons
    ArriveMs = 5
    LeaveMs = 4
    PlugMs = 3
    FlowMs = 3
    MaxDelta = 2
    Grown = 2
PROPERTY IconFollows
