SPECIFICATION MCSpec
CONSTANTS
    Threads = {"main", "input"}
    Main = "main"
    Jobs = {"anim_update", "bounceback", "key_repeat", "charset_switch"}
    OneShot = {"charset_switch"}
    MaxJobs = 3
    Cards = {"card"}
    Dots = {"dots"}
    Owner <- MCOwner
    Nodes = {1, 2, 3}
    Duration = 2
    Gap = 1
    Diffs = {1, 3}
INVARIANTS
    WorkersTypeOK
    RemovedIsQuiet
    RoundServesAll
    AnimTypeOK
    NoStepOnFreedItem
    StopLeavesNothing
    AfterWaits
PROPERTIES
    StopReturns
    AnimStopReturns
