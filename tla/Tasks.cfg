\* The greeter, the dimmer, and a shell whose host waits for the last task.
SPECIFICATION FairSpec
CONSTANTS
    Clients = {"greeter", "dimmer", "patient"}
    MaxLaunches = 4
    Null = Null
CHECK_DEADLOCK FALSE
INVARIANTS MemorySafe NoLeak OwnArguments OneBody FlagTruthful
PROPERTY FlagClears
