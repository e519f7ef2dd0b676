\* Is every level change that a re-attached interrupt should report seen?
SPECIFICATION Spec
CONSTANTS
    up = up
    down = down
    Buttons = {up}
    QueueLength = 3
    DebounceDuration = 2
    LongPressDuration = 3
    TickMod = 6
    Callbacks <- FirmwareCallbacks
PROPERTY NoEdgeMissed
