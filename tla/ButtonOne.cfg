\* One button with callbacks for every event, a fine clock that wraps.
SPECIFICATION Spec
CONSTANTS
    up = up
    down = down
    Buttons = {up}
    QueueLength = 3
    DebounceDuration = 2
    LongPressDuration = 3
    TickMod = 6
    Callbacks <- AllCallbacks
INVARIANTS TypeOK HoldIsLong
PROPERTIES Debounced
