\* The firmware's two buttons share the timer daemon and its queue.
SPECIFICATION FairSpec
CONSTANTS
    up = up
    down = down
    Buttons = {up, down}
    QueueLength = 6
    DebounceDuration = 1
    LongPressDuration = 1
    TickMod = 2
    Callbacks <- AllCallbacks
INVARIANTS OneOwner SlotOrder NoCommandLost
PROPERTIES Delivers Settles
