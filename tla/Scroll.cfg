\* Scrolling two pages with the firmware's sizes, in quarters.
SPECIFICATION FairSpec
CONSTANTS
    Pages <- FirmwarePages
    Viewport = 37
    SCROLL_AMOUNT = 10
    Padding = 1
    Word = 1024
INVARIANTS TypeOK SelectedVisible
PROPERTIES StaysInDocument ComesToRest
