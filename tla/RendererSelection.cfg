\* Does the selection stay on the page?
SPECIFICATION Spec
CONSTANTS
    home = home
    about = about
    broken = broken
    blank = blank
    Files = {home, about, blank}
    Invalid = {broken}
    Hollow = {blank}
    Names = {home, about, blank, broken}
    Home = home
    Links <- FirmwareLinks
    NotALink = NotALink
    Torn = Torn
    DomIds = {d1, d2}
    Null = Null
    Wild = Wild
    MaxHistory = 2
INVARIANT SelectionInBounds
