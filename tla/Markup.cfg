\* Pages of up to three elements and two texts that are not empty.
\* A page is read once, and an error stops the firmware.
SPECIFICATION Spec
CONSTANTS
    TextPieces <- TextPiecesMC
    Tags <- TagsMC
    Columns <- ColumnsMC
    Attributes <- AttributesMC
    Inner3ML <- Inner3MLMC
    Ids = {"b", "x"}
    MaxElements = 3
    MaxDepth = 5
    MaxTexts = 2
INVARIANTS TypeOK ReadsAll KeepsText CountsSelectable
PROPERTY CleansValid
CHECK_DEADLOCK FALSE
