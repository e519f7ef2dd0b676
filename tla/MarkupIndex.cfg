\* As Markup, without scripts; the index of a drawn link.
SPECIFICATION Spec
CONSTANTS
    TextPieces <- TextPiecesMC
    Tags <- TagsMC
    Columns <- ColumnsMC
    Attributes <- AttributesMC
    Inner3ML <- Inner3MLMC
    Ids = {}
    MaxElements = 3
    MaxDepth = 5
    MaxTexts = 2
INVARIANT LinkIndexed
CHECK_DEADLOCK FALSE
