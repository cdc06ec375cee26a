SPECIFICATION Spec
CONSTANTS
    Handlers = {h1, h2, h3}
    Missions = {m1, m2, m3}
    NoMission = NoMission
    Catalogue = {m1, m2, m3}
    Fields = {title}
    Values = {blank, filled}
    Blank = blank
    MaxDepth = 2
SYMMETRY HandlersAndMissions
CHECK_DEADLOCK FALSE
INVARIANTS
    HistoryMatchesMissions
    LonePlacementKeepsTree
PROPERTIES
    EditsReplaceWhatWasSeen
    EditingSpec
