SPECIFICATION Spec
CONSTANTS
    Handlers = {h1, h2}
    Missions = {m1, m2, m3}
    NoMission = NoMission
    Catalogue = {}
    Fields = {title}
    Values = {blank}
    Blank = blank
    MaxDepth = 3
SYMMETRY HandlersAndMissions
CHECK_DEADLOCK FALSE
INVARIANT
    TreeStaysSound
