SPECIFICATION PlatformSpec
CONSTANTS
    Parts = {"access", "invitations", "limiter", "learning", "evidence", "retrieval"}
    Requests = {x1, x2}
    Links = {x1, x2}
    PilotLinks = {y1, y2}
    Recoveries = {k1}
    Activations = {a1}
    NoSecret = NoSecret
    MaxChanges = 2
    Calls = {x1, x2}
    Rows = {y1, y2}
    Tokens = {t1, t2}
    None = None
    Clients = {c1}
    Limit = 2
    Window = 6
    Second = 2
    MaxClock = 12
    MaxRestarts = 1
    Learnings = {l1}
    Targets = {t1}
    Publishers = {x1, x2}
    Statuses = {"proposed", "accepted"}
    MaxEditions = 3
    Documents = {x1, x2}
    Questions = {y1, y2}
    Entries = {n1}
    Rulings = {"accepted", "rejected"}
    RetrievalLimit = 1
    MaxCurated = 1
    Chunks = {1, 2, 3}
    Versions = {1, 2}
    Retrievals = {x1, x2}
    BatchSize = 2
SYMMETRY Symmetry
CHECK_DEADLOCK FALSE
INVARIANTS
    PlatformTypes
    LoneChangesEndSessions
    LimiterKeepsItsWord
    EvidenceIsKept
PROPERTIES
    DeadSecretsChangeNothing
    InvitationsAreKept
    PacketsAreFaithful
    RankingsAreSound
