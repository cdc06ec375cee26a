SPECIFICATION TurnsSpec
CONSTANTS
    Parts = {"dialogue", "window", "review", "archive", "cutting", "rulings", "ground"}
    Handlers = {h1, h2, h3}
    Nobody = Nobody
    Snapshots = {d1, d2}
    NoSnapshot = NoSnapshot
    Attachments = {a1}
    Files = {1, 2, 3}
    Lengths = {1, 5}
    MaxMatches = 1
    Retrieval = 3
    Heads = 3
    Boost = 2
    Images = 1
    Profiles <- MCProfiles
    Frames <- MCFrames
    Histories <- MCHistories
    Budgets = {5, 13, 30}
    SourceIds = {1, 2}
    Pages = {"p", "q"}
    MaxSources = 3
    ChunkSize = 4
    ChunkOverlap = 1
    Uploads = {f1, f2}
    Reports = {i1}
    Texts <- MCFewTexts
    Indexers = {c1, c2}
    BatchSize = 2
    Proposals = {d1, d2}
    Reviewers = {u1, u2}
    Comments = {2}
    Calls = {c1, c2}
    ReviewItems = 2
    ReviewRoom = 3
    Records = {1, 2, 3}
    Weight <- MCWeight
    Confirmed = {2}
    Questions <- MCQuestions
    Limits <- MCLimits
    MaxTurns = 3
SYMMETRY Symmetry
CHECK_DEADLOCK FALSE
INVARIANTS
    TurnsTypes
    TurnsAreNumbered
    HistoryIsABeginning
    TurnsAnalyseOneSnapshot
    SelectedFilesAreHonoured
    RepairIsConservative
    ConfidenceIsEarned
    IndexIsWhole
    ExcerptsLoseNothing
    RulingsAreHeard
    ConversationsKeepTheirGround
