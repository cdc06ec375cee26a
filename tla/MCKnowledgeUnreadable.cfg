SPECIFICATION KnowledgeSpec
CONSTANTS
    Parts = {"inheritance"}
    m1 = m1
    m2 = m2
    l1 = l1
    l2 = l2
    l3 = l3
    d1 = d1
    o1 = o1
    a1 = a1
    Homes = {m1, m2}
    Lessons = {y1, y2}
    Edits = {x1, x2}
    MaxRevision = 4
    Sources = {m1, m2}
    Names = {a1}
    Order <- MCOrder
    Syncs = {x1, x2}
    Curators = {c1}
    Hashes = {b1}
    LastRevision = 3
    MaxSuccessors = 1
    MissionOrder <- MCMissionOrder
    RecordOrder <- MCRecordOrder
    Facts <- MCFacts
    RelationTypes = {"produced"}
    MaxRelations = 1
    Workers = {x1, x2, w3, w4}
    Candidates = {y1, y2}
    NoAsset = NoAsset
    Visits = {x1, x2, w3, w4, w5}
    QuestionCount = 2
    Replies = {y1, y2}
    NoReply = NoReply
    Links <- MCLinks
    MaxLinks = 4
    MaxEntries = 4
    ReviewDepth = 2
CHECK_DEADLOCK FALSE
INVARIANT
    DocumentsStayReadable
