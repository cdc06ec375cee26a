-------------------------- MODULE MissionPortfolio ---------------------------
(***************************************************************************)
(* The missions of one organisation: rows with an optimistic revision, the *)
(* history of their documents, and the tree their parent links form.       *)
(* Four handlers write them: portfolio.create_mission and update_mission,  *)
(* service.persist_mission (an analysis or a dialogue) and the learning    *)
(* routes' _persist_document.                                              *)
(*                                                                         *)
(* None of them takes a lock.  Each query reads the last commit, and the   *)
(* only protections are two unique keys: one mission per code, one history *)
(* row per (mission, revision).  A request is one handler; a mission is    *)
(* named by its code.                                                      *)
(***************************************************************************)
EXTENDS Integers, FiniteSets

CONSTANTS
    Handlers,       \* requests
    Missions,       \* mission codes
    NoMission,      \* no parent
    Catalogue,      \* codes of the demonstration catalogue
    Fields, Values, \* a document's content but for its place in the tree
    Blank,          \* what a field holds before it is filled in
    MaxDepth        \* MAX_MISSION_DEPTH, 6

Link == Missions \cup {NoMission}

Document == [text : [Fields -> Values], parent : Link]

Row == [revision : Nat, parent : Link, document : Document]

ASSUME PortfolioAssumption ==
    /\ NoMission \notin Missions
    /\ IsFiniteSet(Missions)
    /\ Catalogue \subseteq Missions
    /\ Blank \in Values
    /\ MaxDepth \in Nat \ {0}

VARIABLES
    mission,    \* mi_missions: revision 0 where there is no row
    history,    \* mi_mission_revisions, append-only
    pc,         \* where each handler is
    ctx         \* what a handler holds: the mission it writes, the revision
                \* its user saw and the one it read (0 for none), the document
                \* it will write, whether it places the mission in the tree,
                \* and its walk up the tree

vars == <<mission, history, pc, ctx>>

Stage == {"idle", "viewing", "climbing", "measuring", "naming", "writing",
          "done", "refused", "failed"}

BlankDocument == [text |-> [f \in Fields |-> Blank], parent |-> NoMission]

NoRow == [revision |-> 0, parent |-> NoMission, document |-> BlankDocument]

NoContext ==
    [mission |-> NoMission, expected |-> 0, revision |-> 0,
     document |-> BlankDocument, moves |-> FALSE, next |-> NoMission, depth |-> 0, seen |-> {}]

Exists(m) == mission[m].revision > 0

Entry(m, n, d) == [mission |-> m, revision |-> n, document |-> d]

\* The k-th ancestors of every mission: a set of at most one mission each.
Above[k \in Nat] ==
    [m \in Missions |->
        IF k = 0 THEN {m}
        ELSE { p \in Missions : \E c \in Above[k - 1][m] : mission[c].parent = p }]

\* No chain of parents is longer than the tree may be deep, so none is a cycle.
TreeIsSound == \A m \in Missions : Above[MaxDepth][m] = {}

(***************************************************************************)
(* _descendant_height: the longest path down from m, each mission counted  *)
(* where it is met first, so that a cycle ends the search.                 *)
(***************************************************************************)
LevelsBelow(m, d) == { k \in 0 .. Cardinality(Missions) : m \in Above[k][d] }

DescendantHeight(m) ==
    CHOOSE k \in 0 .. Cardinality(Missions) :
        /\ \E d \in Missions :
            k \in LevelsBelow(m, d) /\ \A j \in LevelsBelow(m, d) : k <= j
        /\ \A d \in Missions :
            LevelsBelow(m, d) = {} \/ \E j \in LevelsBelow(m, d) : j <= k

-----------------------------------------------------------------------------

\* Any sound tree the handlers may find, every mission in its first revision.
Init ==
    /\ \E present \in SUBSET Missions :
        mission \in
            { [m \in Missions |->
                IF m \in present
                THEN [revision |-> 1, parent |-> parent[m],
                      document |-> [BlankDocument EXCEPT !.parent = parent[m]]]
                ELSE NoRow] :
              parent \in { up \in [Missions -> present \cup {NoMission}] :
                             \A m \in Missions \ present : up[m] = NoMission } }
    /\ TreeIsSound
    /\ history = { Entry(m, 1, mission[m].document) : m \in { m \in Missions : Exists(m) } }
    /\ pc = [h \in Handlers |-> "idle"]
    /\ ctx = [h \in Handlers |-> NoContext]

Goto(h, from, to) ==
    /\ pc[h] = from
    /\ pc' = [pc EXCEPT ![h] = to]

Refuse(h, from, because) ==
    /\ Goto(h, from, "refused")
    /\ because
    /\ UNCHANGED <<mission, history, ctx>>

\* The user opens a mission; the form will send back this revision.
View(h, m) ==
    /\ Goto(h, "idle", "viewing")
    /\ Exists(m)
    /\ ctx' = [ctx EXCEPT ![h] = [NoContext EXCEPT !.mission = m,
                                                   !.expected = mission[m].revision]]
    /\ UNCHANGED <<mission, history>>

\* Mutant: expected_revision is not compared.
CurrentAlways(h) == TRUE

\* expected_revision is the revision of the row.
Current(h) == ctx[h].expected = mission[ctx[h].mission].revision

Edited(d, f, v) == [d EXCEPT !.text[f] = v]

\* update_mission reads the row; p is the parent the mission is to have, which
\* may be the one it has.
ReadForUpdate(h, f, v, p) ==
    LET c == ctx[h]
    IN  /\ Goto(h, "viewing", IF p = NoMission THEN "writing" ELSE "climbing")
        /\ Current(h)
        /\ p \in Missions => Exists(p)
        /\ ctx' = [ctx EXCEPT
                ![h].revision = mission[c.mission].revision,
                ![h].document = [Edited(mission[c.mission].document, f, v)
                                    EXCEPT !.parent = p],
                ![h].moves = TRUE,
                ![h].next = p,
                ![h].seen = {c.mission}]
        /\ UNCHANGED <<mission, history>>

\* The learning routes read the row, and keep its place in the tree.
ReadForLearning(h, f, v) ==
    LET c == ctx[h]
    IN  /\ Goto(h, "viewing", "writing")
        /\ Current(h)
        /\ ctx' = [ctx EXCEPT
                ![h].revision = mission[c.mission].revision,
                ![h].document = Edited(mission[c.mission].document, f, v)]
        /\ UNCHANGED <<mission, history>>

\* The parent asked for does not exist: 404.
RefuseUnknownParent(h) ==
    LET unknown == \E p \in Missions : ~ Exists(p)
    IN  Refuse(h, "viewing", Current(h) /\ unknown) \/ Refuse(h, "idle", unknown)

\* mission_revision_conflict.
RefuseStale(h) == Refuse(h, "viewing", ~ Current(h))

\* persist_mission: an analysis edits what it finds, or imports a mission of
\* the catalogue; an edit that changes nothing makes no revision.
ReadForAnalysis(h, m, f, v) ==
    LET d == Edited(mission[m].document, f, v)
    IN  /\ Exists(m) \/ m \in Catalogue
        /\ Goto(h, "idle", IF Exists(m) /\ d = mission[m].document
                           THEN "done" ELSE "writing")
        /\ ctx' = [ctx EXCEPT ![h] = [NoContext EXCEPT !.mission = m, !.document = d,
                                            !.revision = mission[m].revision]]
        /\ UNCHANGED <<mission, history>>

\* create_mission looks at the parent first.
ReadForCreate(h, p) ==
    /\ Goto(h, "idle", IF p = NoMission THEN "naming" ELSE "climbing")
    /\ p \in Missions => Exists(p)
    /\ ctx' = [ctx EXCEPT
            ![h] = [NoContext EXCEPT
                        !.document = [BlankDocument EXCEPT !.parent = p],
                        !.moves = TRUE, !.next = p]]
    /\ UNCHANGED <<mission, history>>

\* _validated_parent reads one ancestor: a cycle, too deep, the top, or on.
ClosesCycle(h) == ctx[h].next \in ctx[h].seen

TooDeep(h) == ctx[h].depth + 1 >= MaxDepth

Climb(h) ==
    LET c  == ctx[h]
        up == mission[c.next].parent
    IN  /\ Goto(h, "climbing",
                IF up # NoMission THEN "climbing"
                ELSE IF c.mission = NoMission THEN "naming" ELSE "measuring")
        /\ ~ ClosesCycle(h)
        /\ ~ TooDeep(h)
        /\ ctx' = [ctx EXCEPT ![h].next = up,
                              ![h].depth = c.depth + 1,
                              ![h].seen = c.seen \cup {c.next}]
        /\ UNCHANGED <<mission, history>>

RefuseParent(h) == Refuse(h, "climbing", ClosesCycle(h) \/ TooDeep(h))

\* Mutant: the missions below the one that moves are forgotten.
FitsAlone(h) == ctx[h].depth < MaxDepth

Fits(h) == ctx[h].depth + DescendantHeight(ctx[h].mission) < MaxDepth

Measure(h) ==
    /\ Goto(h, "measuring", "writing")
    /\ Fits(h)
    /\ UNCHANGED <<mission, history, ctx>>

RefuseHeight(h) == Refuse(h, "measuring", ~ Fits(h))

\* The new mission's code, given or the first free one: nobody has it now.
Name(h, m, f, v) ==
    /\ Goto(h, "naming", "writing")
    /\ ~ Exists(m)
    /\ ctx' = [ctx EXCEPT ![h].mission = m,
                          ![h].document = Edited(ctx[h].document, f, v)]
    /\ UNCHANGED <<mission, history>>

\* mission_code_exists.
RefuseCode(h) == Refuse(h, "naming", \E m \in Missions : Exists(m))

\* Mutant: the history has no unique key.
KeyAlwaysFree(h) == ctx[h].revision = 0 => ~ Exists(ctx[h].mission)

\* The unique keys of mi_missions and of mi_mission_revisions.
KeyFree(h) ==
    LET c == ctx[h]
    IN  /\ c.revision = 0 => ~ Exists(c.mission)
        /\ \A e \in history :
            e.mission = c.mission => e.revision # c.revision + 1

\* Mutant: a new document clears the parent column.
PlacedNowhere(h) == IF ctx[h].moves THEN ctx[h].document.parent ELSE NoMission

\* Only create_mission and update_mission write the parent column.
Placed(h) ==
    IF ctx[h].moves THEN ctx[h].document.parent
    ELSE mission[ctx[h].mission].parent

\* The row and its history entry are written in one transaction.
Write(h) ==
    LET c == ctx[h]
    IN  /\ Goto(h, "writing", "done")
        /\ KeyFree(h)
        /\ mission' = [mission EXCEPT
                ![c.mission] = [revision |-> c.revision + 1,
                                parent   |-> Placed(h),
                                document |-> c.document]]
        /\ history' = history \cup {Entry(c.mission, c.revision + 1, c.document)}
        /\ UNCHANGED ctx

\* IntegrityError: nothing is written, the client sees a server error.
FailOnKey(h) ==
    /\ Goto(h, "writing", "failed")
    /\ ~ KeyFree(h)
    /\ UNCHANGED <<mission, history, ctx>>

\* The queries before the write.
Read(h) ==
    \/ \E m \in Missions : View(h, m)
    \/ \E p \in Link : ReadForCreate(h, p)
    \/ \E f \in Fields, v \in Values, p \in Link : ReadForUpdate(h, f, v, p)
    \/ \E f \in Fields, v \in Values : ReadForLearning(h, f, v)
    \/ \E f \in Fields, v \in Values, m \in Missions : ReadForAnalysis(h, m, f, v)
    \/ Climb(h)
    \/ Measure(h)
    \/ \E f \in Fields, v \in Values, m \in Missions : Name(h, m, f, v)

\* The answers that are errors.
Stop(h) ==
    \/ RefuseUnknownParent(h)
    \/ RefuseStale(h)
    \/ RefuseParent(h)
    \/ RefuseHeight(h)
    \/ RefuseCode(h)
    \/ FailOnKey(h)

Next == \E h \in Handlers : Read(h) \/ Stop(h) \/ Write(h)

Spec == Init /\ [][Next]_vars
==============================================================================
