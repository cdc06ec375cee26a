----------------------- MODULE OrganizationalLearning -----------------------
(***************************************************************************)
(* What an organisation learns across its missions, as the read-only views *)
(* compute it from the documents: the learnings that recur in them, and    *)
(* the work they leave pending, counted as a debt.                         *)
(*                                                                         *)
(* Documents change by one record or relation at a time.  A document lists *)
(* its records in the order of RecordOrder.                                *)
(***************************************************************************)
EXTENDS Naturals, Sequences, FiniteSets, FiniteSetsExt

CONSTANTS
    MissionOrder,   \* the missions, oldest first
    RecordOrder,    \* the records there may be
    RelationTypes,  \* that documents use
    MaxRelations,   \* of a document
    Facts           \* of a record: [kind, words, marks]; a learning is marked
                    \* "inherited", or "scoped" by conditions of validity, a
                    \* hypothesis "revalidate", and evidence "stale" when it
                    \* has no date or one a year ago

VARIABLES
    records,        \* of a mission
    pending,        \* records whose state is one of OPEN_STATES
    relations,      \* of a mission: [type, source, target]
    archived        \* missions

learningViewVars == <<records, pending, relations, archived>>

AllMissions == { MissionOrder[i] : i \in DOMAIN MissionOrder }
AllRecords == { RecordOrder[i] : i \in DOMAIN RecordOrder }

ASSUME ViewsAssumption == /\ MaxRelations \in Nat
                          /\ MissionOrder \in Seq(AllMissions)
                          /\ RecordOrder \in Seq(AllRecords)

OUTCOME_RELATIONS ==
    {"produced", "produced_outcome", "resulted_in", "result_of", "outcome_of", "measured_by"}

OfKind(m, kind) == { r \in records[m] : Facts[r].kind = kind }

ViewsInit ==
    /\ records = [m \in AllMissions |-> {}]
    /\ pending = {}
    /\ relations = [m \in AllMissions |-> {}]
    /\ archived = {}

\* A record is written into one document, in an open state or not; only of
\* assumptions and constraints do the views read the state.
AddRecord(m, r, open) ==
    /\ \A n \in AllMissions : r \notin records[n]
    /\ open => Facts[r].kind \in {"assumption", "constraint"}
    /\ records' = [records EXCEPT ![m] = @ \cup {r}]
    /\ pending' = IF open THEN pending \cup {r} ELSE pending
    /\ UNCHANGED <<relations, archived>>

AddRelation(m, type, source, target) ==
    /\ {source, target} \subseteq records[m] /\ source # target
    /\ Cardinality(relations[m]) < MaxRelations
    /\ relations' = [relations EXCEPT ![m] =
                        @ \cup {[type |-> type, source |-> source, target |-> target]}]
    /\ UNCHANGED <<records, pending, archived>>

Settle(r) ==
    /\ r \in pending
    /\ pending' = pending \ {r}
    /\ UNCHANGED <<records, relations, archived>>

Archive(m) ==
    /\ archived' = archived \cup {m}
    /\ UNCHANGED <<records, pending, relations>>

ActiveMissions == AllMissions \ archived

(***************************************************************************)
(* Emergent patterns: a forest in which each learning points to another of *)
(* its group, and whoever is looked up is moved half way up.               *)
(***************************************************************************)
\* A learning of the mission that was not inherited, and that has words.
Learned(m, r) ==
    r \in OfKind(m, "learning") /\ "inherited" \notin Facts[r].marks /\ Facts[r].words # {}

\* Those of a mission, and of the organisation, in the order of the documents.
LearnedIn(m) ==
    LET upTo[i \in 0 .. Len(RecordOrder)] ==
            IF i = 0 THEN <<>>
            ELSE IF Learned(m, RecordOrder[i])
                 THEN Append(upTo[i - 1], [mission |-> m, id |-> RecordOrder[i]])
                 ELSE upTo[i - 1]
    IN  upTo[Len(RecordOrder)]

LearningRecords ==
    LET upTo[i \in 0 .. Len(MissionOrder)] ==
            IF i = 0 THEN <<>>
            ELSE IF MissionOrder[i] \in archived THEN upTo[i - 1]
                 ELSE upTo[i - 1] \o LearnedIn(MissionOrder[i])
    IN  upTo[Len(MissionOrder)]

\* Learnings of two missions whose words agree to 0.42.
Recurs(a, b) ==
    LET shared == Facts[a.id].words \cap Facts[b.id].words
        both == Facts[a.id].words \cup Facts[b.id].words
    IN  a.mission # b.mission /\ 100 * Cardinality(shared) >= 42 * Cardinality(both)

\* find: the parents as it leaves them and the root it returns, after as many
\* steps as there are learnings.
Find(parent, index) ==
    LET step[n \in Nat] ==
            IF n = 0 THEN [parent |-> parent, root |-> index]
            ELSE LET last == step[n - 1]
                     p == last.parent
                     i == last.root
                     halved == [p EXCEPT ![i] = p[p[i]]]
                 IN  IF p[i] = i THEN last
                     ELSE [parent |-> halved, root |-> halved[i]]
    IN  step[Cardinality(DOMAIN parent)]

\* Mutant: the learning itself is hung under the other, not its root.
UnionOfIndexes(parent, left, right) == [parent EXCEPT ![right] = left]

Union(parent, left, right) ==
    LET l == Find(parent, left)
        r == Find(l.parent, right)
    IN  IF l.root = r.root THEN r.parent
        ELSE [r.parent EXCEPT ![r.root] = l.root]

\* The pairs are taken in the order of two nested loops.
Forest(found) ==
    LET size == Len(found)
        after[n \in 0 .. size * size] ==
            IF n = 0 THEN [i \in 1 .. size |-> i]
            ELSE LET left == ((n - 1) \div size) + 1
                     right == ((n - 1) % size) + 1
                 IN  IF left < right /\ Recurs(found[left], found[right])
                     THEN Union(after[n - 1], left, right)
                     ELSE after[n - 1]
    IN  after[size * size]

\* _pattern_clusters: groups that span two missions.
Patterns ==
    LET found == LearningRecords
        forest == Forest(found)
        root == [k \in DOMAIN found |-> Find(forest, k).root]
        groups == { { found[i] : i \in { j \in DOMAIN found : root[j] = root[k] } }
                    : k \in DOMAIN found }
    IN  { g \in groups : Cardinality({ l.mission : l \in g }) >= 2 }

(***************************************************************************)
(* Pending work                                                            *)
(***************************************************************************)
AtMost(bound, n) == IF n < bound THEN n ELSE bound

\* round(n / d), which takes a half to the even neighbour.
Round(n, d) ==
    LET q == n \div d  rest == 2 * (n % d)
    IN  IF rest > d \/ (rest = d /\ q % 2 = 1) THEN q + 1 ELSE q

\* Decisions no outcome relation joins to an outcome, whichever way it points.
WithoutOutcome(m) ==
    { d \in OfKind(m, "decision") :
        \A t \in relations[m] :
            t.type \in OUTCOME_RELATIONS =>
                ~ \E o \in OfKind(m, "outcome") : {t.source, t.target} = {d, o} }

\* _decision_debt_for_document, component by component.
DebtScore(m) ==
    AtMost(100,
        18 * Cardinality(WithoutOutcome(m))
        + 10 * Cardinality(OfKind(m, "assumption") \cap pending)
        + 8 * Cardinality(OfKind(m, "constraint") \cap pending)
        + 7 * Cardinality({ r \in OfKind(m, "evidence") : "stale" \in Facts[r].marks })
        + 15 * Cardinality({ r \in OfKind(m, "hypothesis") : "revalidate" \in Facts[r].marks })
        + 8 * Cardinality({ r \in OfKind(m, "learning") :
                              Facts[r].marks \cap {"inherited", "scoped"} = {} }))

\* The organisation's: the mean over the missions it has not archived.
PortfolioDebt ==
    Round(MapThenSumSet(DebtScore, ActiveMissions),
          IF ActiveMissions = {} THEN 1 ELSE Cardinality(ActiveMissions))

ViewsNext ==
    \/ \E m \in AllMissions :
        \/ \E r \in AllRecords, open \in BOOLEAN : AddRecord(m, r, open)
        \/ \E type \in RelationTypes :
            \E s, t \in records[m] : AddRelation(m, type, s, t)
        \/ Archive(m)
    \/ \E r \in AllRecords : Settle(r)

ViewsSpec == ViewsInit /\ [][ViewsNext]_learningViewVars

------------------------------------------------------------------------------
(***************************************************************************)
(* What the views of an organisation's learning may claim.                 *)
(***************************************************************************)

\* Relations join records of their document, and no debt exceeds a hundred.
ViewTypes ==
    /\ \A m \in AllMissions : \A t \in relations[m] : {t.source, t.target} \subseteq records[m]
    /\ pending \subseteq UNION { records[m] : m \in AllMissions }
    /\ PortfolioDebt \in 0 .. 100

(***************************************************************************)
(* What recurs: the learnings that a chain leads to from one of them, each *)
(* resembling the next and from another mission, if there are two.         *)
(***************************************************************************)
Recurrences ==
    LET listed == LearningRecords
        found == { listed[i] : i \in DOMAIN listed }
        neighbours(set) == set \cup { l \in found : \E o \in set : Recurs(l, o) }
        chained[n \in Nat] ==
            [l \in found |-> IF n = 0 THEN {l} ELSE neighbours(chained[n - 1][l])]
        reach == chained[Cardinality(found)]
    IN  { reach[l] : l \in { o \in found : \E p \in found : Recurs(o, p) } }

(***************************************************************************)
(* Settling what is pending, or relating records to each other, never adds *)
(* to the debt of a mission or, rounded as it is, of the organisation.     *)
(***************************************************************************)
SettlingReducesDebt ==
    [][(pending' # pending \/ relations' # relations) /\ records' = records =>
        /\ \A m \in AllMissions : DebtScore(m)' <= DebtScore(m)
        /\ PortfolioDebt' <= PortfolioDebt
      ]_learningViewVars

(***************************************************************************)
(* A pattern is a recurrence and the whole of it: no order in which the    *)
(* pairs are met splits a group or joins two.  And settling pays the debt. *)
(***************************************************************************)
ViewsAreSound == [](Patterns = Recurrences) /\ SettlingReducesDebt
==============================================================================
