---------------------------- MODULE MissionReport ----------------------------
(***************************************************************************)
(* The deterministic report of a mission (engine.analyze_mission): its     *)
(* gaps, its status, the confidence a decision may claim and what to do    *)
(* next, from the records of its document and nothing else.                *)
(*                                                                         *)
(* A document is what the contract admits, whoever wrote it: a sequence of *)
(* records, relations between their positions, and what its metadata says  *)
(* of baseline, decision stage and context.  Titles and explanations are   *)
(* left out.  The score is an exact fraction; for the numbers of records   *)
(* considered here the program's floats compare with the thresholds as the *)
(* fractions do.                                                           *)
(***************************************************************************)
EXTENDS Integers, Sequences, FiniteSets, SequencesExt

CONSTANTS
    Links,         \* relations a document may have
    MaxLinks,      \* most relations in a document
    MaxEntries,    \* most records in a document without relations
    ReviewDepth    \* how many relations a refutation is followed

ASSUME ReportAssumption == ReviewDepth \in Nat

VARIABLES
    document,  \* the document under analysis
    queue,     \* propagate_review: records reached, with their distance
    visited,   \* propagate_review: records reached so far
    report     \* the report, once there is one

reportVars == <<document, queue, visited, report>>

NoReport == [status |-> "none"]

-----------------------------------------------------------------------------
\* Reading the document

Of(d, kind) == {i \in DOMAIN d.records : d.records[i].kind = kind}
In(d, kind, states) == {i \in Of(d, kind) : d.records[i].state \in states}

\* _active
Settled == {"resolved", "refuted", "rejected", "completed"}
Open(d, kind) == Of(d, kind) \ In(d, kind, Settled)

Refuted(d) == In(d, "assumption", {"refuted"})

\* Mutant: only the alternatives that are still considered.
StandingAlternatives(d) == Open(d, "alternative")

\* "Rejected alternatives remain part of the decision record."
Alternatives(d) == Of(d, "alternative")
Selected(d) == In(d, "decision", {"selected", "completed"})

\* A free text is never a baseline: a record or relation is marked as one.
NeedsBaseline(d) == d.baseline = "required"
LacksBaseline(d) == NeedsBaseline(d) /\ ~d.measured

\* _context_assessment: a dossier that does not meet its contract is none.
ContextStatus(d) ==
    IF d.dossier \in {"none", "invalid"}
    THEN IF d.dossier = "none" /\ ~d.research THEN "not_required"
         ELSE "not_started"
    ELSE d.dossier

-----------------------------------------------------------------------------
\* Confidence

Documents(d) == Of(d, "observation") \cup Of(d, "evidence")
Auditable(d) == {i \in Documents(d) : d.records[i].audited}
WellSourced(d) ==
    Documents(d) # {} /\ 10 * Cardinality(Auditable(d)) >= 8 * Cardinality(Documents(d))

EvidenceValue(d) ==
    LET seen == Cardinality(Of(d, "observation"))
    IN  IF Of(d, "evidence") # {} THEN IF WellSourced(d) THEN 100 ELSE 65
        ELSE IF seen >= 2 THEN 55 ELSE IF seen = 1 THEN 25 ELSE 0

AlternativeThirds(d) ==
    LET n == Cardinality(Alternatives(d)) IN IF n > 3 THEN 3 ELSE n

DecisionValue(d) ==
    IF Selected(d) # {} THEN 100 ELSE IF Of(d, "decision") # {} THEN 35 ELSE 0

\* The weights are 30, 15 and 15 and, for what there is to settle, 20 each, of
\* values in percent.  Reaches: the weighted mean is at least that many percent.
Reaches(d, percent) ==
    LET as == Cardinality(Of(d, "assumption"))
        cs == Cardinality(Of(d, "constraint"))
        a == IF as = 0 THEN 1 ELSE as
        c == IF cs = 0 THEN 1 ELSE cs
        base == 3 * 30 * EvidenceValue(d) + 15 * 100 * AlternativeThirds(d)
                + 3 * 15 * DecisionValue(d)
        total == base * a * c
                 + 3 * 20 * 100 * (as - Cardinality(Open(d, "assumption"))) * c
                 + 3 * 20 * 100 * (cs - Cardinality(Open(d, "constraint"))) * a
        weight == 60 + (IF as = 0 THEN 0 ELSE 20) + (IF cs = 0 THEN 0 ELSE 20)
    IN  total >= 3 * weight * a * c * percent

Confidence(d) ==
    IF Of(d, "decision") = {} THEN "not_evaluable"
    ELSE IF Reaches(d, 70) THEN "high"
    ELSE IF Reaches(d, 30) THEN "moderate" ELSE "low"

AlternativesRequired(d) == Of(d, "decision") # {} \/ d.staged

\* _assessment, of what is settled out of what there is to settle.
Assessment(d, kind) ==
    LET all == Cardinality(Of(d, kind))
        settled == all - Cardinality(Open(d, kind))
    IN  CASE all = 0 -> "not_applicable"
          [] all > 0 /\ 10 * settled >= 8 * all -> "strong"
          [] all > 0 /\ 10 * settled < 8 * all /\ 10 * settled >= 5 * all -> "partial"
          [] all > 0 /\ 10 * settled < 5 * all -> "weak"

\* The factors shown beside the confidence.
Factors(d) ==
    [evidence |-> IF EvidenceValue(d) = 100 THEN "strong"
                  ELSE IF EvidenceValue(d) >= 55 THEN "partial" ELSE "weak",
     assumptions |-> Assessment(d, "assumption"),
     constraints |-> Assessment(d, "constraint"),
     alternatives |-> IF ~AlternativesRequired(d) THEN "not_applicable"
                      ELSE IF AlternativeThirds(d) = 3 THEN "strong"
                      ELSE IF AlternativeThirds(d) > 0 THEN "partial" ELSE "weak",
     readiness |-> IF Selected(d) # {} THEN "strong"
                   ELSE IF Of(d, "decision") # {} THEN "partial" ELSE "not_applicable",
     context |-> CASE ContextStatus(d) = "not_required" -> "not_applicable"
                   [] ContextStatus(d) = "not_started" -> "weak"
                   [] ContextStatus(d) \in {"preliminary", "in_review"} -> "partial"
                   [] ContextStatus(d) = "reviewed" ->
                         IF d.lacking THEN "partial" ELSE "strong"]

-----------------------------------------------------------------------------
\* Gaps, status and next steps

HighGaps(d) ==
    {code \in {"assumptions_open", "constraints_open", "outcome_no_baseline",
               "no_alternatives", "context_not_researched", "refutation_review"} :
       CASE code = "assumptions_open" -> Open(d, "assumption") # {}
         [] code = "constraints_open" -> Open(d, "constraint") # {}
         [] code = "outcome_no_baseline" ->
               LacksBaseline(d) /\ Of(d, "outcome") # {}
         [] code = "no_alternatives" ->
               AlternativesRequired(d) /\ Alternatives(d) = {}
         [] code = "context_not_researched" ->
               d.research /\ ContextStatus(d) = "not_started"
         [] code = "refutation_review" -> Refuted(d) # {}}

MediumGaps(d) ==
    {code \in {"no_baseline", "context_review_pending", "provenance_incomplete"} :
       CASE code = "no_baseline" -> LacksBaseline(d) /\ Of(d, "outcome") = {}
         [] code = "context_review_pending" ->
               ContextStatus(d) \in {"preliminary", "in_review"}
         [] code = "provenance_incomplete" ->
               Documents(d) # {} /\ ~WellSourced(d)}

Status(d) ==
    IF In(d, "constraint", {"violated"}) # {}
         \/ (LacksBaseline(d) /\ Of(d, "outcome") # {}) THEN "critical"
    ELSE IF HighGaps(d) # {} THEN "requires_attention"
    ELSE IF /\ Of(d, "outcome") # {} /\ Of(d, "learning") # {}
            /\ Selected(d) # {} THEN "completed"
    ELSE "on_track"

Due(d, step) ==
    CASE step = "baseline" -> LacksBaseline(d) /\ Of(d, "outcome") = {}
      [] step = "context" ->
            /\ d.research
            /\ ContextStatus(d) \in {"not_started", "preliminary", "in_review"}
      [] step = "constraints" -> Open(d, "constraint") # {}
      [] step = "assumptions" -> Open(d, "assumption") # {}
      [] step = "alternatives" ->
            AlternativesRequired(d) /\ Alternatives(d) = {}

IfDue(d, step) == IF Due(d, step) THEN <<step>> ELSE << >>

\* The first three things to do; with nothing to do, a decision or a review.
NextSteps(d) ==
    LET due == IfDue(d, "baseline") \o IfDue(d, "context") \o IfDue(d, "constraints")
               \o IfDue(d, "assumptions") \o IfDue(d, "alternatives")
    IN  IF due # << >> THEN SubSeq(due, 1, IF Len(due) > 3 THEN 3 ELSE Len(due))
        ELSE IF Of(d, "decision") = {} THEN <<"decision">> ELSE <<"review">>

-----------------------------------------------------------------------------
\* The analysis

\* What a refutation may touch is followed breadth first from its assumptions.
Propagate ==
    /\ queue = << >> /\ visited = {} /\ report = NoReport
    /\ Refuted(document) # {}
    /\ \E order \in SetToSeqs(Refuted(document)) :
          queue' = [i \in DOMAIN order |-> [id |-> order[i], depth |-> 0]]
    /\ visited' = Refuted(document)
    /\ UNCHANGED <<document, report>>

Visit ==
    /\ queue # << >>
    /\ LET at == Head(queue)
           new == {j \in DOMAIN document.records :
                     <<at.id, j>> \in document.relations /\ j \notin visited}
           rest == Tail(queue)
       IN  IF at.depth >= ReviewDepth
           THEN queue' = rest /\ UNCHANGED visited
           ELSE /\ \E order \in SetToSeqs(new) :
                      queue' = rest \o [i \in DOMAIN order |->
                                          [id |-> order[i], depth |-> at.depth + 1]]
                /\ visited' = visited \cup new
    /\ UNCHANGED <<document, report>>

Report ==
    /\ queue = << >> /\ report = NoReport
    /\ Refuted(document) \subseteq visited
    /\ report' = [status |-> Status(document), confidence |-> Confidence(document),
                  factors |-> Factors(document),
                  high |-> HighGaps(document), medium |-> MediumGaps(document),
                  next |-> NextSteps(document), affected |-> visited]
    /\ UNCHANGED <<document, queue, visited>>

-----------------------------------------------------------------------------
\* The documents considered: some that have relations, some that have none.

Entry(kind, state, audited) == [kind |-> kind, state |-> state, audited |-> audited]

Plain == [records |-> << >>, relations |-> {}, baseline |-> "not_applicable",
          measured |-> FALSE, dossier |-> "none", lacking |-> FALSE, research |-> FALSE,
          staged |-> FALSE]

Entries ==
    <<Entry("observation", "declared", TRUE), Entry("observation", "declared", FALSE),
      Entry("evidence", "declared", TRUE), Entry("evidence", "declared", FALSE),
      Entry("assumption", "unresolved", FALSE), Entry("assumption", "resolved", FALSE),
      Entry("assumption", "refuted", FALSE),
      Entry("constraint", "unresolved", FALSE), Entry("constraint", "resolved", FALSE),
      Entry("constraint", "violated", FALSE),
      Entry("alternative", "open", FALSE), Entry("alternative", "rejected", FALSE),
      Entry("decision", "open", FALSE), Entry("decision", "selected", FALSE),
      Entry("outcome", "observed", FALSE), Entry("learning", "declared", FALSE)>>

\* The order of the records of a document does not matter.
Sheets(most) ==
    {[i \in DOMAIN s |-> Entries[s[i]]] :
       s \in UNION {{s \in [1 .. n -> DOMAIN Entries] :
                       \A i \in 1 .. n - 1 : s[i] <= s[i + 1]} : n \in 0 .. most}}

\* What a document's metadata may ask for.
Demands ==
    {Plain, [Plain EXCEPT !.staged = TRUE],
     [Plain EXCEPT !.baseline = "required"],
     [Plain EXCEPT !.baseline = "required", !.measured = TRUE],
     [Plain EXCEPT !.dossier = "in_review"]}
    \cup {[Plain EXCEPT !.research = TRUE, !.dossier = s] :
            s \in {"none", "invalid", "preliminary", "reviewed"}}
    \cup {[Plain EXCEPT !.dossier = "reviewed", !.lacking = TRUE]}

\* Two refuted assumptions, and three records that may depend on them.
Chained ==
    {[Plain EXCEPT !.relations = links,
                   !.records = <<Entry("assumption", "refuted", FALSE),
                                 Entry("assumption", "refuted", FALSE),
                                 Entry("decision", "open", FALSE),
                                 Entry("decision", "open", FALSE),
                                 Entry("decision", "open", FALSE)>>] :
       links \in {s \in SUBSET Links : Cardinality(s) <= MaxLinks}}

ReportInit ==
    /\ document \in Chained
                    \cup {[Plain EXCEPT !.records = s] : s \in Sheets(MaxEntries)}
                    \cup {[d EXCEPT !.records = s] :
                             d \in Demands, s \in Sheets(MaxEntries - 1)}
    /\ queue = << >> /\ visited = {}
    /\ report = NoReport

ReportNext == Propagate \/ Visit \/ Report

ReportSpec == ReportInit /\ [][ReportNext]_reportVars

-----------------------------------------------------------------------------
\* What a report promises.

ReportTypes ==
    /\ visited \subseteq DOMAIN document.records
    /\ \A i \in DOMAIN queue :
          queue[i].id \in visited /\ queue[i].depth \in 0 .. ReviewDepth
    /\ report.status \in {"none", "on_track", "completed", "requires_attention",
                          "critical"}

\* The records within some number of relations of a refuted assumption.
Downstream(d) ==
    LET within[n \in 0 .. ReviewDepth] ==
            IF n = 0 THEN Refuted(d)
            ELSE within[n - 1] \cup
                 {j \in DOMAIN d.records :
                    \E i \in within[n - 1] : <<i, j>> \in d.relations}
    IN  within[ReviewDepth]

\* Ways a mission's record can become better: a thing is settled, chosen,
\* sourced or added, an alternative rejected, the context reviewed.
Restated(d, kind, states, new) ==
    {[d EXCEPT !.records[i].state = new] : i \in In(d, kind, states)}
Better(d) ==
    Restated(d, "assumption", {"unresolved"}, "resolved")
    \cup Restated(d, "constraint", {"unresolved", "violated"}, "resolved")
    \cup Restated(d, "alternative", {"open"}, "rejected")
    \cup Restated(d, "decision", {"open"}, "selected")
    \cup {[d EXCEPT !.records[i].audited = TRUE] : i \in Documents(d)}
    \cup {[d EXCEPT !.records = Append(@, e)] :
            e \in {Entry("observation", "declared", TRUE),
                   Entry("evidence", "declared", TRUE),
                   Entry("alternative", "open", FALSE)}}
    \cup {[d EXCEPT !.measured = TRUE],
          [d EXCEPT !.dossier = "reviewed", !.lacking = FALSE]}

Grade(confidence) ==
    CASE confidence = "high" -> 2 [] confidence = "moderate" -> 1
      [] confidence \in {"low", "not_evaluable"} -> 0
Rank(assessment) ==
    CASE assessment = "strong" -> 3 [] assessment = "partial" -> 2
      [] assessment = "weak" -> 1 [] assessment = "not_applicable" -> 0
Alarm(status) ==
    CASE status = "critical" -> 2 [] status = "requires_attention" -> 1
      [] status \in {"completed", "on_track"} -> 0

\* A refutation puts up for review exactly what lies within ReviewDepth
\* relations of it, on whatever path (propagate_review).  A mission whose record
\* became better is not told the worse for it: no new high gap, no worse status,
\* no less confidence in any factor; rejecting an alternative, which "remains
\* part of the decision record", counts as such.  And a report that asks for
\* nothing but a review leaves nothing grave unsaid but a refutation, or an
\* outcome that came before its baseline.
ReportsAreSound ==
    report # NoReport =>
        /\ report.affected = Downstream(document)
        /\ \A d \in Better(document) :
              /\ Grade(Confidence(d)) >= Grade(report.confidence)
              /\ LET now == Factors(d)
                 IN  \A f \in DOMAIN now : Rank(now[f]) >= Rank(report.factors[f])
              /\ Alarm(Status(d)) <= Alarm(report.status)
              /\ HighGaps(d) \subseteq report.high
        /\ report.next = <<"review">> =>
              report.high \subseteq {"refutation_review", "outcome_no_baseline"}
==============================================================================
