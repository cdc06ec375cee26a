----------------------------- MODULE MCKnowledge -----------------------------
(***************************************************************************)
(* What an organisation keeps of its missions: the learnings that one      *)
(* document inherits from another, the memory index, the views of what was *)
(* learned, the repository's assets, the objects of guided sessions and    *)
(* the reports of missions.                                                *)
(* The parts share no variable: one of Parts moves while the others rest   *)
(* where they began.                                                       *)
(***************************************************************************)
EXTENDS InheritedLearning, OrganizationMemory, OrganizationalLearning,
        KnowledgeWorkflow, GuidedReasoning, MissionReport, TLC

CONSTANTS
    Parts,                          \* of those named below
    m1, m2, l1, l2, l3, d1, o1, a1  \* missions and records
VARIABLE part

\* The memory's items: a record of either mission.
MCOrder == <<<<m1, a1>>, <<m2, a1>>>>

MCMissionOrder == <<m1, m2>>
MCRecordOrder == <<l1, l2, l3, d1, o1, a1>>
MCFacts ==
    LET fact(kind, words, marks) == [kind |-> kind, words |-> words, marks |-> marks]
    IN  l1 :> fact("learning", 1 .. 3, {})
        @@ l2 :> fact("learning", 2 .. 4, {"scoped"})
        @@ l3 :> fact("learning", 3 .. 5, {})
        @@ d1 :> fact("decision", {}, {})
        @@ o1 :> fact("outcome", {}, {})
        @@ a1 :> fact("assumption", {}, {})

\* From any record to one that is not refuted itself, and of one to itself.
MCLinks == {l \in (1 .. 5) \X (3 .. 5) : l[1] # l[2]} \cup {<<3, 3>>}

\* x and y are whatever a part has two of.
Symmetry == Permutations(Edits) \cup Permutations(Lessons)

KnowledgeInit ==
    /\ part \in Parts
    /\ part = "report" \/ document = Plain
    /\ InheritInit /\ MemoryInit /\ ViewsInit /\ WorkflowInit /\ GuidedInit
    /\ ReportInit

KnowledgeNext ==
    \/ /\ part = "inheritance" /\ InheritNext
       /\ UNCHANGED <<part, memoryVars, learningViewVars, workflowVars, guidedVars,
                      reportVars>>
    \/ /\ part = "memory" /\ MemoryNext
       /\ UNCHANGED <<part, inheritVars, learningViewVars, workflowVars, guidedVars,
                      reportVars>>
    \/ /\ part = "views" /\ ViewsNext
       /\ UNCHANGED <<part, inheritVars, memoryVars, workflowVars, guidedVars,
                      reportVars>>
    \/ /\ part = "workflow" /\ WorkflowNext
       /\ UNCHANGED <<part, inheritVars, memoryVars, learningViewVars, guidedVars,
                      reportVars>>
    \/ /\ part = "guided" /\ GuidedNext
       /\ UNCHANGED <<part, inheritVars, memoryVars, learningViewVars, workflowVars,
                      reportVars>>
    \/ /\ part = "report" /\ ReportNext
       /\ UNCHANGED <<part, inheritVars, memoryVars, learningViewVars, workflowVars,
                      guidedVars>>

KnowledgeSpec ==
    KnowledgeInit /\ [][KnowledgeNext]_<<part, inheritVars, memoryVars, learningViewVars,
                                         workflowVars, guidedVars, reportVars>>

\* Every part has its types.
KnowledgeTypes ==
    InheritTypes /\ MemoryTypes /\ ViewTypes /\ WorkflowTypes /\ GuidedTypes
    /\ ReportTypes
==============================================================================
