---------------------------- MODULE GroundedTurns ----------------------------
(***************************************************************************)
(* Which of a mission's records the turns of a dialogue put before the     *)
(* provider: interactive._mission_working_set ranks every record of the    *)
(* document afresh for each turn and each context profile, and remembers   *)
(* the conversation only through the records the last two answers rested   *)
(* upon.  The mission may be edited between turns, and turns may fail.     *)
(*                                                                         *)
(* Records are numbered in the document's order.                           *)
(***************************************************************************)
EXTENDS Naturals, Sequences, FiniteSets

CONSTANTS
    Records,     \* identifiers the mission's records may have
    Weight,      \* of a record: kind_weight of its kind
    Confirmed,   \* the records whose verification is confirmed
    Questions,   \* what turns may ask: the occurrences of the question's terms
                 \* in each record, and the records with deterministic gaps
    Limits,      \* the profiles' "records", the largest first
    MaxTurns     \* answered turns of the session

ASSUME GroundAssumption ==
    /\ Records \subseteq Nat \ {0} /\ IsFiniteSet(Records)
    /\ Weight \in [Records -> {4, 9, 10, 11, 12, 14, 15, 16, 18}]
    /\ Confirmed \subseteq Records
    /\ Questions \subseteq [hits : [Records -> Nat], gaps : SUBSET Records]
    /\ MaxTurns \in Nat
    /\ Limits \in Seq(Nat \ {0})
    /\ \A p, q \in DOMAIN Limits : p <= q => Limits[q] <= Limits[p]

VARIABLES
    document,   \* the records of the mission as it stands
    history,    \* what each answered turn rested upon, in order
    asking      \* the turn under way: see Silence

groundVars == <<document, history, asking>>

\* Of a turn: the records it read, the question, and the records the
\* conversation rests upon.
Silence == [on |-> FALSE, records |-> {}, question |-> <<>>, ground |-> {}]

GroundInit ==
    /\ document \in SUBSET Records
    /\ history = <<>>
    /\ asking = Silence

\* An edit of the mission adds a record or takes one away.
Revise(r) ==
    /\ document' = IF r \in document THEN document \ {r} ELSE document \cup {r}
    /\ UNCHANGED <<history, asking>>

\* history[-2:]
LastTwo(told) ==
    IF Len(told) <= 2 THEN told ELSE SubSeq(told, Len(told) - 1, Len(told))

\* _referenced_ids
Ground(told) == UNION {told[i] : i \in DOMAIN told}

\* The turn reads the mission and the answers of the session.
Ask(question) ==
    /\ ~ asking.on
    /\ Len(history) < MaxTurns
    /\ asking' = [on |-> TRUE, records |-> document, question |-> question,
                  ground |-> Ground(LastTwo(history))]
    /\ UNCHANGED <<document, history>>

-----------------------------------------------------------------------------
\* What the turn's candidates show

If(condition, points) == IF condition THEN points ELSE 0

\* Mutant: a gap counts like the conversation.
RelevanceOfGaps(t, r) ==
    8 * t.question.hits[r] + Weight[r] + If(r \in t.ground, 80)
    + If(r \in t.question.gaps, 80) + If(r \in Confirmed, 8)

Relevance(t, r) ==
    8 * t.question.hits[r] + Weight[r] + If(r \in t.ground, 80)
    + If(r \in t.question.gaps, 45) + If(r \in Confirmed, 8)

\* Ties go to the record that comes first in the document.
Outranks(t, r, o) ==
    \/ Relevance(t, r) > Relevance(t, o)
    \/ Relevance(t, r) = Relevance(t, o) /\ r < o

\* selected_ids of the p-th profile.
Window(t, p) ==
    {r \in t.records :
        Cardinality({o \in t.records : Outranks(t, o, r)}) < Limits[p]}

-----------------------------------------------------------------------------
\* An answer rests on records of the document the turn read
\* (_validate_references), whether or not they were shown.
Respond(cited) ==
    /\ asking.on
    /\ cited \subseteq asking.records
    /\ history' = Append(history, cited)
    /\ asking' = Silence
    /\ UNCHANGED document

\* A turn without an answer is not part of the history.
Fail ==
    /\ asking.on
    /\ asking' = Silence
    /\ UNCHANGED <<document, history>>

GroundNext ==
    \/ \E r \in Records : Revise(r)
    \/ \E question \in Questions : Ask(question)
    \/ \E cited \in SUBSET Records : Respond(cited)
    \/ Fail

GroundSpec == GroundInit /\ [][GroundNext]_groundVars

------------------------------------------------------------------------------
\* What a conversation may count on about the records its turns are shown.

\* The turn under way reads a document; what earlier answers rested upon may
\* have left the mission since.
GroundTypes ==
    /\ document \subseteq Records
    /\ Len(history) <= MaxTurns
    /\ asking.on =>
         \A p \in DOMAIN Limits :
            /\ Window(asking, p) \subseteq asking.records
            /\ Cardinality(Window(asking, p)) <= Limits[p]

\* The records the last two answers rested upon stay before the provider, at
\* every profile it may be retried with, while they are in the mission: one
\* gives way only to records as much part of the conversation, or to one that
\* answers at least two more of the question's terms, whatever the kind, the
\* standing or the gaps of the other (the +80 of _mission_working_set against
\* its other weights).  A failed turn does not make the conversation forget.
Recent == Ground(SubSeq(history,
                        IF Len(history) > 1 THEN Len(history) - 1 ELSE 1,
                        Len(history)))

ConversationsKeepTheirGround ==
    asking.on =>
        \A p \in DOMAIN Limits :
            \A r \in (Recent \cap asking.records) \ Window(asking, p) :
                \A o \in Window(asking, p) \ Recent :
                    asking.question.hits[o] >= asking.question.hits[r] + 2
==============================================================================
