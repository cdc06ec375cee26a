--------------------------- MODULE GuidedReasoning ---------------------------
(***************************************************************************)
(* One guided session (api/experience.py): questions answered in order, a  *)
(* preview the user may correct, and a confirmation that makes the domain  *)
(* objects; and the count of how often a learning was reused               *)
(* (api/domain.py).                                                        *)
(*                                                                         *)
(* A handler reads the row, decides, and commits the columns it assigned;  *)
(* the answers are one JSON column, written whole.  Nothing is locked and  *)
(* no row has a version.                                                   *)
(***************************************************************************)
EXTENDS Naturals, Sequences, FiniteSets, SequencesExt

CONSTANTS
    Visits,         \* requests
    QuestionCount,  \* how many the intention asks
    Replies,        \* what a user may answer
    NoReply         \* the answer to a question that has none

ASSUME GuidedAssumption == QuestionCount \in Nat \ {0} /\ NoReply \notin Replies

VARIABLES
    session,        \* the row: status, current_index, answers and the objects
                    \* the last answer lists (materialized_objects)
    created,        \* the objects in the database: [by, from], from the answers
    visit,          \* what each request holds: the row it read
    said,           \* answers users gave, by question
    reuses,         \* learning_reuses rows
    reuseCount,     \* learning.reuse_count
    mingled         \* two requests have been at work at the same time

guidedVars == <<session, created, visit, said, reuses, reuseCount, mingled>>

NewSession == [status |-> "active", index |-> 0, answers |-> <<>>, listed |-> {}]

NoVisit == [at |-> "idle", row |-> NewSession, question |-> 1, reply |-> NoReply, count |-> 0]

GuidedInit ==
    /\ session = NewSession
    /\ created = {}
    /\ visit = [v \in Visits |-> NoVisit]
    /\ said = {}
    /\ reuses = {}
    /\ reuseCount = 0
    /\ mingled = FALSE

Underway == { v \in Visits : visit[v].at \notin {"idle", "done"} }

VisitStep(v, from, next) ==
    /\ visit[v].at = from
    /\ visit' = [visit EXCEPT ![v] = next]
    /\ mingled' = (mingled \/ Underway \ {v} # {})

Leave(v, from) == VisitStep(v, from, [NoVisit EXCEPT !.at = "done"])

\* The row is read, and the request goes on where the row allows it.
Enter(v, to, because, q, a) ==
    /\ because
    /\ VisitStep(v, "idle", [at |-> to, row |-> session, question |-> q, reply |-> a, count |-> 0])
    /\ UNCHANGED <<session, created, said, reuses, reuseCount>>

-----------------------------------------------------------------------------

\* answer_guided_session: the question must be the one that is due.
BeginAnswer(v, q, a) ==
    Enter(v, "answering", session.status = "active" /\ session.index < QuestionCount
                              /\ q = session.index + 1, q, a)

IndexAfter(row) == row.index + 1

\* status is assigned, and so written, only with the last answer.
SaveAnswer(v) ==
    LET row  == visit[v].row
    IN  /\ Leave(v, "answering")
        /\ session' = [status  |-> IF IndexAfter(row) >= QuestionCount
                                  THEN "awaiting_confirmation" ELSE session.status,
                       index   |-> IndexAfter(row),
                       answers |-> Append(row.answers, visit[v].reply),
                       listed  |-> row.listed]
        /\ said' = said \cup {<<visit[v].question, visit[v].reply>>}
        /\ UNCHANGED <<created, reuses, reuseCount>>

Editable == session.status = "awaiting_confirmation"

\* update_guided_answer, of a question that has an answer.
BeginRewrite(v, q, a) ==
    Enter(v, "editing", Editable /\ q \in DOMAIN session.answers, q, a)

SaveEdit(v) ==
    LET row == visit[v].row
    IN  /\ Leave(v, "editing")
        /\ session' = [status  |-> session.status, index |-> session.index,
                       answers |-> [row.answers EXCEPT ![visit[v].question] = visit[v].reply],
                       listed  |-> row.listed]
        /\ said' = said \cup {<<visit[v].question, visit[v].reply>>}
        /\ UNCHANGED <<created, reuses, reuseCount>>

\* confirm_guided_session; a completed session is answered as it is.
BeginConfirm(v) ==
    Enter(v, "confirming", session.status = "awaiting_confirmation", 1, NoReply)

\* _materialize_guided_session makes nothing if the answers list objects.
FreshVisit(v) == IF visit[v].row.listed # {} THEN {} ELSE {[by |-> v, from |-> visit[v].row.answers]}

\* Mutant: a question without an answer is left blank.
GivenOrBlank(row) == TRUE

\* by_id[...] of a question without an answer is a KeyError.
Given(row) == Len(row.answers) >= QuestionCount

SaveConfirm(v) ==
    LET row == visit[v].row
    IN  /\ row.listed = {} => Given(row)
        /\ Leave(v, "confirming")
        /\ created' = created \cup FreshVisit(v)
        /\ session' = [status  |-> "completed", index |-> session.index, answers |-> row.answers,
                       listed  |-> IF row.listed # {} THEN row.listed ELSE FreshVisit(v)]
        /\ UNCHANGED <<said, reuses, reuseCount>>

-----------------------------------------------------------------------------

\* reuse reads the learning, and writes back the count it read plus one.
BeginReuse(v) ==
    /\ VisitStep(v, "idle", [at |-> "reusing", row |-> NewSession, question |-> 1,
                             reply |-> NoReply, count |-> reuseCount])
    /\ UNCHANGED <<session, created, said, reuses, reuseCount>>

Counted(v) == visit[v].count + 1

SaveReuse(v) ==
    /\ Leave(v, "reusing")
    /\ reuses' = reuses \cup {v}
    /\ reuseCount' = Counted(v)
    /\ UNCHANGED <<session, created, said>>

\* The server or the database fails: what the request did is rolled back.
FailInSession(v) ==
    /\ v \in Underway
    /\ Leave(v, visit[v].at)
    /\ UNCHANGED <<session, created, said, reuses, reuseCount>>

GuidedNext ==
    \E v \in Visits :
        \/ \E q \in 1 .. QuestionCount, a \in Replies : BeginAnswer(v, q, a) \/ BeginRewrite(v, q, a)
        \/ SaveAnswer(v)
        \/ SaveEdit(v)
        \/ BeginConfirm(v)
        \/ SaveConfirm(v)
        \/ BeginReuse(v)
        \/ SaveReuse(v)
        \/ FailInSession(v)

GuidedSpec == GuidedInit /\ [][GuidedNext]_guidedVars

------------------------------------------------------------------------------
(***************************************************************************)
(* What a guided session promises of the objects it makes.                 *)
(***************************************************************************)

GuidedObject == [by : Visits, from : BoundedSeq(Replies, QuestionCount)]

SessionRow ==
    [status : {"active", "awaiting_confirmation", "completed"}, index : 0 .. QuestionCount,
     answers : BoundedSeq(Replies, QuestionCount), listed : SUBSET GuidedObject]

(***************************************************************************)
(* Every variable has its type: whatever requests overlap, the index never *)
(* passes the last question and no answer is one too many.                 *)
(***************************************************************************)
GuidedTypes ==
    /\ session \in SessionRow
    /\ created \subseteq GuidedObject
    /\ \A v \in Visits :
        /\ visit[v].at \in {"idle", "answering", "editing", "confirming", "reusing", "done"}
        /\ visit[v].row \in SessionRow
        /\ visit[v].question \in 1 .. QuestionCount
        /\ visit[v].reply \in Replies \cup {NoReply}
        /\ visit[v].count \in 0 .. Cardinality(Visits)
    /\ said \subseteq (1 .. QuestionCount) \X Replies
    /\ reuses \subseteq Visits
    /\ reuseCount \in 0 .. Cardinality(Visits)
    /\ mingled \in BOOLEAN

(***************************************************************************)
(* "Deterministic, after the last answer": even where overlapping requests *)
(* lose answers or confirm twice, no object is made from answers that are  *)
(* incomplete, or that nobody gave to that question.                       *)
(***************************************************************************)
MadeFromWhatWasSaid ==
    \A o \in created :
        /\ Len(o.from) = QuestionCount
        /\ \A q \in 1 .. QuestionCount : <<q, o.from[q]>> \in said

(***************************************************************************)
(* Requests that do not overlap, some of them failing: the answers are     *)
(* those to the questions so far; there are objects exactly when the       *)
(* session is completed, made once, from the answers it still shows; and a *)
(* learning counts its reuses.                                             *)
(***************************************************************************)
LoneSessionIsFaithful ==
    ~ mingled =>
        /\ Len(session.answers) = session.index
        /\ session.status = "active" <=> session.index < QuestionCount
        /\ session.listed = created
        /\ created # {} <=> session.status = "completed"
        /\ Cardinality(created) <= 1
        /\ \A o \in created : o.from = session.answers
        /\ reuseCount = Cardinality(reuses)

(***************************************************************************)
(* LRN_NOT_REUSED of the reasoning audit is a true statement: overlapping  *)
(* reuses may lose counts, but the count is zero only if there is none,    *)
(* and never more than there are.                                          *)
(***************************************************************************)
ReuseIsNotForgotten ==
    /\ reuseCount = 0 <=> reuses = {}
    /\ reuseCount <= Cardinality(reuses)

\* What a session leaves is what was said in it, whole where requests took
\* turns, and a learning that was reused is not reported as forgotten.
SessionsAreFaithful == MadeFromWhatWasSaid /\ LoneSessionIsFaithful /\ ReuseIsNotForgotten
==============================================================================
