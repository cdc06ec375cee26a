--------------------------- MODULE ProposalReviews ---------------------------
(***************************************************************************)
(* What people rule on the proposals of a dialogue's answers               *)
(* (dialogue_service.review_dialogue_proposal), and what of it the next    *)
(* prompt is told.                                                         *)
(*                                                                         *)
(* A review looks the proposal's row up without a lock and writes it in a  *)
(* later statement: an insertion when there was none, else an update of    *)
(* the columns that differ from what was loaded, which is how the          *)
(* object-relational mapper writes.  Statements of requests interleave.    *)
(***************************************************************************)
EXTENDS Naturals, Sequences, FiniteSets

CONSTANTS
    Proposals,   \* the proposals of the session's turns
    Reviewers,   \* owners, administrators and reviewers
    Comments,    \* what they may write; a comment is its length
    Calls,       \* review requests under way at once
    ReviewItems, \* review_items: most rulings a prompt is told
    ReviewRoom   \* review_bytes

ASSUME ReviewsAssumption ==
    /\ Comments \subseteq Nat \ {0}
    /\ ReviewItems \in Nat /\ ReviewRoom \in Nat

VARIABLES
    offered,   \* proposals of the turns stored so far
    ruling,    \* of a proposal: its row
    ages,      \* proposals with a row, by updated_at, the oldest first
    opinion,   \* of a request: see NoOpinion
    logged,    \* of a proposal: its last audit event, with the comment sent
    mixed      \* proposals last written over a row unlike the one seen (history)

reviewsVars == <<offered, ruling, ages, opinion, logged, mixed>>

Decisions == {"accepted_as_draft", "rejected"}  \* "deferred" likewise
Rulings == [decision : Decisions, comment : Comments, by : Reviewers]

NoRuling == [decision |-> "none", comment |-> 0, by |-> "nobody"]
NoOpinion == [of |-> "none", says |-> NoRuling, seen |-> NoRuling]

ReviewsInit ==
    /\ offered = {}
    /\ ruling = [p \in Proposals |-> NoRuling]
    /\ ages = <<>>
    /\ opinion = [c \in Calls |-> NoOpinion]
    /\ logged = [p \in Proposals |-> NoRuling]
    /\ mixed = {}

\* A turn is answered and stored with its proposals.
Offer(p) ==
    /\ p \notin offered
    /\ offered' = offered \cup {p}
    /\ UNCHANGED <<ruling, ages, opinion, logged, mixed>>

\* _find_proposal and the query for the row: 404 unless the turn offers it.
LookUp(c, p, said) ==
    /\ opinion[c] = NoOpinion
    /\ p \in offered
    /\ opinion' = [opinion EXCEPT ![c] =
                     [of |-> p, says |-> said, seen |-> ruling[p]]]
    /\ UNCHANGED <<offered, ruling, ages, logged, mixed>>

\* Mutant: the reviewer's name is written with the first review only.
WrittenUnsigned(row, seen, says) ==
    [col \in DOMAIN row |->
        IF col # "by" /\ says[col] # seen[col] THEN says[col] ELSE row[col]]

\* The columns that differ from those loaded.
Overwritten(row, seen, says) ==
    [col \in DOMAIN row |-> IF says[col] # seen[col] THEN says[col] ELSE row[col]]

\* The rulings on other proposals, by age.
OtherRulings(p) ==
    IF \E i \in DOMAIN ages : ages[i] = p
    THEN LET place == CHOOSE i \in DOMAIN ages : ages[i] = p
         IN  SubSeq(ages, 1, place - 1) \o SubSeq(ages, place + 1, Len(ages))
    ELSE ages

Wrote(c, row) ==
    LET p == opinion[c].of
    IN  /\ ruling' = [ruling EXCEPT ![p] = row]
        /\ ages' = Append(OtherRulings(p), p)
        /\ logged' = [logged EXCEPT ![p] = opinion[c].says]
        /\ mixed' = IF opinion[c].seen = ruling[p] THEN mixed \ {p}
                    ELSE mixed \cup {p}
        /\ opinion' = [opinion EXCEPT ![c] = NoOpinion]
        /\ UNCHANGED offered

\* The first review of a proposal.
Insert(c) ==
    /\ opinion[c] # NoOpinion /\ opinion[c].seen = NoRuling
    /\ ruling[opinion[c].of] = NoRuling
    /\ Wrote(c, opinion[c].says)

\* uq_mi_proposal_review_turn_proposal: the request fails.
Collide(c) ==
    /\ opinion[c] # NoOpinion /\ opinion[c].seen = NoRuling
    /\ ruling[opinion[c].of] # NoRuling
    /\ opinion' = [opinion EXCEPT ![c] = NoOpinion]
    /\ UNCHANGED <<offered, ruling, ages, logged, mixed>>

Update(c) ==
    /\ opinion[c] # NoOpinion /\ opinion[c].seen # NoRuling
    /\ Wrote(c, Overwritten(ruling[opinion[c].of], opinion[c].seen, opinion[c].says))

\* The worker stops before the commit.
Abandon(c) ==
    /\ opinion[c] # NoOpinion
    /\ opinion' = [opinion EXCEPT ![c] = NoOpinion]
    /\ UNCHANGED <<offered, ruling, ages, logged, mixed>>

-----------------------------------------------------------------------------
\* What a prompt is told

\* The n most recently updated, in order, and the room they take.
Newest(n) == SubSeq(ages, Len(ages) - n + 1, Len(ages))

Room[n \in 0 .. Len(ages)] ==
    IF n = 0 THEN 0
    ELSE Room[n - 1] + ruling[ages[Len(ages) - n + 1]].comment

ToldOf(n) == Newest(n)

\* _reviews_for_prompt: from the newest back, until one does not fit.
HowMany ==
    CHOOSE n \in 0 .. Len(ages) :
        /\ n <= ReviewItems /\ Room[n] <= ReviewRoom
        /\ n < ReviewItems /\ n < Len(ages) => Room[n + 1] > ReviewRoom

\* The proposals whose rulings a prompt prepared now would be told.
Told == ToldOf(HowMany)

-----------------------------------------------------------------------------
ReviewCalls ==
    \E c \in Calls :
        \/ \E p \in Proposals, said \in Rulings : LookUp(c, p, said)
        \/ Insert(c) \/ Collide(c) \/ Update(c) \/ Abandon(c)

ReviewsNext ==
    \/ \E p \in Proposals : Offer(p)
    \/ ReviewCalls

ReviewsSpec == ReviewsInit /\ [][ReviewsNext]_reviewsVars

------------------------------------------------------------------------------
\* What people may rely on when they rule on a proposal.

\* Rows exist for offered proposals only, and each has one place by age.
ReviewsTypes ==
    /\ offered \subseteq Proposals
    /\ \A p \in Proposals : ruling[p] \in Rulings \cup {NoRuling}
    /\ {ages[i] : i \in DOMAIN ages}
         = {p \in Proposals : ruling[p] # NoRuling}
    /\ Cardinality({ages[i] : i \in DOMAIN ages}) = Len(ages)
    /\ {p \in Proposals : ruling[p] # NoRuling} \subseteq offered

\* A ruling is one person's: unless its last writer wrote over a row other than
\* the one they had seen, the row is the decision, the comment and the name of
\* one reviewer, and the last audit event names that reviewer and that
\* decision.  (Two re-reviews that overlap can leave the decision of one under
\* the name of the other: review_dialogue_proposal takes no lock.)
RulingsHaveOneAuthor ==
    \A p \in Proposals \ mixed : ruling[p] = logged[p]

\* A prompt is told the last ruling made in the session, if it fits at all, and
\* no ruling older than one it is not told.
LatestRulingsAreTold ==
    ages # <<>> /\ ReviewItems > 0 =>
        LET last == ages[Len(ages)]
            among == {Told[i] : i \in DOMAIN Told}
        IN  /\ ruling[last].comment <= ReviewRoom => last \in among
            /\ \A i, j \in DOMAIN ages :
                  ages[i] \in among /\ j > i => ages[j] \in among

\* A ruling is its author's, and the conversation hears of the last one made.
RulingsAreHeard == RulingsHaveOneAuthor /\ LatestRulingsAreTold
==============================================================================
