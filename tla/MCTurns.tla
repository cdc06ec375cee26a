------------------------------- MODULE MCTurns -------------------------------
(***************************************************************************)
(* What a turn of a mission's dialogue goes through: the sessions and the  *)
(* turns themselves, the ground a conversation keeps, the files that are   *)
(* indexed for it and those that fit into its window, the review of its    *)
(* answer and the rulings on what it proposed.  The parts share no         *)
(* variable: one of Parts moves while the others rest where they began.    *)
(***************************************************************************)
EXTENDS MissionDialogueProperties, ContextWindow, AnswerReview, MissionArchive,
        ProposalReviews, GroundedTurns, TLC

CONSTANT Parts  \* of those named below
VARIABLE part

MCProfiles ==
    << [chunks |-> 2, clip |-> 3, turns |-> 2, bytes |-> 4],
       [chunks |-> 2, clip |-> 2, turns |-> 2, bytes |-> 3],
       [chunks |-> 1, clip |-> 1, turns |-> 1, bytes |-> 1] >>
\* The rest of a request shrinks with the profile, or its report grows.
MCFrames == {<<6, 4, 2>>, <<4, 2, 9>>}
MCHistories == {<< >>, <<2, 1>>}

\* What may be cut, and what the requests that index it contend for.
MCTexts == UNION { [1 .. n -> Characters] : n \in 0 .. 7 }
MCFewTexts == {<<>>, [i \in 1 .. 9 |-> IF i = 4 THEN "stop" ELSE "letter"]}

MCWeight == [r \in Records |-> IF r = 1 THEN 4 ELSE IF r = 2 THEN 18 ELSE 15]
MCLimits == <<2, 1>>
MCQuestions ==
    [hits : {h \in [Records -> 0 .. 2] : h[1] + h[2] + h[3] <= 2},
     gaps : {{}, {2}, {2, 3}}]

Symmetry == Permutations(Handlers) \cup Permutations(Snapshots)

RestingTurn == CHOOSE t \in Asked : t.selected = {}
RestingAnswer == CHOOSE a \in Flawed : TRUE

\* What has several beginnings rests at one of them, unless it is to move; the
\* cutting is looked at for every text, and nothing moves.
TurnsInit ==
    /\ part \in Parts
    /\ part = "dialogue" \/ mission = CHOOSE s \in Snapshots : TRUE
    /\ part = "dialogue" \/ files = [f \in Attachments |-> "absent"]
    /\ part = "window" \/ turn = RestingTurn
    /\ part = "review" \/ answer = RestingAnswer
    /\ \/ part = "archive"
       \/ part = "cutting" /\ \E t \in MCTexts : text = [s \in ArchiveSources |-> t]
       \/ part \notin {"archive", "cutting"} /\ text = [s \in ArchiveSources |-> <<>>]
    /\ part = "archive" \/ stored = {}
    /\ part = "ground" \/ document = {}
    /\ Init /\ WindowInit /\ ReviewInit
    /\ part = "cutting" \/ text \in [ArchiveSources -> Texts]
    /\ stored \in SUBSET ArchiveSources
    /\ index = [s \in ArchiveSources |-> {}]
    /\ hand = [h \in Indexers |-> Unhanded]
    /\ ReviewsInit /\ GroundInit

TurnsNext ==
    \/ /\ part = "dialogue" /\ Next
       /\ UNCHANGED <<part, windowVars, reviewVars, archiveVars, reviewsVars, groundVars>>
    \/ /\ part = "window" /\ WindowNext
       /\ UNCHANGED <<part, vars, reviewVars, archiveVars, reviewsVars, groundVars>>
    \/ /\ part = "review" /\ ReviewNext
       /\ UNCHANGED <<part, vars, windowVars, archiveVars, reviewsVars, groundVars>>
    \/ /\ part = "archive" /\ ArchiveNext
       /\ UNCHANGED <<part, vars, windowVars, reviewVars, reviewsVars, groundVars>>
    \/ /\ part = "rulings" /\ ReviewsNext
       /\ UNCHANGED <<part, vars, windowVars, reviewVars, archiveVars, groundVars>>
    \/ /\ part = "ground" /\ GroundNext
       /\ UNCHANGED <<part, vars, windowVars, reviewVars, archiveVars, reviewsVars>>

TurnsSpec ==
    TurnsInit /\ [][TurnsNext]_<<part, vars, windowVars, reviewVars, archiveVars,
                                 reviewsVars, groundVars>>

\* Every part has its types.
TurnsTypes ==
    /\ TypeOK /\ WindowTypes /\ ReviewTypes /\ ArchiveTypes /\ ReviewsTypes /\ GroundTypes
==============================================================================
