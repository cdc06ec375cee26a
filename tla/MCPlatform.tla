----------------------------- MODULE MCPlatform ------------------------------
(***************************************************************************)
(* What surrounds the missions of a pilot: access to an account, the       *)
(* invitations to an organisation, the limiter in front of the public      *)
(* routes, the learning that is published and inherited, the evidence      *)
(* graph and the retrieval of a question's passages.  The parts share no   *)
(* variable: one of Parts moves while the others rest where they began.    *)
(***************************************************************************)
EXTENDS AccountAccess, Invitations, RateLimiter, PilotLearning, EvidenceGraph,
        HybridRetrieval, TLC

CONSTANT Parts  \* of those named below
VARIABLE part

\* x and y are whatever a part has two of.
Symmetry == Permutations(Links) \cup Permutations(PilotLinks)

accountVars == <<vars, invitationVars, limiterVars>>
pilotVars == <<learningVars, evidenceVars, retrievalVars>>

\* What has several beginnings rests at one of them, unless it is to move.
PlatformInit ==
    /\ part \in Parts
    /\ part = "access" \/ account = NoAccount
    /\ part = "access" \/ link = [l \in Links \cup PilotLinks |-> "none"]
    /\ part = "invitations" \/ person = FALSE
    /\ Init /\ InvitationsInit /\ LimiterInit
    /\ LearningInit /\ EvidenceInit /\ RetrievalInit

AccountsMove ==
    \/ part = "access" /\ Next /\ UNCHANGED <<invitationVars, limiterVars>>
    \/ part = "invitations" /\ InvitationsNext /\ UNCHANGED <<vars, limiterVars>>
    \/ part = "limiter" /\ LimiterNext /\ UNCHANGED <<vars, invitationVars>>

PilotMoves ==
    \/ part = "learning" /\ LearningNext /\ UNCHANGED <<evidenceVars, retrievalVars>>
    \/ part = "evidence" /\ EvidenceNext /\ UNCHANGED <<learningVars, retrievalVars>>
    \/ part = "retrieval" /\ RetrievalNext /\ UNCHANGED <<learningVars, evidenceVars>>

PlatformNext ==
    /\ UNCHANGED part
    /\ \/ AccountsMove /\ UNCHANGED pilotVars
       \/ PilotMoves /\ UNCHANGED accountVars

PlatformSpec == PlatformInit /\ [][PlatformNext]_<<part, accountVars, pilotVars>>

\* Every part has its types.
PlatformTypes ==
    /\ AccessTypes /\ InvitationTypes /\ LimiterTypes
    /\ LearningTypes /\ EvidenceTypes /\ RetrievalTypes
==============================================================================
