--------------------- MODULE MissionPortfolioProperties ----------------------
(***************************************************************************)
(* What the mission rows, their history and their tree promise under       *)
(* concurrent handlers.                                                    *)
(***************************************************************************)
EXTENDS MissionPortfolio

Context ==
    [mission : Link, expected : Nat, revision : Nat, document : Document,
     moves : BOOLEAN, next : Link, depth : 0 .. MaxDepth - 1,
     seen : SUBSET Missions]

\* Every variable has its type; a walk up the tree never passes the depth limit.
TypeOK ==
    /\ mission \in [Missions -> Row]
    /\ history \subseteq [mission : Missions, revision : Nat, document : Document]
    /\ pc \in [Handlers -> Stage]
    /\ ctx \in [Handlers -> Context]

(***************************************************************************)
(* The history of a mission is complete: one document for every revision   *)
(* from the first to the present one, none beyond, and the last is the     *)
(* document of the row, which also names the parent the row has.           *)
(***************************************************************************)
HistoryMatchesMissions ==
    /\ \A e \in history :
        /\ e.revision \in 1 .. mission[e.mission].revision
        /\ e.revision = mission[e.mission].revision =>
                e.document = mission[e.mission].document
        /\ \A g \in history :
                g.mission = e.mission /\ g.revision = e.revision => g = e
    /\ \A m \in Missions :
        /\ \A n \in 1 .. mission[m].revision :
            \E e \in history : e.mission = m /\ e.revision = n
        /\ mission[m].parent = mission[m].document.parent

(***************************************************************************)
(* Optimistic concurrency (expected_revision): what a user's edit replaces *)
(* is the revision that user was shown, however long the form was open and *)
(* whoever else edited, learned or analysed in between.                    *)
(***************************************************************************)
EditsReplaceWhatWasSeen ==
    [][\A h \in Handlers :
        pc[h] = "writing" /\ pc'[h] = "done" /\ ctx[h].expected > 0 =>
            mission[ctx[h].mission].revision = ctx[h].expected]_vars

(***************************************************************************)
(* No edit is lost: reading a document and writing it back some queries    *)
(* later has the effect of editing it at once, on what it is by then.      *)
(***************************************************************************)
Editing == INSTANCE AtomicEditing WITH
    Links <- Link,
    Absent <- BlankDocument,
    revision <- [m \in Missions |-> mission[m].revision],
    document <- [m \in Missions |-> mission[m].document]

EditingSpec == Editing!Spec

(***************************************************************************)
(* _validated_parent is right on a tree that keeps still: from any sound   *)
(* tree, one create or update that places a mission leaves a sound one,    *)
(* whatever other handlers write that do not place missions.               *)
(***************************************************************************)
Placers == { h \in Handlers : pc[h] = "done" /\ ctx[h].moves }

LonePlacementKeepsTree == Cardinality(Placers) <= 1 => TreeIsSound

\* docs/MISSION-PORTFOLIOS-V3.md 52 and 53: cycles are rejected, and the tree
\* is at most six levels deep.
TreeStaysSound == TreeIsSound
==============================================================================
