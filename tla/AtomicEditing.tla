---------------------------- MODULE AtomicEditing ----------------------------
(***************************************************************************)
(* What the missions promise their authors: every edit happens at once, on *)
(* the document as it is, makes the next revision, and touches one field   *)
(* and possibly the place in the tree.                                     *)
(***************************************************************************)
EXTENDS Naturals

CONSTANTS Missions, Links, Fields, Values, Absent

VARIABLES revision, document

vars == <<revision, document>>

Init ==
    /\ revision \in [Missions -> {0, 1}]
    /\ document \in [Missions -> [text : [Fields -> Values], parent : Links]]
    /\ \A m \in Missions : revision[m] = 0 => document[m] = Absent

Edit(m, f, v, p) ==
    /\ revision' = [revision EXCEPT ![m] = @ + 1]
    /\ document' = [document EXCEPT
            ![m] = [text |-> [document[m].text EXCEPT ![f] = v], parent |-> p]]

Next ==
    \E m \in Missions, f \in Fields, v \in Values, p \in Links : Edit(m, f, v, p)

Spec == Init /\ [][Next]_vars
==============================================================================
