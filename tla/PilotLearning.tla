---------------------------- MODULE PilotLearning ----------------------------
(***************************************************************************)
(* How a learning reaches the next mission in the pilot: a decision cycle  *)
(* is completed and materialised as nodes of the evidence graph, a human   *)
(* accepts the learning's node, it is published as a packet, and each      *)
(* target mission reviews the packet before it inherits it.                *)
(*                                                                         *)
(* Every handler begins with CREATE INDEX IF NOT EXISTS on the tables it   *)
(* uses, which holds a SHARE lock on them to the end of the transaction:   *)
(* whoever writes one of these tables waits for every other handler that   *)
(* has begun with it (two that both want to write wait for each other, and *)
(* the database stops one).  So a handler on one set of tables is one step *)
(* here.  Publishing is not: it reads the graph, which it does not lock,   *)
(* in three queries, and writes the packet afterwards.                     *)
(*                                                                         *)
(* A learning is told by two nodes of the graph, its own and that of the   *)
(* outcome it was learned from, and by the edge that joins them.  Every    *)
(* edit of a node makes another edition; edges are never taken away.       *)
(***************************************************************************)
EXTENDS Naturals, Sequences, FiniteSets

CONSTANTS
    Learnings,      \* learnings there may be, from a decision cycle or typed in
    Targets,        \* missions that may inherit
    Publishers,     \* requests to publish
    Statuses,       \* of a node: proposed, verified, accepted, rejected, superseded
    MaxEditions     \* of a learning

ASSUME LearningAssumption ==
    /\ "proposed" \in Statuses
    /\ MaxEditions \in Nat \ {0}

VARIABLES
    cycle,          \* pilot_decision_cycles: [done, observed, learned]
    editions,       \* of a learning, the newest last: the status of its node, the
                    \* edition that worded it, and the body of the outcome's node
    linked,         \* learnings an edge joins to their outcome
    packet,         \* the packet: what it shows of which edition, 0 for none; of the
                    \* outcome's node only if an edge leads to it
    review,         \* disposition of a packet for a target, "none" at first
    seenText,       \* the wording a disposition was given of
    publish         \* what each publisher holds

learningVars == <<cycle, editions, linked, packet, review, seenText, publish>>

Reviewed == {"verified", "accepted"} \cap Statuses

Dispositions == {"still_valid", "requires_revalidation", "invalidated"}

\* Of the outcome's node, which may not be there.
Bodies == {"none", "blank", "filled"}

NodeExists(l) == editions[l] # << >>

\* The nodes as they are.
Standing(l) == editions[l][Len(editions[l])]

NoPacket == [edition |-> 0, text |-> 0, outcome |-> "none"]

NoPublish == [at |-> "idle", shows |-> NoPacket]

LearningInit ==
    /\ cycle = [l \in Learnings |-> [done |-> FALSE, observed |-> FALSE, learned |-> FALSE]]
    /\ editions = [l \in Learnings |-> << >>]
    /\ linked = {}
    /\ packet = [l \in Learnings |-> NoPacket]
    /\ review = [t \in Targets |-> [l \in Learnings |-> "none"]]
    /\ seenText = [t \in Targets |-> [l \in Learnings |-> 0]]
    /\ publish = [p \in Publishers |-> [l \in Learnings |-> NoPublish]]

-----------------------------------------------------------------------------
\* The decision cycle and the graph

\* update_cycle writes the fields it is given, in any state.
UpdateCycle(l, done, observed, learned) ==
    /\ cycle' = [cycle EXCEPT ![l] = [done |-> done, observed |-> observed, learned |-> learned]]
    /\ UNCHANGED <<editions, linked, packet, review, seenText, publish>>

Complete(l) == cycle[l].done /\ cycle[l].observed /\ cycle[l].learned

NewEdition(l, nodes) ==
    /\ editions' = [editions EXCEPT ![l] = Append(@, nodes)]
    /\ UNCHANGED <<cycle, packet, review, seenText, publish>>

\* materialize_learning; _upsert_node leaves a node that is there as it is.
Materialize(l) ==
    /\ Complete(l) /\ ~NodeExists(l)
    /\ NewEdition(l, [status |-> "proposed", text |-> 1, outcome |-> "filled"])
    /\ linked' = linked \cup {l}

\* create_graph_node: a human types a learning in, in whatever status.
TypeIn(l, status) ==
    /\ ~NodeExists(l)
    /\ NewEdition(l, [status |-> status, text |-> 1, outcome |-> "none"])
    /\ UNCHANGED linked

Editable(l) == NodeExists(l) /\ Len(editions[l]) < MaxEditions

\* update_graph_node: a status, a wording or both, in any state.
Curate(l, status, reworded) ==
    /\ Editable(l)
    /\ NewEdition(l, [Standing(l) EXCEPT
                        !.status = status,
                        !.text = IF reworded THEN Len(editions[l]) + 1 ELSE @])
    /\ UNCHANGED linked

\* create_graph_node or update_graph_node for the outcome; neither asks for a body.
EditOutcome(l, body) ==
    /\ Editable(l)
    /\ NewEdition(l, [Standing(l) EXCEPT !.outcome = body])
    /\ UNCHANGED linked

\* create_graph_edge, between nodes that are there.
Join(l) ==
    /\ NodeExists(l) /\ Standing(l).outcome # "none"
    /\ l \notin linked
    /\ linked' = linked \cup {l}
    /\ UNCHANGED <<cycle, editions, packet, review, seenText, publish>>

-----------------------------------------------------------------------------
\* Publishing

Publishing == { p \in Publishers : \E l \in Learnings : publish[p][l].at # "idle" }

Publishable(l) == NodeExists(l) /\ Standing(l).status \in Reviewed

PublisherGoes(p, l, at, shows) ==
    /\ publish' = [publish EXCEPT ![p][l] = [at |-> at, shows |-> shows]]
    /\ UNCHANGED <<cycle, editions, linked, review, seenText>>

\* _graph_snapshot, first query: the learning must have been reviewed.
BeginPublish(p, l) ==
    /\ p \notin Publishing
    /\ Publishable(l)
    /\ PublisherGoes(p, l, "checked", NoPacket)
    /\ UNCHANGED packet

\* Its second query: all nodes, whatever they are by now.
ReadNodes(p, l) ==
    /\ publish[p][l].at = "checked"
    /\ PublisherGoes(p, l, "nodes", [edition |-> Len(editions[l]), text |-> Standing(l).text,
                                     outcome |-> Standing(l).outcome])
    /\ UNCHANGED packet

\* Its third: the edges.  A node that none leads to is left out, and so is an
\* edge to a node it has not read.
ReadEdges(p, l) ==
    /\ publish[p][l].at = "nodes"
    /\ PublisherGoes(p, l, "edges", [publish[p][l].shows EXCEPT
                                        !.outcome = IF l \in linked THEN @ ELSE "none"])
    /\ UNCHANGED packet

\* Mutant: no handler holds the tables.
AloneAlways(p) == TRUE

\* Nobody else has begun with the tables of packets and reviews.
Alone(p) == Publishing \subseteq {p}

\* The packet is written, or written anew under the same id, its reviews kept.
WritePacket(p, l) ==
    /\ publish[p][l].at = "edges"
    /\ Alone(p)
    /\ packet' = [packet EXCEPT ![l] = publish[p][l].shows]
    /\ PublisherGoes(p, l, "idle", NoPacket)

\* A deadlock's victim, or any failure before the commit.
GiveUp(p, l) ==
    /\ publish[p][l].at # "idle"
    /\ PublisherGoes(p, l, "idle", NoPacket)
    /\ UNCHANGED packet

-----------------------------------------------------------------------------
\* Inheriting

\* What the reviewer is shown: the packet.
Shown(l) == packet[l].text

\* review_learning_candidate: one row per target and packet.
Review(t, l, d) ==
    /\ Publishing = {}
    /\ packet[l].edition > 0
    /\ review' = [review EXCEPT ![t][l] = d]
    /\ seenText' = [seenText EXCEPT ![t][l] = Shown(l)]
    /\ UNCHANGED <<cycle, editions, linked, packet, publish>>

\* inherited_learning_context: what an analysis of the target is told.
Inherits(t) ==
    { l \in Learnings : packet[l].edition > 0
                        /\ review[t][l] \in {"still_valid", "requires_revalidation"} }

LearningNext ==
    \/ \E l \in Learnings, d, o, w \in BOOLEAN : UpdateCycle(l, d, o, w)
    \/ \E l \in Learnings : Materialize(l) \/ Join(l)
    \/ \E l \in Learnings, s \in Statuses : TypeIn(l, s)
    \/ \E l \in Learnings, s \in Statuses, r \in BOOLEAN : Curate(l, s, r)
    \/ \E l \in Learnings, b \in Bodies \ {"none"} : EditOutcome(l, b)
    \/ \E p \in Publishers, l \in Learnings :
        \/ BeginPublish(p, l) \/ ReadNodes(p, l) \/ ReadEdges(p, l)
        \/ WritePacket(p, l) \/ GiveUp(p, l)
    \/ \E t \in Targets, l \in Learnings, d \in Dispositions : Review(t, l, d)

LearningSpec == LearningInit /\ [][LearningNext]_learningVars

------------------------------------------------------------------------------
(***************************************************************************)
(* What stands between a decision and the missions that learn from it.     *)
(***************************************************************************)

\* Every variable has its type, and no packet is ahead of its nodes.
LearningTypes ==
    /\ cycle \in [Learnings -> [done : BOOLEAN, observed : BOOLEAN, learned : BOOLEAN]]
    /\ linked \subseteq Learnings
    /\ review \in [Targets -> [Learnings -> Dispositions \cup {"none"}]]
    /\ seenText \in [Targets -> [Learnings -> Nat]]
    /\ \A l \in Learnings :
        /\ Len(editions[l]) <= MaxEditions
        /\ \A i \in DOMAIN editions[l] :
            editions[l][i] \in [status : Statuses, text : 1 .. i, outcome : Bodies]
        /\ packet[l].edition <= Len(editions[l])

(***************************************************************************)
(* What a packet shows of its nodes they showed together, in an edition no *)
(* older than one a human had accepted; and it tells of the outcome only   *)
(* when an edge joins the two.                                             *)
(***************************************************************************)
PacketsArePictures ==
    \A l \in Learnings : LET shown == packet[l] IN
        shown.edition > 0 =>
            /\ editions[l][shown.edition].text = shown.text
            /\ \E i \in 1 .. shown.edition : editions[l][i].status \in Reviewed
            /\ shown.outcome # "none" =>
                    l \in linked /\ editions[l][shown.edition].outcome = shown.outcome

(***************************************************************************)
(* A packet never goes back to an earlier edition, nor loses the outcome   *)
(* it has shown: two publications of one learning cannot write in the      *)
(* opposite order to that in which they read.                              *)
(***************************************************************************)
PacketsMoveForward ==
    [][\A l \in Learnings :
        /\ packet'[l].edition >= packet[l].edition
        /\ packet[l].outcome # "none" => packet'[l].outcome # "none"]_learningVars

(***************************************************************************)
(* A mission is told the wording its disposition was given of, or one      *)
(* published since; never one that was replaced before it was reviewed.    *)
(* That a later one is told too is not what inherited_learning_context     *)
(* says of itself: "Return only human-reviewed inheritance that is allowed *)
(* to alter a future mission."                                             *)
(***************************************************************************)
NothingOlderIsTold ==
    \A t \in Targets : \A l \in Inherits(t) : seenText[t][l] <= packet[l].text

\* What is published stood together, was accepted in that edition or before, and
\* is never taken back to what it was, before a review or after.
PacketsAreFaithful == [](PacketsArePictures /\ NothingOlderIsTold) /\ PacketsMoveForward

==============================================================================
