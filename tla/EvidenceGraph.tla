--------------------------- MODULE EvidenceGraph ---------------------------
(***************************************************************************)
(* The pilot's evidence: a question is answered from excerpts of the       *)
(* mission's files, the answer is recorded with the files it was given,    *)
(* and a synchronisation makes claims and evidence of what was recorded,   *)
(* which people then curate.                                               *)
(*                                                                         *)
(* Handlers of the graph begin with CREATE INDEX IF NOT EXISTS on both of  *)
(* its tables, whose SHARE locks let one of those that overlap write; the  *)
(* others wait or are undone, and are one step here.  A synchronisation is *)
(* not: it looks up each file while files are being deleted.               *)
(***************************************************************************)
EXTENDS Naturals, FiniteSets

CONSTANTS
    Documents,      \* attachments of the mission whose text was extracted
    Questions,
    Entries,        \* nodes people write
    Rulings,        \* the statuses a curator may give
    RetrievalLimit, \* excerpts a question is given
    MaxCurated      \* edges people draw

ASSUME EvidenceAssumption ==
    RetrievalLimit \in Nat \ {0} /\ MaxCurated \in Nat

VARIABLES
    kept,       \* documents that are stored
    vectors,    \* documents whose embedding is cached
    question,   \* of a question: [at, given]
    nodes,      \* of the nodes that exist: [status, full]
    joins,      \* edges: [from, to, type]
    syncing,    \* the synchronisation under way: [at, scanned, looked, present]
    synced,     \* questions a synchronisation has covered (history)
    ruled       \* of the nodes people have ruled on: their ruling (history)

evidenceVars == <<kept, vectors, question, nodes, joins, syncing, synced, ruled>>

Claim(q) == <<"ai_interaction", q>>
Chunk(d) == <<"document_chunk", d>>
Entry(e) == <<"human_entry", e>>

Informs(d, q) == [from |-> Chunk(d), to |-> Claim(q), type |-> "informs"]

\* What a person says of a node replaces what was there.
WrittenOver(f, new) == [n \in DOMAIN f \cup DOMAIN new |->
                            IF n \in DOMAIN new THEN new[n] ELSE f[n]]

\* _upsert_node: a node that exists is left as it is.
Upserted(f, new) == [n \in DOMAIN f \cup DOMAIN new |->
                            IF n \in DOMAIN f THEN f[n] ELSE new[n]]

NoSync == [at |-> "idle", scanned |-> {}, looked |-> {}, present |-> {}]

EvidenceInit ==
    /\ kept = Documents
    /\ vectors = {}
    /\ question = [q \in Questions |-> [at |-> "new", given |-> {}]]
    /\ nodes = [n \in {} |-> {}] /\ joins = {}
    /\ syncing = NoSync
    /\ synced = {} /\ ruled = [n \in {} |-> {}]

(***************************************************************************)
(* hybrid_retrieve: the best excerpts by both rankings.  The embeddings    *)
(* that were missing are committed if every call for them succeeds; if one *)
(* fails, all are rolled back and the words alone decide.                  *)
(***************************************************************************)
Ask(q, given, semantic) ==
    /\ question[q].at = "new"
    /\ given \subseteq kept /\ Cardinality(given) <= RetrievalLimit
    /\ kept # {} => given # {}
    /\ question' = [question EXCEPT ![q] = [at |-> "asked", given |-> given]]
    /\ vectors' = IF semantic THEN vectors \cup kept ELSE vectors
    /\ UNCHANGED <<kept, nodes, joins, syncing, synced, ruled>>

\* The answer was paid for and is recorded, or nothing is.
Record(q) ==
    /\ question[q].at = "asked"
    /\ question' = [question EXCEPT ![q].at = "recorded"]
    /\ UNCHANGED <<kept, vectors, nodes, joins, syncing, synced, ruled>>

FailQuestion(q) ==
    /\ question[q].at = "asked"
    /\ question' = [question EXCEPT ![q] = [at |-> "new", given |-> {}]]
    /\ UNCHANGED <<kept, vectors, nodes, joins, syncing, synced, ruled>>

\* delete_attachment asks the dialogue's turns, not the pilot's questions; the
\* cached embedding stays.
DeleteDocument(d) ==
    /\ d \in kept
    /\ kept' = kept \ {d}
    /\ UNCHANGED <<vectors, question, nodes, joins, syncing, synced, ruled>>

Recorded == { q \in Questions : question[q].at = "recorded" }

BeginSync ==
    /\ syncing = NoSync
    /\ syncing' = [NoSync EXCEPT !.at = "looking", !.scanned = Recorded]
    /\ UNCHANGED <<kept, vectors, question, nodes, joins, synced, ruled>>

\* Mutant: a source whose file is gone is left out.
CitedAndKept(scanned) == UNION { question[q].given : q \in scanned } \cap kept

\* The documents the interactions name, whether or not they are kept.
Cited(scanned) == UNION { question[q].given : q \in scanned }

\* A document is looked up, once for the whole synchronisation.
LookUpDocument(d) ==
    /\ syncing.at = "looking"
    /\ d \in Cited(syncing.scanned) \ syncing.looked
    /\ syncing' = [syncing EXCEPT !.looked = @ \cup {d},
                       !.present = IF d \in kept THEN @ \cup {d} ELSE @]
    /\ UNCHANGED <<kept, vectors, question, nodes, joins, synced, ruled>>

\* Evidence of a document that was there has its text and counts as verified.
Made(s) ==
    [n \in { Claim(q) : q \in s.scanned } \cup { Chunk(d) : d \in s.looked } |->
        IF \E d \in s.present : n = Chunk(d) THEN [status |-> "verified", full |-> TRUE]
        ELSE [status |-> "proposed", full |-> n \in { Claim(q) : q \in s.scanned }]]

CommitSync ==
    /\ syncing.at = "looking"
    /\ Cited(syncing.scanned) \subseteq syncing.looked
    /\ nodes' = Upserted(nodes, Made(syncing))
    /\ joins' = joins \cup UNION { { Informs(d, q) : d \in question[q].given \cap syncing.looked }
                                   : q \in syncing.scanned }
    /\ synced' = synced \cup syncing.scanned
    /\ syncing' = NoSync
    /\ UNCHANGED <<kept, vectors, question, ruled>>

AbortSync ==
    /\ syncing # NoSync
    /\ syncing' = NoSync
    /\ UNCHANGED <<kept, vectors, question, nodes, joins, synced, ruled>>

\* create_graph_node.
CreateNode(e, status) ==
    /\ syncing = NoSync
    /\ Entry(e) \notin DOMAIN nodes
    /\ nodes' = Upserted(nodes, [n \in {Entry(e)} |-> [status |-> status, full |-> TRUE]])
    /\ ruled' = WrittenOver(ruled, [n \in {Entry(e)} |-> status])
    /\ UNCHANGED <<kept, vectors, question, joins, syncing, synced>>

\* update_graph_node.
UpdateNode(n, status) ==
    /\ syncing = NoSync
    /\ nodes' = [nodes EXCEPT ![n].status = status]
    /\ ruled' = WrittenOver(ruled, [m \in {n} |-> status])
    /\ UNCHANGED <<kept, vectors, question, joins, syncing, synced>>

\* create_graph_edge: both nodes exist and differ.
CreateEdge(m, n, type) ==
    /\ syncing = NoSync
    /\ m # n
    /\ Cardinality({ j \in joins : j.type # "informs" }) < MaxCurated
    /\ joins' = joins \cup {[from |-> m, to |-> n, type |-> type]}
    /\ UNCHANGED <<kept, vectors, question, nodes, syncing, synced, ruled>>

EvidenceNext ==
    \/ \E q \in Questions :
        \/ \E given \in SUBSET kept, semantic \in BOOLEAN : Ask(q, given, semantic)
        \/ Record(q)
        \/ FailQuestion(q)
    \/ \E d \in Documents : DeleteDocument(d) \/ LookUpDocument(d)
    \/ BeginSync \/ CommitSync \/ AbortSync
    \/ \E status \in Rulings :
        \/ \E e \in Entries : CreateNode(e, status)
        \/ \E n \in DOMAIN nodes : UpdateNode(n, status)
    \/ \E m, n \in DOMAIN nodes : CreateEdge(m, n, "supports")

EvidenceSpec == EvidenceInit /\ [][EvidenceNext]_evidenceVars

------------------------------------------------------------------------------
(***************************************************************************)
(* What the graph keeps of answers, documents and judgements.              *)
(***************************************************************************)

\* Edges join nodes that exist, and documents that are not stored have made
\* no evidence that was never retrieved.
EvidenceTypes ==
    /\ \A j \in joins : {j.from, j.to} \subseteq DOMAIN nodes
    /\ \A d \in Documents : Chunk(d) \in DOMAIN nodes => d \in Cited(Recorded)

\* Once synchronised, an answer keeps all its evidence: a claim, a node of
\* every document it was given and the edge between them.
EvidenceOutlivesDocuments ==
    \A q \in synced :
        /\ Claim(q) \in DOMAIN nodes
        /\ \A d \in question[q].given :
            /\ Chunk(d) \in DOMAIN nodes
            /\ Informs(d, q) \in joins

\* What a person has ruled of a node is its status.
RulingsStand == \A n \in DOMAIN ruled : nodes[n].status = ruled[n]

(***************************************************************************)
(* A synchronised answer keeps its evidence, whether its documents were    *)
(* deleted before, during or after the synchronisation; and, as support    *)
(* and contradiction require "explicit graph curation" (evidence_graph.py  *)
(* 424), a person's ruling stands until a person rules otherwise, however  *)
(* often the graph is synchronised.                                        *)
(***************************************************************************)
EvidenceIsKept == EvidenceOutlivesDocuments /\ RulingsStand
==============================================================================
