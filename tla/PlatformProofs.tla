--------------------------- MODULE PlatformProofs ---------------------------
(***************************************************************************)
(* For any number of requests, clients, files, learnings and invitations:  *)
(* vectors stand for their texts, evidence and the rulings on it last,     *)
(* packets show what stood together, an invitation is accepted as it       *)
(* stands, a change of password ends every session, and the limiter        *)
(* holds in every stretch of time.  Each component has its inductive       *)
(* invariant here; that all keep their word together is shown last.        *)
(***************************************************************************)
EXTENDS MCPlatform, FiniteSetTheorems, SequenceTheorems, WellFoundedInduction, TLAPS

-----------------------------------------------------------------------------
(***************************************************************************)
(* Retrieval.  Only one retrieval at a time holds rows it has not yet      *)
(* committed, and while it does no other has read the cache for itself:    *)
(* so what a retrieval found in the cache is there when it commits.        *)
(***************************************************************************)

LookupState ==
    [at : {"idle", "opening", "embedding", "inserting", "committing", "answered"},
     texts : {<<>>} \cup [Chunks -> Versions],
     vectors : [Chunks -> Versions \cup {NoVersion}],
     wrote : SUBSET Chunks,
     status : {"none", "disabled", "ready", "fallback_lexical"}]

CacheRow == [hash : Versions \cup {NoVersion}, vector : Versions \cup {NoVersion}]

\* What a retrieval has in hand is cached, or written by itself.
Backed(l) ==
    \A c \in Chunks : lookup[l].vectors[c] # NoVersion =>
        \/ c \in lookup[l].wrote
        \/ cache[c] = [hash |-> lookup[l].texts[c], vector |-> lookup[l].vectors[c]]

LookupStands(l) ==
    /\ lookup[l].at # "idle" => lookup[l].texts \in [Chunks -> Versions]
    /\ \A c \in Chunks : lookup[l].vectors[c] # NoVersion =>
          lookup[l].at # "idle" /\ lookup[l].vectors[c] = lookup[l].texts[c]
    /\ lookup[l].wrote # {} => Holding(l) /\ \A o \in Retrievals \ {l} : ~ Holding(o)
    /\ lookup[l].at \in {"embedding", "committing"} => Backed(l)
    /\ lookup[l].at = "committing" => Missing(l) = {} /\ lookup[l].status = "ready"

RetrievalInv ==
    /\ texts \in [Chunks -> Versions]
    /\ cache \in [Chunks -> CacheRow]
    /\ lookup \in [Retrievals -> LookupState]
    /\ \A c \in Chunks : cache[c].vector = cache[c].hash
    /\ \A l \in Retrievals : LookupStands(l)

LEMMA RetrievalBegins == RetrievalInit => RetrievalInv
<1> SUFFICES ASSUME RetrievalInit PROVE RetrievalInv
    OBVIOUS
<1> USE DEF RetrievalInit, NoVersion, Uncached, Waiting
<1>1. texts \in [Chunks -> Versions]
    BY RetrievalAssumption
<1>2. cache \in [Chunks -> CacheRow] /\ lookup \in [Retrievals -> LookupState]
    BY DEF CacheRow, LookupState
<1>3. \A l \in Retrievals : LookupStands(l)
    BY DEF LookupStands
<1> QED BY <1>1, <1>2, <1>3 DEF RetrievalInv

\* A retrieval that nothing happens to, and whose rows stay.
LEMMA LookupRests ==
    ASSUME RetrievalInv, NEW l \in Retrievals, lookup'[l] = lookup[l],
           lookup[l].at \in {"embedding", "committing"} =>
                \A c \in Chunks : cache'[c] = cache[c],
           lookup[l].wrote # {} =>
                \A o \in Retrievals \ {l} : lookup'[o].at \notin {"embedding", "inserting", "committing"}
    PROVE  LookupStands(l)'
<1>1. LookupStands(l)
    BY DEF RetrievalInv
<1> QED BY <1>1 DEF LookupStands, Holding, Backed, Missing

LEMMA RetrievalSteps ==
    ASSUME RetrievalInv, [RetrievalNext]_retrievalVars
    PROVE  RetrievalInv'
<1> USE DEF NoVersion
<1>t. /\ texts \in [Chunks -> Versions] /\ cache \in [Chunks -> CacheRow]
      /\ lookup \in [Retrievals -> LookupState]
      /\ \A c \in Chunks : cache[c].vector = cache[c].hash
      /\ \A l \in Retrievals : LookupStands(l)
    BY DEF RetrievalInv
<1>1. CASE UNCHANGED retrievalVars
    BY <1>1, <1>t DEF retrievalVars, RetrievalInv, LookupStands, Holding, Backed, Missing
<1>2. ASSUME NEW d \in Chunks, NEW v \in Versions, Replace(d, v)
      PROVE  RetrievalInv'
    <2>1. texts' \in [Chunks -> Versions] /\ cache' = cache /\ lookup' = lookup
        BY <1>2, <1>t DEF Replace
    <2> QED BY <2>1, <1>t DEF RetrievalInv, LookupStands, Holding, Backed, Missing
<1>3. ASSUME NEW l \in Retrievals, NEW semantic \in BOOLEAN, BeginLookup(l, semantic)
      PROVE  RetrievalInv'
    <2>1. /\ lookup[l].at = "idle" /\ texts' = texts /\ cache' = cache
          /\ lookup' = [lookup EXCEPT ![l] = lookup'[l]]
          /\ lookup'[l].at \in {"opening", "answered"} /\ lookup'[l].texts = texts
          /\ lookup'[l].vectors = [c \in Chunks |-> NoVersion] /\ lookup'[l].wrote = {}
          /\ lookup'[l] \in LookupState
        BY <1>3, <1>t DEF BeginLookup, Waiting, Materialized, LookupState
    <2>2. LookupStands(l)'
        BY <2>1, <1>t DEF LookupStands, Holding, Backed, Missing
    <2>3. ASSUME NEW o \in Retrievals \ {l} PROVE LookupStands(o)'
        <3>1. LookupStands(o)
            BY <1>t
        <3> QED BY <2>1, <3>1, <1>t, LookupRests DEF LookupStands, Holding, RetrievalInv
    <2> QED BY <2>1, <2>2, <2>3, <1>t DEF RetrievalInv
\* A retrieval moves on by itself: what the others have is not touched.
<1>4. ASSUME NEW l \in Retrievals, Open(l)
      PROVE  RetrievalInv'
    <2>1. /\ lookup[l].at = "opening" /\ texts' = texts /\ cache' = cache
          /\ \A o \in Retrievals : lookup[o].wrote = {}
          /\ lookup' = [lookup EXCEPT ![l] = lookup'[l]]
          /\ lookup'[l] = [lookup[l] EXCEPT !.at = "embedding",
                !.vectors = [c \in Chunks |-> Cached(c, lookup[l].texts[c])]]
        BY <1>4, <1>t DEF Open
    <2>2. lookup'[l] \in LookupState /\ LookupStands(l)'
        <3>1. LookupStands(l)
            BY <1>t
        <3>2. /\ lookup'[l].at = "embedding" /\ lookup'[l].texts = lookup[l].texts
              /\ lookup'[l].wrote = {}
              /\ lookup'[l].vectors = [c \in Chunks |-> Cached(c, lookup[l].texts[c])]
            BY <2>1, <1>t DEF LookupState
        <3>6. lookup'[l] \in LookupState
            <4>1. lookup[l] \in LookupState
                BY <1>t
            <4>2. [c \in Chunks |-> Cached(c, lookup[l].texts[c])] \in [Chunks -> Versions \cup {NoVersion}]
                BY <1>t DEF Cached, CacheRow
            <4> QED BY <2>1, <4>1, <4>2 DEF LookupState
        <3>3. lookup[l].texts \in [Chunks -> Versions]
            BY <2>1, <3>1 DEF LookupStands
        <3>4. \A c \in Chunks : cache[c] = [hash |-> cache[c].hash, vector |-> cache[c].vector]
            BY <1>t DEF CacheRow
        <3>5. \A c \in Chunks : lookup'[l].vectors[c] # NoVersion =>
                  lookup'[l].vectors[c] = lookup'[l].texts[c]
                  /\ cache[c] = [hash |-> lookup'[l].texts[c], vector |-> lookup'[l].vectors[c]]
            BY <3>2, <3>4, <1>t DEF Cached
        <3> QED BY <2>1, <3>2, <3>3, <3>5, <3>6 DEF LookupStands, Holding, Backed, Missing
    <2>3. ASSUME NEW o \in Retrievals \ {l} PROVE LookupStands(o)'
        BY <2>1, <1>t, LookupRests DEF RetrievalInv
    <2> QED BY <2>1, <2>2, <2>3, <1>t DEF RetrievalInv
<1>5. ASSUME NEW l \in Retrievals, Embed(l)
      PROVE  RetrievalInv'
    <2>1. /\ lookup[l].at = "embedding" /\ texts' = texts /\ cache' = cache
          /\ lookup' = [lookup EXCEPT ![l] = lookup'[l]]
          /\ lookup'[l] = [lookup[l] EXCEPT !.at = "inserting",
                !.vectors = [c \in Chunks |-> IF c \in Batch(l) THEN lookup[l].texts[c]
                                             ELSE lookup[l].vectors[c]]]
        BY <1>5, <1>t DEF Embed
    <2>2. lookup'[l] \in LookupState /\ LookupStands(l)'
        <3>1. LookupStands(l)
            BY <1>t
        <3>2. lookup[l].texts \in [Chunks -> Versions]
            BY <2>1, <3>1 DEF LookupStands
        <3>3. /\ lookup'[l].at = "inserting" /\ lookup'[l].texts = lookup[l].texts
              /\ lookup'[l].wrote = lookup[l].wrote
              /\ \A c \in Chunks : lookup'[l].vectors[c] \in {lookup[l].texts[c], lookup[l].vectors[c]}
            BY <2>1, <1>t DEF LookupState
        <3>4. lookup'[l] \in LookupState
            <4>1. lookup[l] \in LookupState
                BY <1>t
            <4>2. [c \in Chunks |-> IF c \in Batch(l) THEN lookup[l].texts[c] ELSE lookup[l].vectors[c]]
                    \in [Chunks -> Versions \cup {NoVersion}]
                BY <3>2, <4>1 DEF LookupState
            <4> QED BY <2>1, <4>1, <4>2 DEF LookupState
        <3>5. \A c \in Chunks : lookup'[l].vectors[c] # NoVersion =>
                  lookup'[l].vectors[c] = lookup'[l].texts[c]
            BY <3>1, <3>3 DEF LookupStands
        <3>6. \A o \in Retrievals \ {l} : Holding(o)' <=> Holding(o)
            BY <2>1, <1>t DEF Holding
        <3> QED BY <2>1, <3>1, <3>2, <3>3, <3>4, <3>5, <3>6 DEF LookupStands, Holding
    <2>3. ASSUME NEW o \in Retrievals \ {l} PROVE LookupStands(o)'
        BY <2>1, <1>t, LookupRests DEF RetrievalInv, LookupStands, Holding
    <2> QED BY <2>1, <2>2, <2>3, <1>t DEF RetrievalInv
<1>6. ASSUME NEW l \in Retrievals, Insert(l)
      PROVE  RetrievalInv'
    <2>1. /\ lookup[l].at = "inserting" /\ texts' = texts /\ cache' = cache
          /\ \A o \in Retrievals \ {l} : ~ Holding(o)
          /\ lookup' = [lookup EXCEPT ![l] = lookup'[l]]
          /\ lookup'[l] = [lookup[l] EXCEPT !.wrote = lookup[l].wrote \cup FreshLookup(l),
                                            !.at = "embedding"]
        BY <1>6, <1>t DEF Insert
    <2>2. lookup'[l] \in LookupState /\ LookupStands(l)'
        <3>1. LookupStands(l)
            BY <1>t
        <3>2. /\ lookup'[l].at = "embedding" /\ lookup'[l].texts = lookup[l].texts
              /\ lookup'[l].wrote = lookup[l].wrote \cup FreshLookup(l)
              /\ lookup'[l].vectors = lookup[l].vectors
            BY <2>1, <1>t DEF LookupState
        <3>5. lookup'[l] \in LookupState
            <4>1. lookup[l] \in LookupState /\ FreshLookup(l) \subseteq Chunks
                BY <1>t DEF FreshLookup
            <4> QED BY <2>1, <4>1 DEF LookupState
        <3>3. Backed(l)'
            BY <2>1, <3>2 DEF Backed, FreshLookup, Missing
        <3>4. \A o \in Retrievals \ {l} : ~ Holding(o)'
            BY <2>1, <1>t DEF Holding
        <3> QED BY <2>1, <3>1, <3>2, <3>3, <3>4, <3>5 DEF LookupStands, Holding
    <2>3. ASSUME NEW o \in Retrievals \ {l} PROVE LookupStands(o)'
        BY <2>1, <1>t, LookupRests DEF RetrievalInv, LookupStands
    <2> QED BY <2>1, <2>2, <2>3, <1>t DEF RetrievalInv
<1>7. ASSUME NEW l \in Retrievals, AskVector(l)
      PROVE  RetrievalInv'
    <2>1. /\ lookup[l].at = "embedding" /\ Missing(l) = {} /\ texts' = texts /\ cache' = cache
          /\ lookup' = [lookup EXCEPT ![l] = lookup'[l]]
          /\ lookup'[l] = [lookup[l] EXCEPT !.at = "committing", !.status = "ready"]
        BY <1>7, <1>t DEF AskVector
    <2>2. lookup'[l] \in LookupState /\ LookupStands(l)'
        <3>1. LookupStands(l)
            BY <1>t
        <3>2. /\ lookup'[l].at = "committing" /\ lookup'[l].texts = lookup[l].texts
              /\ lookup'[l].wrote = lookup[l].wrote /\ lookup'[l].status = "ready"
              /\ lookup'[l].vectors = lookup[l].vectors
              /\ lookup'[l] \in LookupState
            BY <2>1, <1>t DEF LookupState
        <3>3. Backed(l)' /\ Missing(l)' = {}
            BY <2>1, <3>1, <3>2 DEF LookupStands, Backed, Missing
        <3>4. lookup'[l].wrote # {} => \A o \in Retrievals \ {l} : ~ Holding(o)'
            BY <2>1, <3>1, <3>2, <1>t DEF LookupStands, Holding
        <3> QED BY <2>1, <3>1, <3>2, <3>3, <3>4 DEF LookupStands, Holding
    <2>3. ASSUME NEW o \in Retrievals \ {l} PROVE LookupStands(o)'
        BY <2>1, <1>t, LookupRests DEF RetrievalInv, LookupStands, Holding
    <2> QED BY <2>1, <2>2, <2>3, <1>t DEF RetrievalInv
\* A commit with rows of its own is the only one that holds anything.
<1>8. ASSUME NEW l \in Retrievals, Commit(l)
      PROVE  RetrievalInv'
    <2>0. LookupStands(l)
        BY <1>t
    <2>1. /\ lookup[l].at = "committing" /\ texts' = texts
          /\ lookup' = [lookup EXCEPT ![l] = lookup'[l]]
          /\ lookup'[l] = [lookup[l] EXCEPT !.at = "answered", !.wrote = {}]
          /\ cache' = [c \in Chunks |->
                IF c \in lookup[l].wrote
                THEN [hash |-> lookup[l].texts[c], vector |-> lookup[l].vectors[c]]
                ELSE cache[c]]
        BY <1>8, <1>t DEF Commit
    <2>2. lookup[l].texts \in [Chunks -> Versions] /\ \A c \in Chunks : lookup[l].vectors[c] = lookup[l].texts[c]
        BY <2>0, <2>1 DEF LookupStands, Missing
    <2>3. cache' \in [Chunks -> CacheRow] /\ \A c \in Chunks : cache'[c].vector = cache'[c].hash
        BY <2>1, <2>2, <1>t DEF CacheRow
    <2>4. lookup'[l] \in LookupState /\ LookupStands(l)'
        <3>1. /\ lookup'[l].at = "answered" /\ lookup'[l].texts = lookup[l].texts
              /\ lookup'[l].wrote = {} /\ lookup'[l].vectors = lookup[l].vectors
              /\ lookup'[l] \in LookupState
            BY <2>1, <1>t DEF LookupState
        <3> QED BY <2>2, <3>1 DEF LookupStands
    <2>5. ASSUME NEW o \in Retrievals \ {l} PROVE LookupStands(o)'
        <3>1. lookup'[o] = lookup[o]
            BY <2>1, <1>t
        <3>2. CASE lookup[l].wrote = {}
            <4>1. \A c \in Chunks : cache'[c] = cache[c]
                BY <2>1, <3>2
            <4> QED BY <2>1, <3>1, <4>1, <1>t, LookupRests DEF RetrievalInv, LookupStands, Holding
        <3>3. CASE lookup[l].wrote # {}
            <4>1. ~ Holding(o) /\ lookup[o].wrote = {}
                BY <2>0, <3>3, <1>t DEF LookupStands
            <4> QED BY <3>1, <4>1, <1>t, LookupRests DEF RetrievalInv, Holding
        <3> QED BY <3>2, <3>3
    <2> QED BY <2>1, <2>3, <2>4, <2>5, <1>t DEF RetrievalInv
<1>9. ASSUME NEW l \in Retrievals, FailLookup(l)
      PROVE  RetrievalInv'
    <2>0. LookupStands(l)
        BY <1>t
    <2>1. /\ lookup[l].at # "idle" /\ texts' = texts /\ cache' = cache
          /\ lookup' = [lookup EXCEPT ![l] = lookup'[l]]
          /\ lookup'[l] = [lookup[l] EXCEPT !.at = "answered", !.wrote = {},
                                            !.status = "fallback_lexical"]
        BY <1>9, <1>t DEF FailLookup, FallenBack, Holding
    <2>2. lookup'[l] \in LookupState /\ LookupStands(l)'
        <3>1. /\ lookup'[l].at = "answered" /\ lookup'[l].texts = lookup[l].texts
              /\ lookup'[l].wrote = {} /\ lookup'[l].vectors = lookup[l].vectors
              /\ lookup'[l] \in LookupState
            BY <2>1, <1>t DEF LookupState
        <3> QED BY <2>0, <2>1, <3>1 DEF LookupStands
    <2>3. ASSUME NEW o \in Retrievals \ {l} PROVE LookupStands(o)'
        <3>1. lookup'[o] = lookup[o] /\ LookupStands(o) /\ lookup'[l].at = "answered"
            BY <2>1, <1>t DEF LookupState
        <3>2. \A q \in Retrievals \ {o} : Holding(q)' => Holding(q)
            BY <2>1, <3>1, <1>t DEF Holding
        <3> QED BY <2>1, <3>1, <3>2, LookupRests DEF LookupStands, Holding
    <2> QED BY <2>1, <2>2, <2>3, <1>t DEF RetrievalInv
<1>10. ASSUME NEW l \in Retrievals, ReturnVectors(l)
      PROVE  RetrievalInv'
    <2>1. /\ texts' = texts /\ cache' = cache /\ lookup' = [lookup EXCEPT ![l] = Waiting]
          /\ Waiting \in LookupState
        BY <1>10 DEF ReturnVectors, Waiting, LookupState
    <2>2. LookupStands(l)'
        BY <2>1, <1>t DEF LookupStands, Waiting
    <2>3. ASSUME NEW o \in Retrievals \ {l} PROVE LookupStands(o)'
        BY <2>1, <1>t, LookupRests DEF RetrievalInv, LookupStands, Holding, Waiting
    <2> QED BY <2>1, <2>2, <2>3, <1>t DEF RetrievalInv
<1> QED
    BY <1>1, <1>2, <1>3, <1>4, <1>5, <1>6, <1>7, <1>8, <1>9, <1>10 DEF RetrievalNext

LEMMA RetrievalInvVectors == RetrievalInv => VectorsMatchTheirText
BY DEF RetrievalInv, LookupStands, VectorsMatchTheirText

\* Only a commit makes a ranking by distance count.
LEMMA CommittedLookupsAreWhole ==
    ASSUME RetrievalInv, [RetrievalNext]_retrievalVars, NEW l \in Retrievals,
           lookup'[l].at = "answered", lookup[l].at # "answered", lookup'[l].status = "ready",
           NEW c \in Chunks
    PROVE  cache'[c] = [hash |-> lookup[l].texts[c], vector |-> lookup[l].texts[c]]
<1>t. lookup \in [Retrievals -> LookupState] /\ LookupStands(l)
    BY DEF RetrievalInv
<1>1. Commit(l)
    <2>1. CASE UNCHANGED retrievalVars \/ \E d \in Chunks, v \in Versions : Replace(d, v)
        BY <2>1 DEF retrievalVars, Replace
    <2>2. ASSUME NEW o \in Retrievals,
                 \/ \E semantic \in BOOLEAN : BeginLookup(o, semantic)
                 \/ Open(o) \/ Embed(o) \/ Insert(o) \/ AskVector(o)
                 \/ FailLookup(o) \/ ReturnVectors(o)
          PROVE  FALSE
        <3>1. CASE o # l
            BY <1>t, <2>2, <3>1 DEF BeginLookup, Open, Embed, Insert, AskVector, FailLookup, ReturnVectors
        <3>2. CASE o = l /\ \E semantic \in BOOLEAN : BeginLookup(o, semantic)
            BY <1>t, <3>2 DEF BeginLookup, Waiting
        <3>3. CASE o = l /\ (Open(o) \/ Embed(o) \/ Insert(o) \/ AskVector(o))
            BY <1>t, <3>3 DEF Open, Embed, Insert, AskVector, LookupState
        <3>4. CASE o = l /\ (FailLookup(o) \/ ReturnVectors(o))
            BY <1>t, <3>4 DEF FailLookup, FallenBack, ReturnVectors, Waiting, LookupState
        <3> QED BY <2>2, <3>1, <3>2, <3>3, <3>4
    <2>3. ASSUME NEW o \in Retrievals, Commit(o) PROVE o = l
        BY <1>t, <2>3 DEF Commit
    <2> QED BY <2>1, <2>2, <2>3 DEF RetrievalNext
<1>2. /\ lookup[l].vectors[c] = lookup[l].texts[c]
      /\ lookup[l].vectors[c] # NoVersion
      /\ Backed(l)
    BY <1>1, <1>t DEF Commit, LookupStands, Missing
<1> QED BY <1>1, <1>2 DEF Commit, Backed

(***************************************************************************)
(* For any files, questions and batches: a vector stands for the text it   *)
(* was made from, and a ranking by distance covers every chunk with        *)
(* vectors that are kept.                                                  *)
(***************************************************************************)
THEOREM RetrievalIsSound == RetrievalSpec => RankingsAreSound
<1>1. RetrievalInit => RetrievalInv
    BY RetrievalBegins
<1>2. RetrievalInv /\ [RetrievalNext]_retrievalVars => RetrievalInv'
    BY RetrievalSteps
<1>3. RetrievalInv => VectorsMatchTheirText
    BY RetrievalInvVectors
<1>4. RetrievalInv /\ [RetrievalNext]_retrievalVars =>
        [\A l \in Retrievals :
            lookup'[l].at = "answered" /\ lookup[l].at # "answered"
            /\ lookup'[l].status = "ready" =>
                \A c \in Chunks :
                    cache'[c] = [hash |-> lookup[l].texts[c],
                                 vector |-> lookup[l].texts[c]]]_retrievalVars
    BY CommittedLookupsAreWhole
<1> QED BY <1>1, <1>2, <1>3, <1>4, PTL DEF RetrievalSpec, RankingsAreSound, DistancesAreWhole

-----------------------------------------------------------------------------
(***************************************************************************)
(* Evidence.  What a question was given is settled once it is recorded,    *)
(* nodes and edges only come, and a node is ruled on only by people.       *)
(***************************************************************************)

EvidenceNode == [status : Rulings \cup {"proposed", "verified"}, full : BOOLEAN]

QuestionState == [at : {"new", "asked", "recorded"}, given : SUBSET Documents]

SyncState ==
    [at : {"idle", "looking"}, scanned : SUBSET Questions,
     looked : SUBSET Documents, present : SUBSET Documents]

EvidenceInv ==
    /\ kept \subseteq Documents
    /\ question \in [Questions -> QuestionState]
    /\ nodes \in [DOMAIN nodes -> EvidenceNode]
    /\ DOMAIN ruled \subseteq DOMAIN nodes
    /\ ruled \in [DOMAIN ruled -> Rulings]
    /\ syncing \in SyncState
    /\ syncing.scanned \subseteq Recorded
    /\ synced \subseteq Recorded
    /\ EvidenceOutlivesDocuments
    /\ RulingsStand

LEMMA EvidenceBegins == EvidenceInit => EvidenceInv
<1> SUFFICES ASSUME EvidenceInit PROVE EvidenceInv
    OBVIOUS
<1> USE DEF EvidenceInit, NoSync
<1>1. question \in [Questions -> QuestionState] /\ syncing \in SyncState
    BY DEF QuestionState, SyncState
<1>2. DOMAIN nodes = {} /\ DOMAIN ruled = {} /\ nodes \in [DOMAIN nodes -> EvidenceNode]
    BY DEF EvidenceNode
<1>3. ruled \in [DOMAIN ruled -> Rulings]
    OBVIOUS
<1> QED BY <1>1, <1>2, <1>3 DEF EvidenceInv, EvidenceOutlivesDocuments, RulingsStand

\* Steps that leave questions, nodes, edges and judgements to themselves.
LEMMA EvidenceRests ==
    ASSUME EvidenceInv, kept' \subseteq Documents,
           question' = question, nodes' = nodes, joins' = joins, ruled' = ruled,
           synced' = synced, syncing' \in SyncState, syncing'.scanned \subseteq Recorded
    PROVE  EvidenceInv'
BY DEF EvidenceInv, EvidenceOutlivesDocuments, RulingsStand, Recorded

\* Steps of a question that is not recorded yet.
LEMMA EvidenceOfQuestions ==
    ASSUME EvidenceInv, NEW q \in Questions, NEW r \in QuestionState,
           question[q].at # "recorded", question' = [question EXCEPT ![q] = r],
           UNCHANGED <<kept, nodes, joins, ruled, synced, syncing>>
    PROVE  EvidenceInv'
<1>1. question' \in [Questions -> QuestionState] /\ Recorded \subseteq Recorded'
    BY DEF EvidenceInv, Recorded
<1>2. \A s \in synced : question'[s] = question[s]
    BY DEF EvidenceInv, Recorded
<1> QED BY <1>1, <1>2 DEF EvidenceInv, EvidenceOutlivesDocuments, RulingsStand

LEMMA EvidenceSteps ==
    ASSUME EvidenceInv, [EvidenceNext]_evidenceVars
    PROVE  EvidenceInv'
<1>t. /\ kept \subseteq Documents /\ question \in [Questions -> QuestionState]
      /\ nodes \in [DOMAIN nodes -> EvidenceNode] /\ DOMAIN ruled \subseteq DOMAIN nodes
      /\ ruled \in [DOMAIN ruled -> Rulings]
      /\ syncing \in SyncState /\ syncing.scanned \subseteq Recorded /\ synced \subseteq Recorded
    BY DEF EvidenceInv
<1>1. CASE UNCHANGED evidenceVars
    BY <1>1, <1>t, EvidenceRests DEF evidenceVars
<1>2. ASSUME NEW q \in Questions,
             \/ \E given \in SUBSET kept, semantic \in BOOLEAN : Ask(q, given, semantic)
             \/ Record(q) \/ FailQuestion(q)
      PROVE  EvidenceInv'
    <2>1. PICK r \in QuestionState : question' = [question EXCEPT ![q] = r]
        <3>1. CASE \E given \in SUBSET kept, semantic \in BOOLEAN : Ask(q, given, semantic)
            <4>1. PICK given \in SUBSET kept : question' = [question EXCEPT ![q] = [at |-> "asked", given |-> given]]
                BY <3>1 DEF Ask
            <4>2. [at |-> "asked", given |-> given] \in QuestionState
                BY <1>t DEF QuestionState
            <4> QED BY <4>1, <4>2
        <3>2. CASE Record(q)
            <4>1. [question[q] EXCEPT !.at = "recorded"] \in QuestionState
                BY <1>t DEF QuestionState
            <4> QED BY <3>2, <4>1 DEF Record
        <3>3. CASE FailQuestion(q)
            <4>1. [at |-> "new", given |-> {}] \in QuestionState
                BY DEF QuestionState
            <4> QED BY <3>3, <4>1 DEF FailQuestion
        <3> QED BY <1>2, <3>1, <3>2, <3>3
    <2>2. question[q].at # "recorded" /\ UNCHANGED <<kept, nodes, joins, ruled, synced, syncing>>
        BY <1>2 DEF Ask, Record, FailQuestion
    <2> QED BY <2>1, <2>2, EvidenceOfQuestions
<1>3. ASSUME NEW d \in Documents, DeleteDocument(d)
      PROVE  EvidenceInv'
    BY <1>3, <1>t, EvidenceRests DEF DeleteDocument
<1>4. ASSUME NEW d \in Documents, LookUpDocument(d)
      PROVE  EvidenceInv'
    <2>1. syncing' \in SyncState /\ syncing'.scanned = syncing.scanned
        BY <1>4, <1>t DEF LookUpDocument, SyncState
    <2> QED BY <1>4, <2>1, <1>t, EvidenceRests DEF LookUpDocument
<1>5. CASE BeginSync
    <2>1. syncing' \in SyncState /\ syncing'.scanned = Recorded
        BY <1>5 DEF BeginSync, NoSync, SyncState, Recorded
    <2> QED BY <1>5, <2>1, <1>t, EvidenceRests DEF BeginSync
<1>6. CASE AbortSync
    <2>1. syncing' \in SyncState /\ syncing'.scanned = {}
        BY <1>6 DEF AbortSync, NoSync, SyncState
    <2> QED BY <1>6, <2>1, <1>t, EvidenceRests DEF AbortSync
\* The nodes of every question it scanned are there, or are made now.
<1>7. CASE CommitSync
    <2>1. /\ nodes' = Upserted(nodes, Made(syncing)) /\ synced' = synced \cup syncing.scanned
          /\ question' = question /\ kept' = kept /\ ruled' = ruled /\ syncing' = NoSync
          /\ Cited(syncing.scanned) \subseteq syncing.looked
          /\ joins' = joins \cup UNION { { Informs(d, q) : d \in question[q].given \cap syncing.looked }
                                         : q \in syncing.scanned }
        BY <1>7 DEF CommitSync
    <2>2. /\ DOMAIN Made(syncing) = { Claim(q) : q \in syncing.scanned } \cup { Chunk(d) : d \in syncing.looked }
          /\ \A n \in DOMAIN Made(syncing) : Made(syncing)[n] \in EvidenceNode
        BY DEF Made, EvidenceNode
    <2>3. /\ DOMAIN nodes' = DOMAIN nodes \cup DOMAIN Made(syncing)
          /\ \A n \in DOMAIN nodes : nodes'[n] = nodes[n]
          /\ \A n \in DOMAIN Made(syncing) \ DOMAIN nodes : nodes'[n] = Made(syncing)[n]
        BY <2>1 DEF Upserted
    <2>4. nodes' \in [DOMAIN nodes' -> EvidenceNode]
        BY <2>1, <2>2, <2>3, <1>t DEF Upserted
    <2>5. syncing' \in SyncState /\ syncing'.scanned = {}
        BY <2>1 DEF NoSync, SyncState
    <2>6. EvidenceOutlivesDocuments'
        <3> SUFFICES ASSUME NEW q \in synced', NEW d \in question[q].given
                     PROVE  Chunk(d) \in DOMAIN nodes' /\ Informs(d, q) \in joins'
            BY <2>1, <2>2, <2>3 DEF EvidenceOutlivesDocuments, EvidenceInv
        <3>1. CASE q \in synced
            BY <2>1, <2>3, <3>1 DEF EvidenceInv, EvidenceOutlivesDocuments
        <3>2. CASE q \in syncing.scanned
            <4>1. d \in syncing.looked
                BY <2>1, <3>2 DEF Cited
            <4> QED BY <2>1, <2>2, <2>3, <3>2, <4>1
        <3> QED BY <2>1, <3>1, <3>2
    <2>7. RulingsStand'
        BY <2>1, <2>3, <1>t DEF RulingsStand, EvidenceInv
    <2> QED BY <2>1, <2>3, <2>4, <2>5, <2>6, <2>7, <1>t DEF EvidenceInv, Recorded
<1>8. ASSUME NEW e \in Entries, NEW status \in Rulings, CreateNode(e, status)
      PROVE  EvidenceInv'
    <2> DEFINE new == [n \in {Entry(e)} |-> [status |-> status, full |-> TRUE]]
               said == [n \in {Entry(e)} |-> status]
    <2>1. /\ Entry(e) \notin DOMAIN nodes /\ nodes' = Upserted(nodes, new)
          /\ ruled' = WrittenOver(ruled, said)
          /\ UNCHANGED <<kept, question, joins, syncing, synced>>
        BY <1>8 DEF CreateNode
    <2>2. new[Entry(e)] \in EvidenceNode /\ new[Entry(e)].status = status /\ DOMAIN new = {Entry(e)}
          /\ said[Entry(e)] = status /\ DOMAIN said = {Entry(e)}
        BY DEF EvidenceNode
    <2> HIDE DEF new, said
    <2>3. /\ DOMAIN nodes' = DOMAIN nodes \cup {Entry(e)}
          /\ \A n \in DOMAIN nodes : nodes'[n] = nodes[n]
          /\ nodes'[Entry(e)] = new[Entry(e)]
        BY <2>1, <2>2 DEF Upserted
    <2>4. /\ DOMAIN ruled' = DOMAIN ruled \cup {Entry(e)}
          /\ \A n \in DOMAIN ruled \ {Entry(e)} : ruled'[n] = ruled[n]
          /\ ruled'[Entry(e)] = status /\ ruled' \in [DOMAIN ruled' -> Rulings]
        BY <2>1, <2>2, <1>t DEF WrittenOver
    <2>5. nodes' \in [DOMAIN nodes' -> EvidenceNode]
        BY <2>1, <2>2, <2>3, <1>t DEF Upserted
    <2>6. RulingsStand'
        BY <2>2, <2>3, <2>4, <1>t DEF RulingsStand, EvidenceInv
    <2>7. EvidenceOutlivesDocuments'
        BY <2>1, <2>3 DEF EvidenceOutlivesDocuments, EvidenceInv
    <2> QED BY <2>1, <2>3, <2>4, <2>5, <2>6, <2>7, <1>t DEF EvidenceInv, Recorded
<1>9. ASSUME NEW n \in DOMAIN nodes, NEW status \in Rulings, UpdateNode(n, status)
      PROVE  EvidenceInv'
    <2> DEFINE said == [m \in {n} |-> status]
    <2>1. /\ nodes' = [nodes EXCEPT ![n].status = status]
          /\ ruled' = WrittenOver(ruled, said)
          /\ UNCHANGED <<kept, question, joins, syncing, synced>>
        BY <1>9 DEF UpdateNode
    <2>2. said[n] = status /\ DOMAIN said = {n}
        OBVIOUS
    <2> HIDE DEF said
    <2>3. /\ DOMAIN nodes' = DOMAIN nodes /\ nodes' \in [DOMAIN nodes' -> EvidenceNode]
          /\ \A m \in DOMAIN nodes \ {n} : nodes'[m] = nodes[m]
          /\ nodes'[n].status = status
        BY <2>1, <1>t DEF EvidenceNode
    <2>4. /\ DOMAIN ruled' = DOMAIN ruled \cup {n}
          /\ \A m \in DOMAIN ruled \ {n} : ruled'[m] = ruled[m]
          /\ ruled'[n] = status /\ ruled' \in [DOMAIN ruled' -> Rulings]
        BY <2>1, <2>2, <1>t DEF WrittenOver
    <2>5. RulingsStand'
        BY <2>3, <2>4, <1>t DEF RulingsStand, EvidenceInv
    <2>6. EvidenceOutlivesDocuments'
        BY <2>1, <2>3 DEF EvidenceOutlivesDocuments, EvidenceInv
    <2> QED BY <2>1, <2>3, <2>4, <2>5, <2>6, <1>t DEF EvidenceInv, Recorded
<1>10. ASSUME NEW m \in DOMAIN nodes, NEW n \in DOMAIN nodes, CreateEdge(m, n, "supports")
       PROVE  EvidenceInv'
    BY <1>10, <1>t DEF CreateEdge, EvidenceInv, EvidenceOutlivesDocuments, RulingsStand, Recorded
<1> QED
    BY <1>1, <1>2, <1>3, <1>4, <1>5, <1>6, <1>7, <1>8, <1>9, <1>10 DEF EvidenceNext

\* The invariant of the evidence graph, in every state.
THEOREM EvidenceInvariant == EvidenceSpec => []EvidenceInv
<1>1. EvidenceInit => EvidenceInv
    BY EvidenceBegins
<1>2. EvidenceInv /\ [EvidenceNext]_evidenceVars => EvidenceInv'
    BY EvidenceSteps
<1> QED BY <1>1, <1>2, PTL DEF EvidenceSpec

\* For any documents, questions and people: a synchronised answer keeps its
\* claim, its evidence and the edges between them, whatever is deleted and
\* whenever, and no synchronisation undoes a ruling.
THEOREM EvidenceLasts == EvidenceSpec => []EvidenceIsKept
<1>1. EvidenceInv => EvidenceIsKept
    BY DEF EvidenceInv, EvidenceIsKept
<1> QED BY <1>1, EvidenceInvariant, PTL

-----------------------------------------------------------------------------
(***************************************************************************)
(* Learning.  Editions are only added, and what a packet or a publisher    *)
(* shows is a picture of one of them, no older than one accepted.  What a  *)
(* publisher has read is at least as new as the packet, which nobody else  *)
(* writes while the tables of packets are held.                            *)
(***************************************************************************)

Nodes == [status : Statuses, text : Nat, outcome : Bodies]
PacketState == [edition : Nat, text : Nat, outcome : Bodies]
PublishState == [at : {"idle", "checked", "nodes", "edges"}, shows : PacketState]

WasReviewed(l, e) == \E i \in 1 .. e : editions[l][i].status \in Reviewed

IsPicture(l, shown) ==
    /\ shown.edition \in 1 .. Len(editions[l])
    /\ editions[l][shown.edition].text = shown.text
    /\ WasReviewed(l, shown.edition)

IsJoined(l, shown) ==
    shown.outcome # "none" =>
        l \in linked /\ editions[l][shown.edition].outcome = shown.outcome

EditionsStand(l) ==
    /\ Len(editions[l]) <= MaxEditions
    /\ \A i \in 1 .. Len(editions[l]) : editions[l][i].text \in 1 .. i
    /\ \A i, j \in 1 .. Len(editions[l]) : i <= j =>
        /\ editions[l][i].text <= editions[l][j].text
        /\ editions[l][i].outcome # "none" => editions[l][j].outcome # "none"

PacketStands(l) ==
    /\ packet[l] = NoPacket \/ (IsPicture(l, packet[l]) /\ IsJoined(l, packet[l]))
    /\ \A t \in Targets : seenText[t][l] <= packet[l].text

PublishStands(p, l) ==
    /\ publish[p][l].at # "idle" => WasReviewed(l, Len(editions[l]))
    /\ publish[p][l].at \in {"nodes", "edges"} =>
        /\ IsPicture(l, publish[p][l].shows)
        /\ packet[l].edition <= publish[p][l].shows.edition
    /\ publish[p][l].at = "nodes" =>
        publish[p][l].shows.outcome = editions[l][publish[p][l].shows.edition].outcome
    /\ publish[p][l].at = "edges" =>
        /\ IsJoined(l, publish[p][l].shows)
        /\ packet[l].outcome # "none" => publish[p][l].shows.outcome # "none"

LearningShapes ==
    /\ cycle \in [Learnings -> [done : BOOLEAN, observed : BOOLEAN, learned : BOOLEAN]]
    /\ editions \in [Learnings -> Seq(Nodes)]
    /\ linked \subseteq Learnings
    /\ packet \in [Learnings -> PacketState]
    /\ review \in [Targets -> [Learnings -> Dispositions \cup {"none"}]]
    /\ seenText \in [Targets -> [Learnings -> Nat]]
    /\ publish \in [Publishers -> [Learnings -> PublishState]]

LearningInv ==
    /\ LearningShapes
    /\ \A l \in Learnings : EditionsStand(l) /\ PacketStands(l)
    /\ \A p \in Publishers, l \in Learnings : PublishStands(p, l)

LEMMA LearningBegins == LearningInit => LearningInv
<1> SUFFICES ASSUME LearningInit PROVE LearningInv
    OBVIOUS
<1>1. << >> \in Seq(Nodes) /\ Len(<< >>) = 0 /\ NoPacket \in PacketState /\ NoPublish \in PublishState
    BY DEF NoPacket, NoPublish, PacketState, PublishState, Bodies
<1>2. LearningShapes
    BY <1>1 DEF LearningInit, LearningShapes
<1>3. ASSUME NEW l \in Learnings PROVE EditionsStand(l) /\ PacketStands(l)
    <2>1. editions[l] = << >> /\ packet[l] = NoPacket /\ \A t \in Targets : seenText[t][l] = 0
        BY DEF LearningInit
    <2>2. Len(editions[l]) = 0 /\ NoPacket.text = 0 /\ 0 <= MaxEditions
        BY <1>1, <2>1, LearningAssumption DEF NoPacket
    <2> QED BY <2>1, <2>2 DEF EditionsStand, PacketStands
<1>4. ASSUME NEW p \in Publishers, NEW l \in Learnings PROVE PublishStands(p, l)
    BY DEF LearningInit, PublishStands, NoPublish
<1> QED BY <1>2, <1>3, <1>4 DEF LearningInv

LEMMA LearningRests ==
    ASSUME LearningInv, LearningShapes', UNCHANGED <<editions, linked, packet, seenText, publish>>
    PROVE  LearningInv'
<1>1. ASSUME NEW l \in Learnings PROVE EditionsStand(l)' /\ PacketStands(l)'
    BY DEF LearningInv, EditionsStand, PacketStands, IsPicture, IsJoined, WasReviewed
<1>2. ASSUME NEW p \in Publishers, NEW l \in Learnings PROVE PublishStands(p, l)'
    BY DEF LearningInv, PublishStands, IsPicture, IsJoined, WasReviewed
<1> QED BY <1>1, <1>2 DEF LearningInv

\* Every edition there was is there still, and an edge is never taken away: what
\* was a picture remains one.
LEMMA PicturesStay ==
    ASSUME LearningShapes, editions' \in [Learnings -> Seq(Nodes)], NEW l \in Learnings,
           Len(editions[l]) <= Len(editions'[l]),
           \A i \in 1 .. Len(editions[l]) : editions'[l][i] = editions[l][i],
           linked \subseteq linked'
    PROVE  /\ \A e \in 1 .. Len(editions[l]) : WasReviewed(l, e) => WasReviewed(l, e)'
           /\ \A shown \in PacketState : IsPicture(l, shown) =>
                /\ 1 <= shown.edition /\ shown.edition <= Len(editions'[l])
                /\ editions'[l][shown.edition] = editions[l][shown.edition]
                /\ editions'[l][shown.edition].text = shown.text
                /\ \E i \in 1 .. shown.edition : editions'[l][i].status \in Reviewed
<1>1. Len(editions[l]) \in Nat /\ Len(editions'[l]) \in Nat
    BY DEF LearningShapes
<1>2. ASSUME NEW e \in 1 .. Len(editions[l]), NEW i \in 1 .. e
      PROVE  editions'[l][i] = editions[l][i]
    BY <1>1
<1>3. ASSUME NEW e \in 1 .. Len(editions[l]), WasReviewed(l, e)
      PROVE  \E i \in 1 .. e : editions'[l][i].status \in Reviewed
    BY <1>2, <1>3 DEF WasReviewed
<1>4. ASSUME NEW shown \in PacketState, IsPicture(l, shown)
      PROVE  /\ 1 <= shown.edition /\ shown.edition <= Len(editions'[l])
             /\ editions'[l][shown.edition] = editions[l][shown.edition]
             /\ editions'[l][shown.edition].text = shown.text
             /\ \E i \in 1 .. shown.edition : editions'[l][i].status \in Reviewed
    BY <1>1, <1>3, <1>4 DEF IsPicture
<1> QED BY <1>3, <1>4 DEF WasReviewed

\* The nodes grow, or are joined; what was published stays.
LEMMA NodesGrow ==
    ASSUME LearningInv, editions' \in [Learnings -> Seq(Nodes)],
           \A l \in Learnings : /\ Len(editions[l]) <= Len(editions'[l])
                                /\ \A i \in 1 .. Len(editions[l]) : editions'[l][i] = editions[l][i]
                                /\ EditionsStand(l)',
           linked \subseteq linked', linked' \subseteq Learnings,
           cycle' \in [Learnings -> [done : BOOLEAN, observed : BOOLEAN, learned : BOOLEAN]],
           UNCHANGED <<packet, review, seenText, publish>>
    PROVE  LearningInv'
<1>t. LearningShapes /\ LearningShapes'
    BY DEF LearningInv, LearningShapes
<1>1. ASSUME NEW l \in Learnings PROVE PacketStands(l)'
    <2>1. PacketStands(l) /\ packet[l] \in PacketState
        BY DEF LearningInv, LearningShapes
    <2>2. IsPicture(l, packet[l]) => IsPicture(l, packet[l])'
        BY <1>t, <2>1, PicturesStay DEF IsPicture, WasReviewed, PacketState
    <2>3. IsPicture(l, packet[l]) /\ IsJoined(l, packet[l]) => IsJoined(l, packet[l])'
        <3>1. IsPicture(l, packet[l]) =>
                editions'[l][packet[l].edition] = editions[l][packet[l].edition]
            BY <1>t, <2>1, PicturesStay
        <3> QED BY <3>1 DEF IsJoined
    <2> QED BY <2>1, <2>2, <2>3 DEF PacketStands
<1>2. ASSUME NEW p \in Publishers, NEW l \in Learnings PROVE PublishStands(p, l)'
    <2> DEFINE s == publish[p][l].shows
    <2>1. PublishStands(p, l) /\ s \in PacketState /\ publish' = publish /\ packet' = packet
        BY DEF LearningInv, LearningShapes, PublishState
    <2>2. IsPicture(l, s) => IsPicture(l, s)' /\ editions'[l][s.edition] = editions[l][s.edition]
        BY <1>t, <2>1, PicturesStay DEF IsPicture, WasReviewed, PacketState
    <2>3. WasReviewed(l, Len(editions[l])) => WasReviewed(l, Len(editions[l]))'
        BY <1>t DEF WasReviewed, LearningShapes
    <2>4. IsPicture(l, s) /\ IsJoined(l, s) => IsJoined(l, s)'
        BY <2>1, <2>2 DEF IsJoined
    <2> QED BY <2>1, <2>2, <2>3, <2>4 DEF PublishStands
<1> QED BY <1>t, <1>1, <1>2 DEF LearningInv

\* One more edition, neither older than the standing one nor without its outcome.
LEMMA EditionAdded ==
    ASSUME LearningInv, NEW k \in Learnings, NEW n \in Nodes,
           Len(editions[k]) < MaxEditions, n.text \in 1 .. Len(editions[k]) + 1,
           NodeExists(k) => /\ Standing(k).text <= n.text
                            /\ Standing(k).outcome # "none" => n.outcome # "none",
           NewEdition(k, n), linked \subseteq linked', linked' \subseteq Learnings
    PROVE  LearningInv'
<1>t. LearningShapes /\ editions' = [editions EXCEPT ![k] = Append(editions[k], n)]
    BY DEF LearningInv, NewEdition
<1> DEFINE old == editions[k]
           new == Append(editions[k], n)
<1>1. /\ old \in Seq(Nodes) /\ new \in Seq(Nodes) /\ Len(new) = Len(old) + 1 /\ Len(old) \in Nat
      /\ \A i \in 1 .. Len(old) : new[i] = old[i]
      /\ new[Len(old) + 1] = n
    BY <1>t, AppendProperties DEF LearningShapes
<1>2. editions' \in [Learnings -> Seq(Nodes)] /\ editions'[k] = new
      /\ \A l \in Learnings \ {k} : editions'[l] = editions[l]
    BY <1>t, <1>1 DEF LearningShapes
<1>3. /\ EditionsStand(k) /\ MaxEditions \in Nat
      /\ \A i \in 1 .. Len(old) : old[i] \in Nodes
    BY <1>1, LearningAssumption DEF LearningInv
<1>4. Len(new) <= MaxEditions
    BY <1>1, <1>3
<1> HIDE DEF new
<1>5. ASSUME NEW i \in 1 .. Len(new) PROVE new[i].text \in 1 .. i
    <2>1. CASE i \in 1 .. Len(old)
        BY <2>1, <1>1, <1>3 DEF EditionsStand
    <2>2. CASE i = Len(old) + 1
        BY <2>2, <1>1
    <2> QED BY <2>1, <2>2, <1>1
<1>6. ASSUME NEW i \in 1 .. Len(new), NEW j \in 1 .. Len(new), i <= j
      PROVE  /\ new[i].text <= new[j].text
             /\ new[i].outcome # "none" => new[j].outcome # "none"
    <2>1. CASE j \in 1 .. Len(old)
        <3>1. i \in 1 .. Len(old) /\ new[i] = old[i] /\ new[j] = old[j]
            BY <2>1, <1>1, <1>6
        <3> QED BY <3>1, <2>1, <1>3, <1>6 DEF EditionsStand
    <2>2. CASE j = Len(old) + 1 /\ i \in 1 .. Len(old)
        <3>1. Len(old) \in 1 .. Len(old) /\ i <= Len(old) /\ NodeExists(k)
            BY <2>2, <1>1 DEF NodeExists
        <3>2. /\ old[i].text <= old[Len(old)].text /\ old[Len(old)].text <= n.text
              /\ old[i].text \in Nat /\ old[Len(old)].text \in Nat /\ n.text \in Nat
            BY <3>1, <2>2, <1>1, <1>3 DEF EditionsStand, Standing, Nodes
        <3>3. old[i].outcome # "none" => n.outcome # "none"
            BY <3>1, <2>2, <1>3 DEF EditionsStand, Standing
        <3>4. new[i] = old[i] /\ new[j] = n
            BY <2>2, <1>1
        <3> QED BY <3>2, <3>3, <3>4
    <2>3. CASE i = j
        <3>1. new[i].text \in Nat
            BY <1>5
        <3> QED BY <3>1, <2>3
    <2> QED BY <2>1, <2>2, <2>3, <1>1, <1>6
<1>7. EditionsStand(k)'
    BY <1>2, <1>4, <1>5, <1>6 DEF EditionsStand
<1>8. ASSUME NEW l \in Learnings
      PROVE  /\ Len(editions[l]) <= Len(editions'[l])
             /\ \A i \in 1 .. Len(editions[l]) : editions'[l][i] = editions[l][i]
             /\ EditionsStand(l)'
    <2>1. CASE l = k
        BY <2>1, <1>1, <1>2, <1>7
    <2>2. CASE l # k
        <3>1. editions'[l] = editions[l] /\ Len(editions[l]) \in Nat /\ EditionsStand(l)
            BY <2>2, <1>2, <1>t DEF LearningShapes, LearningInv
        <3> QED BY <3>1 DEF EditionsStand
    <2> QED BY <2>1, <2>2
<1> QED BY <1>2, <1>8, <1>t, NodesGrow DEF NewEdition, LearningShapes

\* A publisher moves on, and nothing but what it holds changes.
LEMMA PublisherMoves ==
    ASSUME LearningInv, NEW q \in Publishers, NEW k \in Learnings,
           NEW at \in {"idle", "checked", "nodes", "edges"}, NEW shows \in PacketState,
           PublisherGoes(q, k, at, shows), packet' = packet,
           at # "idle" => WasReviewed(k, Len(editions[k])),
           at \in {"nodes", "edges"} => IsPicture(k, shows) /\ packet[k].edition <= shows.edition,
           at = "nodes" => shows.outcome = editions[k][shows.edition].outcome,
           at = "edges" =>
                IsJoined(k, shows) /\ (packet[k].outcome # "none" => shows.outcome # "none")
    PROVE  LearningInv'
<1>t. LearningShapes /\ UNCHANGED <<cycle, editions, linked, packet, review, seenText>>
    BY DEF LearningInv, PublisherGoes
<1> DEFINE s == [at |-> at, shows |-> shows]
<1>1. s \in PublishState /\ s.at = at /\ s.shows = shows
    BY DEF PublishState
<1>2. publish' = [publish EXCEPT ![q][k] = s]
    BY DEF PublisherGoes
<1> HIDE DEF s
<1>3. LearningShapes'
    BY <1>t, <1>1, <1>2 DEF LearningShapes
<1>4. ASSUME NEW l \in Learnings PROVE EditionsStand(l)' /\ PacketStands(l)'
    BY <1>t DEF LearningInv, EditionsStand, PacketStands, IsPicture, IsJoined, WasReviewed
<1>5. ASSUME NEW p \in Publishers, NEW l \in Learnings PROVE PublishStands(p, l)'
    <2>1. PublishStands(p, l)
        BY DEF LearningInv
    <2>2. publish'[p][l] = IF p = q /\ l = k THEN s ELSE publish[p][l]
        BY <1>t, <1>2 DEF LearningShapes
    <2>3. CASE p = q /\ l = k
        BY <2>3, <2>2, <1>1, <1>t DEF PublishStands, IsPicture, IsJoined, WasReviewed
    <2>4. CASE ~ (p = q /\ l = k)
        BY <2>4, <2>1, <2>2, <1>t DEF PublishStands, IsPicture, IsJoined, WasReviewed
    <2> QED BY <2>3, <2>4
<1> QED BY <1>3, <1>4, <1>5 DEF LearningInv

\* Nobody else has read for a packet that is being written.
LEMMA PacketWritten ==
    ASSUME LearningInv, NEW p \in Publishers, NEW l \in Learnings, WritePacket(p, l)
    PROVE  /\ LearningInv'
           /\ packet'[l].edition >= packet[l].edition
           /\ packet[l].outcome # "none" => packet'[l].outcome # "none"
<1> DEFINE shows == publish[p][l].shows
<1>t. LearningShapes /\ UNCHANGED <<cycle, editions, linked, review, seenText>>
    BY DEF LearningInv, WritePacket, PublisherGoes
<1>1. /\ publish[p][l].at = "edges" /\ shows \in PacketState /\ packet[l] \in PacketState
      /\ \A q \in Publishers \ {p}, k \in Learnings : publish[q][k].at = "idle"
    BY <1>t DEF WritePacket, Alone, Publishing, LearningShapes, PublishState
<1>2. /\ IsPicture(l, shows) /\ IsJoined(l, shows) /\ packet[l].edition <= shows.edition
      /\ packet[l].outcome # "none" => shows.outcome # "none"
    BY <1>1 DEF LearningInv, PublishStands
<1>3. packet' = [packet EXCEPT ![l] = shows] /\ publish' = [publish EXCEPT ![p][l] = NoPublish]
    BY DEF WritePacket, PublisherGoes, NoPublish
<1>4. NoPublish \in PublishState /\ NoPublish.at = "idle"
    BY DEF NoPublish, NoPacket, PublishState, PacketState, Bodies
<1>5. LearningShapes' /\ packet'[l] = shows
    BY <1>t, <1>1, <1>3, <1>4 DEF LearningShapes
<1> HIDE DEF shows
\* The editions are in the order of their wordings.
<1>6. packet[l].text <= shows.text
    <2>1. CASE packet[l] = NoPacket
        BY <2>1, <1>1 DEF NoPacket, PacketState
    <2>2. CASE IsPicture(l, packet[l])
        BY <2>2, <1>2 DEF IsPicture, LearningInv, EditionsStand
    <2> QED BY <2>1, <2>2 DEF LearningInv, PacketStands
<1>7. ASSUME NEW k \in Learnings PROVE EditionsStand(k)' /\ PacketStands(k)'
    <2>0. EditionsStand(k) /\ PacketStands(k)
        BY DEF LearningInv
    <2>1. EditionsStand(k)'
        BY <2>0, <1>t DEF EditionsStand
    <2>2. CASE k = l
        <3>1. \A t \in Targets : seenText'[t][k] <= packet'[k].text
            <4>1. ASSUME NEW t \in Targets PROVE seenText[t][l] <= shows.text
                <5>1. /\ seenText[t][l] \in Nat /\ packet[l].text \in Nat /\ shows.text \in Nat
                      /\ seenText[t][l] <= packet[l].text
                    BY <1>t, <1>1 DEF LearningShapes, PacketState, LearningInv, PacketStands
                <5> QED BY <5>1, <1>6
            <4>2. seenText' = seenText /\ packet'[k].text = shows.text
                BY <1>t, <1>5, <2>2
            <4> QED BY <4>1, <4>2, <2>2
        <3>2. packet'[k] = shows /\ editions' = editions /\ linked' = linked
            BY <2>2, <1>5, <1>t
        <3>3. IsPicture(k, packet[k])' /\ IsJoined(k, packet[k])'
            BY <3>2, <2>2, <1>2 DEF IsPicture, IsJoined, WasReviewed
        <3> QED BY <3>1, <3>3, <2>1 DEF PacketStands
    <2>3. CASE k # l
        <3>1. packet'[k] = packet[k]
            BY <2>3, <1>3, <1>t DEF LearningShapes
        <3> QED BY <2>0, <2>1, <3>1, <1>t DEF PacketStands, IsPicture, IsJoined, WasReviewed
    <2> QED BY <2>1, <2>2, <2>3
<1>8. ASSUME NEW q \in Publishers, NEW k \in Learnings PROVE PublishStands(q, k)'
    <2>0. publish'[q][k] = IF q = p /\ k = l THEN NoPublish ELSE publish[q][k]
        BY <1>3, <1>t DEF LearningShapes
    <2>1. CASE publish'[q][k].at = "idle"
        BY <2>1 DEF PublishStands
    <2>2. CASE publish'[q][k].at # "idle"
        <3>1. publish'[q][k] = publish[q][k] /\ q = p /\ k # l
            BY <2>0, <2>2, <1>1, <1>4
        <3>2. packet'[k] = packet[k] /\ PublishStands(q, k)
            BY <3>1, <1>3, <1>t DEF LearningShapes, LearningInv
        <3> QED BY <3>1, <3>2, <1>t DEF PublishStands, IsPicture, IsJoined, WasReviewed
    <2> QED BY <2>1, <2>2
<1>9. shows.edition \in Nat /\ packet[l].edition \in Nat
    BY <1>1 DEF PacketState
<1> QED BY <1>2, <1>5, <1>7, <1>8, <1>9 DEF LearningInv

LEMMA LearningSteps ==
    ASSUME LearningInv, [LearningNext]_learningVars
    PROVE  LearningInv'
<1>t. /\ LearningShapes /\ \A l \in Learnings : EditionsStand(l) /\ PacketStands(l)
      /\ \A p \in Publishers, l \in Learnings : PublishStands(p, l)
    BY DEF LearningInv
<1>n. /\ "proposed" \in Statuses /\ {"none", "blank", "filled"} = Bodies /\ MaxEditions \in Nat \ {0}
      /\ \A l \in Learnings :
            /\ Len(editions[l]) \in Nat /\ packet[l] \in PacketState
            /\ NodeExists(l) => Len(editions[l]) > 0 /\ Standing(l) \in Nodes
    BY <1>t, LearningAssumption DEF LearningShapes, NodeExists, Standing, Bodies
<1>1. CASE UNCHANGED learningVars
    <2>1. LearningShapes' /\ UNCHANGED <<editions, linked, packet, seenText, publish>>
        BY <1>1, <1>t DEF learningVars, LearningShapes
    <2> QED BY <2>1, LearningRests
<1>2. ASSUME NEW l \in Learnings, NEW d \in BOOLEAN, NEW o \in BOOLEAN, NEW w \in BOOLEAN,
             UpdateCycle(l, d, o, w)
      PROVE  LearningInv'
    <2>1. LearningShapes' /\ UNCHANGED <<editions, linked, packet, seenText, publish>>
        BY <1>2, <1>t DEF UpdateCycle, LearningShapes
    <2> QED BY <2>1, LearningRests
<1>3. ASSUME NEW l \in Learnings, Materialize(l)
      PROVE  LearningInv'
    <2> DEFINE n == [status |-> "proposed", text |-> 1, outcome |-> "filled"]
    <2>1. n \in Nodes /\ n.text = 1
        BY <1>n DEF Nodes
    <2>2. Len(editions[l]) = 0 /\ ~ NodeExists(l) /\ NewEdition(l, n)
        BY <1>3 DEF Materialize, NodeExists
    <2>3. linked \subseteq linked' /\ linked' \subseteq Learnings
        BY <1>3, <1>t DEF Materialize, LearningShapes
    <2> HIDE DEF n
    <2> QED BY <1>n, <2>1, <2>2, <2>3, EditionAdded
<1>4. ASSUME NEW l \in Learnings, NEW status \in Statuses, TypeIn(l, status)
      PROVE  LearningInv'
    <2> DEFINE n == [status |-> status, text |-> 1, outcome |-> "none"]
    <2>1. n \in Nodes /\ n.text = 1
        BY <1>n DEF Nodes
    <2>2. Len(editions[l]) = 0 /\ ~ NodeExists(l) /\ NewEdition(l, n)
        BY <1>4 DEF TypeIn, NodeExists
    <2>3. linked \subseteq linked' /\ linked' \subseteq Learnings
        BY <1>4, <1>t DEF TypeIn, LearningShapes
    <2> HIDE DEF n
    <2> QED BY <1>n, <2>1, <2>2, <2>3, EditionAdded
<1>5. ASSUME NEW l \in Learnings, NEW status \in Statuses, NEW reworded \in BOOLEAN,
             Curate(l, status, reworded)
      PROVE  LearningInv'
    <2> DEFINE text == IF reworded THEN Len(editions[l]) + 1 ELSE Standing(l).text
               n == [Standing(l) EXCEPT !.status = status, !.text = text]
    <2>1. /\ NodeExists(l) /\ Len(editions[l]) < MaxEditions /\ linked' = linked
          /\ NewEdition(l, n)
        BY <1>5 DEF Curate, Editable
    <2>2. Standing(l) \in Nodes /\ Standing(l).text \in 1 .. Len(editions[l])
        BY <2>1, <1>n, <1>t DEF EditionsStand, Standing
    <2>3. text \in 1 .. Len(editions[l]) + 1 /\ Standing(l).text <= text
        BY <2>2, <1>n
    <2> HIDE DEF text
    <2>4. text \in Nat
        BY <2>3, <1>n
    <2>5. n \in Nodes /\ n.text = text /\ n.outcome = Standing(l).outcome
        BY <2>2, <2>4 DEF Nodes
    <2>6. linked \subseteq linked' /\ linked' \subseteq Learnings
        BY <2>1, <1>t DEF LearningShapes
    <2> HIDE DEF n
    <2> QED BY <2>1, <2>3, <2>5, <2>6, EditionAdded
<1>6. ASSUME NEW l \in Learnings, NEW b \in Bodies \ {"none"}, EditOutcome(l, b)
      PROVE  LearningInv'
    <2> DEFINE n == [Standing(l) EXCEPT !.outcome = b]
    <2>1. /\ NodeExists(l) /\ Len(editions[l]) < MaxEditions /\ linked' = linked
          /\ NewEdition(l, n)
        BY <1>6 DEF EditOutcome, Editable
    <2>2. Standing(l) \in Nodes /\ Standing(l).text \in 1 .. Len(editions[l])
        BY <2>1, <1>n, <1>t DEF EditionsStand, Standing
    <2>3. n \in Nodes /\ n.text = Standing(l).text /\ n.outcome = b
        BY <2>2 DEF Nodes
    <2>4. n.text \in 1 .. Len(editions[l]) + 1 /\ Standing(l).text <= n.text
        BY <2>2, <2>3, <1>n
    <2>5. linked \subseteq linked' /\ linked' \subseteq Learnings
        BY <2>1, <1>t DEF LearningShapes
    <2> HIDE DEF n
    <2> QED BY <2>1, <2>3, <2>4, <2>5, EditionAdded
<1>7. ASSUME NEW l \in Learnings, Join(l)
      PROVE  LearningInv'
    <2>1. /\ linked \subseteq linked' /\ linked' \subseteq Learnings
          /\ UNCHANGED <<cycle, editions, packet, review, seenText, publish>>
        BY <1>7, <1>t DEF Join, LearningShapes
    <2>2. ASSUME NEW k \in Learnings
          PROVE  /\ Len(editions[k]) <= Len(editions'[k])
                 /\ \A i \in 1 .. Len(editions[k]) : editions'[k][i] = editions[k][i]
                 /\ EditionsStand(k)'
        BY <2>1, <1>t, <1>n DEF EditionsStand
    <2> QED BY <2>1, <2>2, <1>t, NodesGrow DEF LearningShapes
<1>8. ASSUME NEW p \in Publishers, NEW l \in Learnings, BeginPublish(p, l)
      PROVE  LearningInv'
    <2>1. PublisherGoes(p, l, "checked", NoPacket) /\ packet' = packet /\ NoPacket \in PacketState
        BY <1>8 DEF BeginPublish, NoPacket, PacketState, Bodies
    <2>2. WasReviewed(l, Len(editions[l]))
        BY <1>8, <1>n DEF BeginPublish, Publishable, Standing, WasReviewed
    <2> QED BY <2>1, <2>2, PublisherMoves
<1>9. ASSUME NEW p \in Publishers, NEW l \in Learnings, ReadNodes(p, l)
      PROVE  LearningInv'
    <2> DEFINE s == [edition |-> Len(editions[l]), text |-> Standing(l).text,
                     outcome |-> Standing(l).outcome]
    <2>1. PublisherGoes(p, l, "nodes", s) /\ packet' = packet /\ publish[p][l].at = "checked"
        BY <1>9 DEF ReadNodes
    <2>2. WasReviewed(l, Len(editions[l])) /\ Len(editions[l]) \in 1 .. Len(editions[l])
        BY <2>1, <1>t, <1>n DEF PublishStands, WasReviewed
    <2>3. Standing(l) \in Nodes /\ Standing(l) = editions[l][Len(editions[l])]
        BY <2>2, <1>t DEF LearningShapes, Standing
    <2>4. /\ s \in PacketState /\ s.edition = Len(editions[l])
          /\ s.text = Standing(l).text /\ s.outcome = Standing(l).outcome
        BY <2>3, <1>n DEF Nodes, PacketState
    <2> HIDE DEF s
    <2>5. IsPicture(l, s) /\ s.outcome = editions[l][s.edition].outcome
        BY <2>2, <2>3, <2>4 DEF IsPicture
    <2>6. packet[l].edition <= s.edition
        BY <2>4, <1>n, <1>t DEF PacketStands, IsPicture, NoPacket
    <2> QED BY <2>1, <2>2, <2>4, <2>5, <2>6, PublisherMoves
<1>10. ASSUME NEW p \in Publishers, NEW l \in Learnings, ReadEdges(p, l)
       PROVE  LearningInv'
    <2> DEFINE r == publish[p][l].shows
               outcome == IF l \in linked THEN r.outcome ELSE "none"
               s == [r EXCEPT !.outcome = outcome]
    <2>1. PublisherGoes(p, l, "edges", s) /\ packet' = packet /\ publish[p][l].at = "nodes"
        BY <1>10 DEF ReadEdges
    <2>2. r \in PacketState /\ PublishStands(p, l)
        BY <1>t DEF LearningShapes, PublishState
    <2>3. /\ s \in PacketState /\ s.edition = r.edition /\ s.text = r.text
          /\ s.outcome = IF l \in linked THEN r.outcome ELSE "none"
        BY <2>2, <1>n DEF PacketState
    <2>4. /\ WasReviewed(l, Len(editions[l])) /\ IsPicture(l, r) /\ packet[l].edition <= r.edition
          /\ r.outcome = editions[l][r.edition].outcome
        BY <2>1, <2>2 DEF PublishStands
    <2> HIDE DEF s, outcome, r
    <2>5. IsPicture(l, s) /\ IsJoined(l, s) /\ packet[l].edition <= s.edition
        BY <2>3, <2>4 DEF IsPicture, IsJoined
    <2>6. packet[l].outcome # "none" => s.outcome # "none"
        <3>1. SUFFICES ASSUME packet[l].outcome # "none" PROVE l \in linked /\ r.outcome # "none"
            BY <2>3
        <3>2. /\ IsPicture(l, packet[l]) /\ l \in linked
              /\ editions[l][packet[l].edition].outcome # "none"
            BY <3>1, <1>t DEF PacketStands, NoPacket, IsJoined
        <3> QED BY <3>2, <2>4, <1>t DEF IsPicture, EditionsStand
    <2> QED BY <2>1, <2>3, <2>4, <2>5, <2>6, PublisherMoves
<1>11. ASSUME NEW p \in Publishers, NEW l \in Learnings, GiveUp(p, l)
       PROVE  LearningInv'
    <2>1. PublisherGoes(p, l, "idle", NoPacket) /\ packet' = packet /\ NoPacket \in PacketState
        BY <1>11 DEF GiveUp, NoPacket, PacketState, Bodies
    <2> QED BY <2>1, PublisherMoves
<1>12. ASSUME NEW t \in Targets, NEW l \in Learnings, NEW d \in Dispositions, Review(t, l, d)
       PROVE  LearningInv'
    <2>1. /\ review' = [review EXCEPT ![t][l] = d]
          /\ seenText' = [seenText EXCEPT ![t][l] = packet[l].text]
          /\ UNCHANGED <<cycle, editions, linked, packet, publish>>
        BY <1>12 DEF Review, Shown
    <2>2. LearningShapes' /\ packet[l].text \in Nat
        BY <2>1, <1>t DEF LearningShapes, PacketState
    <2>3. ASSUME NEW k \in Learnings PROVE EditionsStand(k)' /\ PacketStands(k)'
        <3>1. ASSUME NEW u \in Targets PROVE seenText'[u][k] <= packet[k].text
            <4>1. seenText'[u][k] = IF u = t /\ k = l THEN packet[l].text ELSE seenText[u][k]
                BY <2>1, <1>t DEF LearningShapes
            <4> QED BY <4>1, <2>2, <1>t DEF PacketStands
        <3> QED BY <3>1, <2>1, <1>t DEF EditionsStand, PacketStands, IsPicture, IsJoined, WasReviewed
    <2>4. ASSUME NEW p \in Publishers, NEW k \in Learnings PROVE PublishStands(p, k)'
        BY <2>1, <1>t DEF PublishStands, IsPicture, IsJoined, WasReviewed
    <2> QED BY <2>2, <2>3, <2>4 DEF LearningInv
<1>13. ASSUME NEW p \in Publishers, NEW l \in Learnings, WritePacket(p, l)
       PROVE  LearningInv'
    BY <1>13, PacketWritten
<1> QED
    BY <1>1, <1>2, <1>3, <1>4, <1>5, <1>6, <1>7, <1>8, <1>9, <1>10, <1>11, <1>12, <1>13
    DEF LearningNext

LEMMA PacketsGrow ==
    ASSUME LearningInv, [LearningNext]_learningVars, NEW l \in Learnings
    PROVE  /\ packet'[l].edition >= packet[l].edition
           /\ packet[l].outcome # "none" => packet'[l].outcome # "none"
<1>1. packet[l].edition \in Nat /\ packet \in [Learnings -> PacketState]
    BY DEF LearningInv, LearningShapes, PacketState
<1>2. ASSUME NEW p \in Publishers, NEW k \in Learnings, WritePacket(p, k)
      PROVE  /\ packet'[l].edition >= packet[l].edition
             /\ packet[l].outcome # "none" => packet'[l].outcome # "none"
    <2>1. CASE k = l
        BY <2>1, <1>2, PacketWritten
    <2>2. CASE k # l
        <3>1. packet'[l] = packet[l]
            BY <2>2, <1>2, <1>1 DEF WritePacket
        <3> QED BY <3>1, <1>1
    <2> QED BY <2>1, <2>2
<1>3. CASE packet' = packet
    BY <1>1, <1>3
<1> QED BY <1>2, <1>3 DEF LearningNext, learningVars, UpdateCycle, Materialize, TypeIn, Curate,
            EditOutcome, Join, NewEdition, BeginPublish, ReadNodes, ReadEdges, GiveUp, Review

(***************************************************************************)
(* For any learnings, publishers and targets, however many publish one     *)
(* learning while it is edited: a packet shows its nodes as they stood     *)
(* together, no earlier than one accepted, and never goes back to an       *)
(* earlier edition nor loses the outcome it has shown; no target is told a *)
(* wording older than the one it reviewed.                                 *)
(***************************************************************************)
THEOREM PacketsStayFaithful == LearningSpec => PacketsAreFaithful
<1>1. LearningInit => LearningInv
    BY LearningBegins
<1>2. LearningInv /\ [LearningNext]_learningVars => LearningInv'
    BY LearningSteps
<1>3. LearningInv => PacketsArePictures /\ NothingOlderIsTold
    <2>1. LearningInv => PacketsArePictures
        BY DEF LearningInv, PacketsArePictures, PacketStands, IsPicture, IsJoined, WasReviewed, NoPacket
    <2>2. LearningInv => NothingOlderIsTold
        BY DEF LearningInv, NothingOlderIsTold, Inherits, PacketStands
    <2> QED BY <2>1, <2>2
<1>4. LearningInv /\ [LearningNext]_learningVars =>
        [\A l \in Learnings :
            /\ packet'[l].edition >= packet[l].edition
            /\ packet[l].outcome # "none" => packet'[l].outcome # "none"]_learningVars
    BY PacketsGrow
<1> QED BY <1>1, <1>2, <1>3, <1>4, PTL DEF LearningSpec, PacketsAreFaithful, PacketsMoveForward

-----------------------------------------------------------------------------
(***************************************************************************)
(* Invitations.  An acceptance locks its row when it checks it: no two     *)
(* hold the same row, and what they have checked is what is there.         *)
(***************************************************************************)

AcceptanceStands(h) ==
    call[h].kind = "accept" =>
        /\ call[h].at \in Rows
        /\ row[call[h].at].made
        /\ ~ row[call[h].at].accepted /\ ~ row[call[h].at].revoked
        /\ row[call[h].at].token = call[h].token
        /\ \A g \in Calls \ {h} : ~ (call[g].kind = "accept" /\ call[g].at = call[h].at)

InvitationInv ==
    /\ row \in [Rows -> Row]
    /\ member \in Member
    /\ person \in BOOLEAN
    /\ call \in [Calls -> CallContext]
    /\ \A h \in Calls : call[h].kind \in {"resend", "revoke"} => call[h].at \in Rows
    /\ \A h \in Calls : AcceptanceStands(h)

LEMMA NoCallType == NoCall \in CallContext /\ NoMember \in Member /\ NoRow \in Row
BY DEF NoCall, NoMember, NoRow, CallContext, Member, Row, Roles, CallKinds

LEMMA InvitationsBegin == InvitationsInit => InvitationInv
<1> SUFFICES ASSUME InvitationsInit PROVE InvitationInv
    OBVIOUS
<1>1. row \in [Rows -> Row] /\ member \in Member /\ person \in BOOLEAN /\ call \in [Calls -> CallContext]
    BY NoCallType DEF InvitationsInit
<1>2. NoCall.kind = "none"
    BY DEF NoCall
<1>3. \A h \in Calls : call[h].kind = "none"
    BY <1>2 DEF InvitationsInit
<1> QED BY <1>1, <1>3 DEF InvitationInv, AcceptanceStands

\* A call begins, and nothing else changes.
LEMMA CallBegins ==
    ASSUME InvitationInv, NEW h \in Calls, NEW c \in CallContext,
           call' = [call EXCEPT ![h] = c], UNCHANGED <<row, person, member>>,
           c.kind \in {"resend", "revoke"} => c.at \in Rows,
           c.kind = "accept" =>
                /\ c.at \in Rows /\ row[c.at].made
                /\ ~ row[c.at].accepted /\ ~ row[c.at].revoked /\ row[c.at].token = c.token
                /\ ~ LockedRow(c.at)
    PROVE  InvitationInv'
<1>1. call' \in [Calls -> CallContext] /\ call'[h] = c /\ \A g \in Calls \ {h} : call'[g] = call[g]
    BY DEF InvitationInv
<1>2. ASSUME NEW g \in Calls PROVE AcceptanceStands(g)'
    <2>1. CASE g = h
        BY <1>1, <2>1 DEF AcceptanceStands, LockedRow
    <2>2. CASE g # h
        <3>1. AcceptanceStands(g)
            BY DEF InvitationInv
        <3> QED BY <1>1, <2>2, <3>1 DEF AcceptanceStands, LockedRow
    <2> QED BY <2>1, <2>2
<1> QED BY <1>1, <1>2 DEF InvitationInv

\* A call ends, and every row that another acceptance holds is spared.
LEMMA CallEnds ==
    ASSUME InvitationInv, NEW h \in Calls, call' = [call EXCEPT ![h] = NoCall],
           row' \in [Rows -> Row], member' \in Member, person' \in BOOLEAN,
           \A g \in Calls \ {h} : call[g].kind = "accept" =>
                LET i == call[g].at IN
                /\ row'[i].made = row[i].made /\ row'[i].accepted = row[i].accepted
                /\ row'[i].revoked = row[i].revoked /\ row'[i].token = row[i].token
    PROVE  InvitationInv'
<1>1. /\ call' \in [Calls -> CallContext] /\ call'[h] = NoCall
      /\ \A g \in Calls \ {h} : call'[g] = call[g]
    BY NoCallType DEF InvitationInv
<1>2. ASSUME NEW g \in Calls PROVE AcceptanceStands(g)'
    <2>1. CASE g = h
        BY <1>1, <2>1 DEF AcceptanceStands, NoCall
    <2>2. CASE g # h
        <3>1. AcceptanceStands(g) /\ call'[g] = call[g]
            BY <1>1, <2>2 DEF InvitationInv
        <3>2. \A f \in Calls : call'[f].kind = "accept" => call'[f] = call[f]
            BY <1>1 DEF NoCall
        <3> QED BY <2>2, <3>1, <3>2 DEF AcceptanceStands
    <2> QED BY <2>1, <2>2
<1>3. \A g \in Calls : call'[g].kind \in {"resend", "revoke"} => call'[g].at \in Rows
    BY <1>1 DEF InvitationInv, NoCall
<1> QED BY <1>1, <1>2, <1>3 DEF InvitationInv

LEMMA CallsStart ==
    ASSUME InvitationInv, NEW h \in Calls, StartCall(h)
    PROVE  InvitationInv'
<1>t. row \in [Rows -> Row] /\ member \in Member /\ person \in BOOLEAN
    BY DEF InvitationInv
<1>1. ASSUME NEW inviter, NEW role \in Roles, BeginCreate(h, inviter, role)
      PROVE  InvitationInv'
    <2> DEFINE c == [NoCall EXCEPT !.kind = "create", !.role = role,
                    !.others = {i \in Rows : row[i].made /\ Status(row[i]) = "expired"}]
    <2>1. c \in CallContext /\ c.kind = "create"
        BY NoCallType DEF CallContext, NoCall, CallKinds
    <2>2. call' = [call EXCEPT ![h] = c] /\ UNCHANGED <<row, person, member>>
        BY <1>1 DEF BeginCreate, BeginCall
    <2> HIDE DEF c
    <2> QED BY <2>1, <2>2, CallBegins
<1>2. ASSUME NEW inviter, NEW i \in Rows, BeginResend(h, i, inviter)
      PROVE  InvitationInv'
    <2> DEFINE c == [NoCall EXCEPT !.kind = "resend", !.at = i, !.revoked = row[i].revoked]
    <2>1. c \in CallContext /\ c.kind = "resend" /\ c.at = i
        BY NoCallType, <1>t DEF CallContext, NoCall, CallKinds, Row
    <2>2. call' = [call EXCEPT ![h] = c] /\ UNCHANGED <<row, person, member>>
        BY <1>2 DEF BeginResend, BeginCall
    <2> HIDE DEF c
    <2> QED BY <2>1, <2>2, CallBegins
<1>3. ASSUME NEW inviter, NEW i \in Rows, BeginRevoke(h, i, inviter)
      PROVE  InvitationInv'
    <2> DEFINE c == [NoCall EXCEPT !.kind = "revoke", !.at = i]
    <2>1. c \in CallContext /\ c.kind = "revoke" /\ c.at = i
        BY NoCallType DEF CallContext, NoCall, CallKinds
    <2>2. call' = [call EXCEPT ![h] = c] /\ UNCHANGED <<row, person, member>>
        BY <1>3 DEF BeginRevoke, BeginCall
    <2> HIDE DEF c
    <2> QED BY <2>1, <2>2, CallBegins
<1>4. ASSUME NEW t \in Tokens, BeginAccept(h, t)
      PROVE  InvitationInv'
    <2>1. PICK i \in Rows : Held(i, t) /\ BeginCall(h, [NoCall EXCEPT !.kind = "accept", !.at = i,
                              !.token = t, !.role = row[i].role, !.member = member, !.account = person])
        BY <1>4 DEF BeginAccept
    <2> DEFINE c == [NoCall EXCEPT !.kind = "accept", !.at = i,
                              !.token = t, !.role = row[i].role, !.member = member, !.account = person]
    <2>2. c \in CallContext /\ c.kind = "accept" /\ c.at = i /\ c.token = t
        BY NoCallType, <1>t DEF CallContext, NoCall, CallKinds, Row
    <2>3. call' = [call EXCEPT ![h] = c] /\ UNCHANGED <<row, person, member>>
        BY <2>1 DEF BeginCall
    <2>4. ~ LockedRow(i) /\ row[i].token = t /\ row[i].made /\ ~ row[i].accepted /\ ~ row[i].revoked
        BY <2>1 DEF Held, Pending, Status
    <2> HIDE DEF c
    <2> QED BY <2>2, <2>3, <2>4, CallBegins
<1>5. ASSUME NEW role \in Roles, BeginRole(h, role)
      PROVE  InvitationInv'
    <2> DEFINE c == [NoCall EXCEPT !.kind = "role", !.role = role, !.member = member]
    <2>1. c \in CallContext /\ c.kind = "role"
        BY NoCallType, <1>t DEF CallContext, NoCall, CallKinds
    <2>2. call' = [call EXCEPT ![h] = c] /\ UNCHANGED <<row, person, member>>
        BY <1>5 DEF BeginRole, BeginCall
    <2> HIDE DEF c
    <2> QED BY <2>1, <2>2, CallBegins
<1>6. CASE BeginRemove(h)
    <2> DEFINE c == [NoCall EXCEPT !.kind = "remove", !.member = member]
    <2>1. c \in CallContext /\ c.kind = "remove"
        BY NoCallType, <1>t DEF CallContext, NoCall, CallKinds
    <2>2. call' = [call EXCEPT ![h] = c] /\ UNCHANGED <<row, person, member>>
        BY <1>6 DEF BeginRemove, BeginCall
    <2> HIDE DEF c
    <2> QED BY <2>1, <2>2, CallBegins
<1>7. CASE BeginActivate(h)
    <2> DEFINE c == [NoCall EXCEPT !.kind = "activate", !.member = member, !.account = person]
    <2>1. c \in CallContext /\ c.kind = "activate"
        BY NoCallType, <1>t DEF CallContext, NoCall, CallKinds
    <2>2. call' = [call EXCEPT ![h] = c] /\ UNCHANGED <<row, person, member>>
        BY <1>7 DEF BeginActivate, BeginCall
    <2> HIDE DEF c
    <2> QED BY <2>1, <2>2, CallBegins
<1> QED BY <1>1, <1>2, <1>3, <1>4, <1>5, <1>6, <1>7 DEF StartCall

LEMMA CallsStep ==
    ASSUME InvitationInv, NEW h \in Calls, CallStep(h)
    PROVE  InvitationInv'
<1>t. /\ row \in [Rows -> Row] /\ member \in Member /\ person \in BOOLEAN
      /\ call[h] \in CallContext
      /\ \A g \in Calls : AcceptanceStands(g)
    BY DEF InvitationInv
\* Whatever another acceptance holds is made, and locked.
<1>a. \A g \in Calls : call[g].kind = "accept" =>
          call[g].at \in Rows /\ row[call[g].at].made /\ LockedRow(call[g].at)
    BY <1>t DEF AcceptanceStands, LockedRow
<1>1. ASSUME NEW i \in Rows, NEW t \in Tokens, CreateInvitation(h, i, t)
      PROVE  InvitationInv'
    <2> DEFINE new == [NoRow EXCEPT !.made = TRUE, !.token = t, !.role = call[h].role]
    <2>1. new \in Row
        BY <1>t, NoCallType DEF NoRow, Row, CallContext
    <2>2. /\ row' = [j \in Rows |-> IF j = i THEN new
                     ELSE IF j \in call[h].others THEN [row[j] EXCEPT !.revoked = TRUE] ELSE row[j]]
          /\ ~ row[i].made /\ \A j \in call[h].others : ~ LockedRow(j)
          /\ call' = [call EXCEPT ![h] = NoCall] /\ UNCHANGED <<person, member>>
        BY <1>1 DEF CreateInvitation, EndCall
    <2> HIDE DEF new
    <2>3. row' \in [Rows -> Row]
        BY <2>1, <2>2, <1>t DEF Row
    <2>4. \A g \in Calls : call[g].kind = "accept" => row'[call[g].at] = row[call[g].at]
        BY <2>2, <1>a
    <2> QED BY <2>2, <2>3, <2>4, <1>t, CallEnds
<1>2. ASSUME NEW t \in Tokens, Resend(h, t)
      PROVE  InvitationInv'
    <2>1. /\ call[h].at \in Rows /\ ~ LockedRow(call[h].at)
          /\ row' = [row EXCEPT ![call[h].at].token = t,
                    ![call[h].at].revoked = @ /\ ~ call[h].revoked, ![call[h].at].late = FALSE]
          /\ call' = [call EXCEPT ![h] = NoCall] /\ UNCHANGED <<person, member>>
        BY <1>2 DEF Resend, EndCall, InvitationInv
    <2>2. row' \in [Rows -> Row]
        BY <2>1, <1>t DEF Row, CallContext
    <2>3. \A g \in Calls : call[g].kind = "accept" => row'[call[g].at] = row[call[g].at]
        BY <2>1, <1>a, <1>t
    <2> QED BY <2>1, <2>2, <2>3, <1>t, CallEnds
<1>3. CASE RevokeInvitation(h)
    <2>1. /\ call[h].at \in Rows /\ ~ LockedRow(call[h].at)
          /\ row' = [row EXCEPT ![call[h].at].revoked = TRUE]
          /\ call' = [call EXCEPT ![h] = NoCall] /\ UNCHANGED <<person, member>>
        BY <1>3 DEF RevokeInvitation, EndCall, InvitationInv
    <2>2. row' \in [Rows -> Row]
        BY <2>1, <1>t DEF Row
    <2>3. \A g \in Calls : call[g].kind = "accept" => row'[call[g].at] = row[call[g].at]
        BY <2>1, <1>a, <1>t
    <2> QED BY <2>1, <2>2, <2>3, <1>t, CallEnds
<1>4. CASE Accept(h)
    <2>1. /\ call[h].kind = "accept" /\ person' = TRUE /\ member' = JoinedOnce(h)
          /\ row' = [row EXCEPT ![call[h].at].accepted = TRUE]
          /\ call' = [call EXCEPT ![h] = NoCall]
        BY <1>4 DEF Accept, EndCall
    <2>2. member' \in Member
        BY <2>1, <1>t DEF JoinedOnce, Joined, Member, CallContext
    <2>3. row' \in [Rows -> Row]
        BY <2>1, <1>t DEF Row
    <2>4. \A g \in Calls \ {h} : call[g].kind = "accept" => call[g].at # call[h].at
        BY <2>1, <1>t DEF AcceptanceStands
    <2>5. \A g \in Calls \ {h} : call[g].kind = "accept" => row'[call[g].at] = row[call[g].at]
        BY <2>1, <2>4, <1>a, <1>t
    <2> QED BY <2>1, <2>2, <2>3, <2>5, CallEnds
<1>5. ASSUME ChangeRole(h) \/ RemoveMember(h) \/ Activate(h) \/ FailCall(h)
      PROVE  InvitationInv'
    <2>1. call' = [call EXCEPT ![h] = NoCall] /\ row' = row
        BY <1>5 DEF ChangeRole, RemoveMember, Activate, FailCall, EndCall
    <2>2. person' \in BOOLEAN
        BY <1>5, <1>t DEF ChangeRole, RemoveMember, Activate, FailCall
    <2>3. member' \in Member
        <3>1. CASE ChangeRole(h)
            BY <3>1, <1>t DEF ChangeRole, Member, CallContext
        <3>2. CASE RemoveMember(h)
            BY <3>2, <1>t DEF RemoveMember, Member
        <3>3. CASE Activate(h)
            BY <3>3, <1>t DEF Activate, Joined, Member, Roles
        <3>4. CASE FailCall(h)
            BY <3>4, <1>t DEF FailCall
        <3> QED BY <1>5, <3>1, <3>2, <3>3, <3>4
    <2> QED BY <2>1, <2>2, <2>3, <1>t, CallEnds
<1> QED BY <1>1, <1>2, <1>3, <1>4, <1>5 DEF CallStep

LEMMA InvitationSteps ==
    ASSUME InvitationInv, [InvitationsNext]_invitationVars
    PROVE  InvitationInv'
<1>1. CASE UNCHANGED <<row, person, member, call>>
    BY <1>1 DEF InvitationInv, AcceptanceStands
<1>2. CASE UNCHANGED invitationVars \/ LoseTasks \/ \E m \in mails : Deliver(m)
    BY <1>1, <1>2 DEF invitationVars, LoseTasks, Deliver, LookBeforeMail, Mail
<1>3. ASSUME NEW h \in Calls, StartCall(h) \/ CallStep(h) PROVE InvitationInv'
    BY <1>3, CallsStart, CallsStep
<1>4. ASSUME NEW i \in Rows, ExpireInvitation(i) PROVE InvitationInv'
    <2>1. /\ row' = [row EXCEPT ![i].late = TRUE] /\ UNCHANGED <<person, member, call>>
          /\ row \in [Rows -> Row]
        BY <1>4 DEF ExpireInvitation, InvitationInv
    <2>2. row' \in [Rows -> Row]
        BY <2>1 DEF Row
    <2>3. \A j \in Rows : row'[j].made = row[j].made /\ row'[j].accepted = row[j].accepted
                          /\ row'[j].revoked = row[j].revoked /\ row'[j].token = row[j].token
        BY <2>1 DEF Row
    <2>4. ASSUME NEW g \in Calls PROVE AcceptanceStands(g)'
        <3>1. AcceptanceStands(g)
            BY DEF InvitationInv
        <3> QED BY <2>1, <2>3, <3>1 DEF AcceptanceStands
    <2> QED BY <2>1, <2>2, <2>4 DEF InvitationInv
<1> QED BY <1>2, <1>3, <1>4 DEF InvitationsNext

\* Only an acceptance counts as one, and it leaves a member as it is.
LEMMA AcceptancesSpareMembers ==
    ASSUME [InvitationsNext]_invitationVars, admitted' # admitted, IsMember
    PROVE  member' = member
<1>1. PICK h \in Calls : Accept(h)
    <2>1. ~ UNCHANGED invitationVars
        BY DEF invitationVars
    <2>2. ASSUME NEW h \in Calls, CallStep(h) PROVE Accept(h)
        BY <2>2 DEF CallStep, CreateInvitation, Resend, RevokeInvitation, ChangeRole,
                    RemoveMember, Activate, FailCall
    <2>3. ASSUME NEW h \in Calls, StartCall(h) PROVE FALSE
        BY <2>3 DEF StartCall, BeginCreate, BeginResend, BeginRevoke, BeginAccept, BeginRole,
                    BeginRemove, BeginActivate, BeginCall
    <2>4. ~ LoseTasks /\ ~ (\E m \in mails : Deliver(m)) /\ ~ (\E i \in Rows : ExpireInvitation(i))
        BY DEF LoseTasks, Deliver, LookBeforeMail, Mail, ExpireInvitation
    <2> QED BY <2>1, <2>2, <2>3, <2>4 DEF InvitationsNext
<1> QED BY <1>1 DEF Accept, KeysAreFree, JoinedOnce

(***************************************************************************)
(* For any calls, rows and tokens: an invitation is accepted as it stood   *)
(* when it was checked, and an acceptance never changes a member's role.   *)
(***************************************************************************)
THEOREM InvitationsStand == InvitationsSpec => InvitationsAreKept
<1>1. InvitationsInit => InvitationInv
    BY InvitationsBegin
<1>2. InvitationInv /\ [InvitationsNext]_invitationVars => InvitationInv'
    BY InvitationSteps
<1>3. InvitationInv =>
        [\A h \in Calls :
            LET i == call[h].at IN
            call[h].kind = "accept" /\ admitted' # admitted /\ call'[h].kind = "none" =>
                /\ ~ row[i].accepted
                /\ ~ row[i].revoked
                /\ row[i].token = call[h].token]_invitationVars
    BY DEF InvitationInv, AcceptanceStands
<1>4. [InvitationsNext]_invitationVars =>
        [admitted' # admitted /\ IsMember => member' = member]_invitationVars
    BY AcceptancesSpareMembers
<1> QED BY <1>1, <1>2, <1>3, <1>4, PTL
        DEF InvitationsSpec, InvitationsAreKept, AcceptedAsChecked, RolesSurviveAcceptance

-----------------------------------------------------------------------------
(***************************************************************************)
(* Access to an account.  As long as no change overwrites one it has not   *)
(* read, auth_version counts the changes; and a link a request is about to *)
(* use is neither used nor revoked, because whoever could spend or replace *)
(* it waits for that request.                                              *)
(***************************************************************************)

\* What a request holds suits its kind, and is still worth something.
RequestStands(h) ==
    LET c == ctx[h]
    IN  /\ c.kind \in {"reset", "request"} => c.secret \in Links
        /\ c.kind \in {"pilot", "pilotRequest"} => c.secret \in PilotLinks
        /\ c.kind \in {"recover", "activate"} => c.secret \in Keys
        /\ c.kind \in {"state", "register", Idle} => c.secret = NoSecret
        /\ c.kind \in {"reset", "pilot"} => link[c.secret] \notin {"used", "revoked"}
        /\ c.kind \in {"reset", "pilot", "recover", "state"} => account.exists
        /\ c.read.exists => account.exists

\* One request at a time holds the lock of a link.
LocksAreOwn ==
    \A h, g \in Requests :
        ctx[h].kind = "reset" /\ ctx[g].kind = "reset" /\ ctx[h].secret = ctx[g].secret
            => h = g

\* The version counts the changes, and a session carries the one it was
\* signed in.
VersionsCount ==
    /\ ~ account.exists => account.version = 1 /\ account.era = 0
    /\ ~ overlap =>
        /\ account.version = account.era + 1
        /\ \A s \in sessions : s.version = s.era + 1

AccessInv ==
    /\ AccessTypes
    /\ \A h \in Requests : RequestStands(h)
    /\ LocksAreOwn
    /\ VersionsCount

LEMMA AccessBeginsSound == Init => AccessInv
<1> SUFFICES ASSUME Init PROVE AccessInv
    OBVIOUS
<1>1. NoAccount \in Account /\ NoContext \in Context /\ NoContext.kind = Idle
      /\ NoContext.secret = NoSecret /\ ~ NoContext.read.exists
    BY DEF NoAccount, NoContext, Account, Context, Idle
<1>2. /\ account \in Account /\ account.version = 1 /\ account.era = 0
    <2>1. \/ account = NoAccount
          \/ account = [exists |-> TRUE, active |-> TRUE, version |-> 1, era |-> 0]
        BY DEF Init
    <2>2. CASE account = NoAccount
        BY <2>2 DEF Account, NoAccount
    <2>3. CASE account = [exists |-> TRUE, active |-> TRUE, version |-> 1, era |-> 0]
        BY <2>3 DEF Account
    <2> QED BY <2>1, <2>2, <2>3
<1>3. AccessTypes
    BY <1>1, <1>2 DEF Init, AccessTypes, LinkStates, Secrets
<1>4. \A h \in Requests : ctx[h] = NoContext
    BY DEF Init
<1>5. \A h \in Requests : RequestStands(h)
    BY <1>1, <1>4 DEF RequestStands, Idle
<1>6. LocksAreOwn /\ VersionsCount
    BY <1>1, <1>2, <1>4 DEF LocksAreOwn, VersionsCount, Idle, Init
<1> QED BY <1>3, <1>5, <1>6 DEF AccessInv

\* A request begins: it has read the account and, for a reset, has the lock.
LEMMA RequestBegins ==
    ASSUME AccessInv, NEW h \in Requests, NEW kind \in Kinds, NEW secret, NEW others,
           Begin(h, kind, secret, others),
           secret \in Secrets \cup {NoSecret}, others \in SUBSET Links,
           kind \in {"reset", "request"} => secret \in Links,
           kind \in {"pilot", "pilotRequest"} => secret \in PilotLinks,
           kind \in {"recover", "activate"} => secret \in Keys,
           kind \in {"state", "register"} => secret = NoSecret,
           kind \in {"reset", "pilot"} => link[secret] = "open",
           kind \in {"reset", "pilot", "recover", "state"} => account.exists,
           kind = "reset" => ~ Locked(secret)
    PROVE  AccessInv'
<1> DEFINE c == [kind |-> kind, secret |-> secret, read |-> account, others |-> others]
<1>1. /\ ctx' = [ctx EXCEPT ![h] = c]
      /\ UNCHANGED <<account, link, spent, sessions, uses, overlap>>
    BY DEF Begin
<1>2. c \in Context /\ c.kind = kind /\ c.secret = secret /\ c.read = account
    BY DEF Context, AccessInv, AccessTypes
<1>3. /\ ctx' \in [Requests -> Context] /\ ctx'[h] = c
      /\ \A g \in Requests \ {h} : ctx'[g] = ctx[g]
    BY <1>1, <1>2 DEF AccessInv, AccessTypes
<1> HIDE DEF c
<1>4. AccessTypes'
    BY <1>1, <1>3 DEF AccessInv, AccessTypes
<1>5. ASSUME NEW g \in Requests PROVE RequestStands(g)'
    <2>1. CASE g = h
        BY <1>1, <1>2, <1>3, <2>1 DEF RequestStands, Kinds, Idle
    <2>2. CASE g # h
        BY <1>1, <1>3, <2>2 DEF RequestStands, AccessInv
    <2> QED BY <2>1, <2>2
<1>6. LocksAreOwn'
    <2> SUFFICES ASSUME NEW f \in Requests, NEW g \in Requests,
                        ctx'[f].kind = "reset", ctx'[g].kind = "reset",
                        ctx'[f].secret = ctx'[g].secret, f # g
                 PROVE  FALSE
        BY DEF LocksAreOwn
    <2>1. CASE f # h /\ g # h
        BY <1>3, <2>1 DEF AccessInv, LocksAreOwn
    <2>2. ASSUME NEW r \in Requests \ {h}, ctx[r].kind = "reset", ctx[r].secret = secret,
                 kind = "reset"
          PROVE  FALSE
        <3>1. Active(r)
            BY <2>2 DEF Active, Idle
        <3>2. Locked(secret)
            BY <2>2, <3>1 DEF Locked
        <3> QED BY <2>2, <3>2
    <2>3. CASE f = h
        BY <1>2, <1>3, <2>2, <2>3
    <2>4. CASE g = h
        BY <1>2, <1>3, <2>2, <2>4
    <2> QED BY <2>1, <2>3, <2>4
<1>7. VersionsCount'
    BY <1>1 DEF AccessInv, VersionsCount
<1> QED BY <1>4, <1>5, <1>6, <1>7 DEF AccessInv

LEMMA RequestsStart ==
    ASSUME AccessInv, NEW h \in Requests, Start(h)
    PROVE  AccessInv'
<1>t. Links \subseteq Secrets /\ PilotLinks \subseteq Secrets /\ Keys \subseteq Secrets
      /\ Recoveries \subseteq Keys /\ Activations \subseteq Keys
    BY DEF Secrets, Keys
<1>u. Unsettled \in SUBSET Links
    BY DEF Unsettled
<1> USE DEF Kinds
<1>1. ASSUME NEW l \in Links, BeginReset(h, l) PROVE AccessInv'
    <2>1. Begin(h, "reset", l, Unsettled \ {l}) /\ ~ Locked(l) /\ link[l] = "open" /\ account.exists
        BY <1>1 DEF BeginReset, ReadLocked, Usable
    <2>2. Unsettled \ {l} \in SUBSET Links
        BY <1>u
    <2> QED BY <1>t, <2>1, <2>2, RequestBegins
<1>2. ASSUME NEW l \in PilotLinks, BeginPilotReset(h, l) PROVE AccessInv'
    <2>1. Begin(h, "pilot", l, {}) /\ link[l] = "open" /\ account.exists
        BY <1>2 DEF BeginPilotReset, Usable
    <2> QED BY <1>t, <2>1, RequestBegins
<1>3. ASSUME NEW k \in Recoveries, BeginRecovery(h, k) PROVE AccessInv'
    <2>1. Begin(h, "recover", k, {}) /\ account.exists /\ k \in Keys
        BY <1>3, <1>t DEF BeginRecovery, Usable
    <2> QED BY <1>t, <2>1, RequestBegins
<1>4. ASSUME NEW k \in Activations, BeginActivation(h, k) PROVE AccessInv'
    <2>1. Begin(h, "activate", k, {}) /\ k \in Keys
        BY <1>4, <1>t DEF BeginActivation
    <2> QED BY <1>t, <2>1, RequestBegins
<1>5. ASSUME NEW l \in Links, BeginRequest(h, l) PROVE AccessInv'
    <2>1. Begin(h, "request", l, Unsettled)
        BY <1>5 DEF BeginRequest
    <2> QED BY <1>t, <1>u, <2>1, RequestBegins
<1>6. ASSUME NEW l \in PilotLinks, BeginPilotRequest(h, l) PROVE AccessInv'
    <2>1. Begin(h, "pilotRequest", l, {})
        BY <1>6 DEF BeginPilotRequest
    <2> QED BY <1>t, <2>1, RequestBegins
<1>7. CASE BeginState(h)
    <2>1. Begin(h, "state", NoSecret, {}) /\ account.exists
        BY <1>7 DEF BeginState
    <2> QED BY <2>1, RequestBegins
<1>8. CASE BeginRegister(h)
    <2>1. Begin(h, "register", NoSecret, {})
        BY <1>8 DEF BeginRegister
    <2> QED BY <2>1, RequestBegins
<1> QED BY <1>1, <1>2, <1>3, <1>4, <1>5, <1>6, <1>7, <1>8 DEF Start

\* A request ends: it has spared the links that others are about to use.
LEMMA RequestEnds ==
    ASSUME AccessInv, NEW h \in Requests, Finish(h),
           account' \in Account, account.exists => account'.exists,
           link' \in [Links \cup PilotLinks -> LinkStates],
           \A g \in Requests \ {h} : ctx[g].kind \in {"reset", "pilot"}
                => link'[ctx[g].secret] \notin {"used", "revoked"},
           spent' \in SUBSET Keys, sessions' \in SUBSET [version : Nat, era : Nat],
           uses' \in [Secrets -> Nat], overlap' \in BOOLEAN,
           \A k \in Keys : uses'[k] = IF k \in spent' THEN 1 ELSE 0,
           VersionsCount'
    PROVE  AccessInv'
<1>1. NoContext \in Context /\ NoContext.kind = Idle
      /\ NoContext.secret = NoSecret /\ ~ NoContext.read.exists
    BY DEF NoAccount, NoContext, Account, Context, Idle
<1>2. /\ ctx' \in [Requests -> Context] /\ ctx'[h] = NoContext
      /\ \A g \in Requests \ {h} : ctx'[g] = ctx[g]
    BY <1>1 DEF Finish, AccessInv, AccessTypes
<1>3. AccessTypes'
    BY <1>2 DEF AccessTypes
<1>4. ASSUME NEW g \in Requests PROVE RequestStands(g)'
    <2>1. CASE g = h
        BY <1>1, <1>2, <2>1 DEF RequestStands, Idle
    <2>2. CASE g # h
        <3>1. RequestStands(g) /\ ctx'[g] = ctx[g]
            BY <1>2, <2>2 DEF AccessInv
        <3> QED BY <2>2, <3>1 DEF RequestStands
    <2> QED BY <2>1, <2>2
<1>5. LocksAreOwn'
    <2>1. \A g \in Requests : ctx'[g].kind = "reset" => ctx'[g] = ctx[g]
        BY <1>1, <1>2 DEF Idle
    <2> QED BY <2>1 DEF AccessInv, LocksAreOwn
<1> QED BY <1>3, <1>4, <1>5 DEF AccessInv

\* Whoever changes the account advances its version, from what it has read.
LEMMA ChangeCounts ==
    ASSUME AccessInv, NEW h \in Requests, NEW active \in BOOLEAN, Write(h, active),
           sessions' = sessions
    PROVE  /\ account' \in Account /\ account'.exists /\ overlap' \in BOOLEAN
           /\ VersionsCount'
           /\ uses' \in [Secrets -> Nat]
           /\ \A s \in Secrets : uses'[s] = IF s = ctx[h].secret THEN uses[s] + 1 ELSE uses[s]
<1>1. ctx[h].read \in Account /\ account \in Account /\ overlap \in BOOLEAN /\ uses \in [Secrets -> Nat]
    BY DEF AccessInv, AccessTypes, Context
<1>2. /\ account' = [exists |-> TRUE, active |-> active,
                     version |-> ctx[h].read.version + 1, era |-> account.era + 1]
      /\ overlap' = (overlap \/ ctx[h].read # account)
    BY DEF Write, NextVersion
<1>3. account' \in Account /\ account'.exists
    BY <1>1, <1>2 DEF Account
<1>4. VersionsCount'
    <2>1. ASSUME ~ overlap'
          PROVE  account'.version = account'.era + 1 /\ \A s \in sessions : s.version = s.era + 1
        <3>1. ~ overlap /\ ctx[h].read = account
            BY <1>2, <2>1
        <3>2. account.version = account.era + 1 /\ \A s \in sessions : s.version = s.era + 1
            BY <3>1 DEF AccessInv, VersionsCount
        <3> QED BY <1>1, <1>2, <3>1, <3>2 DEF Account
    <2> QED BY <1>3, <2>1 DEF VersionsCount
<1>5. uses' \in [Secrets -> Nat]
      /\ \A s \in Secrets : uses'[s] = IF s = ctx[h].secret THEN uses[s] + 1 ELSE uses[s]
    BY <1>1 DEF Write
<1> QED BY <1>1, <1>2, <1>3, <1>4, <1>5

\* While a request may write, no reset or pilot reset holds a link that it
\* replaces.
LEMMA HeldLinksAreSpared ==
    ASSUME AccessInv, NEW h \in Requests, CanWrite(h), NEW g \in Requests \ {h},
           ctx[g].kind \in {"reset", "pilot"}
    PROVE  /\ ctx[h].kind \in {"reset", "request"} /\ ctx[g].kind = "reset"
                => ctx[g].secret \notin ctx[h].others
           /\ ctx[h].kind \in {"pilot", "pilotRequest"} => ctx[g].kind = "reset"
           /\ ctx[g].secret \in Links \cup PilotLinks
           /\ ctx[g].kind = "reset" => ctx[g].secret \in Links \ PilotLinks
           /\ ctx[g].kind = "pilot" => ctx[g].secret \in PilotLinks \ Links
           /\ link[ctx[g].secret] \notin {"used", "revoked"}
<1>1. RequestStands(g) /\ Active(g)
    BY DEF AccessInv, Active, Idle
<1>2. ctx[h].kind \in {"pilot", "pilotRequest"} => h \in Sharing
    BY DEF Sharing, Active, Idle
<1>3. ctx[g].kind = "pilot" => g \in Sharing
    BY <1>1 DEF Sharing
<1>4. ~ WaitsFor(h, g)
    BY DEF CanWrite
<1> QED BY <1>1, <1>2, <1>3, <1>4, AccessAssumption DEF WaitsFor, RequestStands

LEMMA ResetsConfirm ==
    ASSUME AccessInv, NEW h \in Requests, ConfirmReset(h)
    PROVE  /\ AccessInv'
           /\ \A s \in Secrets : Dead(s) => uses'[s] = uses[s]
<1> DEFINE l == ctx[h].secret
<1>1. /\ account.active \in BOOLEAN /\ link \in [Links \cup PilotLinks -> LinkStates]
      /\ spent \in SUBSET Keys /\ sessions \in SUBSET [version : Nat, era : Nat]
      /\ ctx[h].others \in SUBSET Links
      /\ l \in Links /\ l \notin Keys /\ link[l] \notin {"used", "revoked"}
    BY AccessAssumption DEF AccessInv, AccessTypes, Account, Context, RequestStands, ConfirmReset
<1>2. /\ Write(h, account.active) /\ Finish(h) /\ CanWrite(h) /\ ctx[h].kind = "reset"
      /\ sessions' = sessions /\ spent' = spent
    BY DEF ConfirmReset
<1>3. /\ account' \in Account /\ account'.exists /\ overlap' \in BOOLEAN /\ VersionsCount'
      /\ uses' \in [Secrets -> Nat]
      /\ \A s \in Secrets : uses'[s] = IF s = l THEN uses[s] + 1 ELSE uses[s]
    BY <1>1, <1>2, ChangeCounts
<1>4. /\ link' \in [Links \cup PilotLinks -> LinkStates]
      /\ \A k \in Links \cup PilotLinks :
            link'[k] = IF k = l THEN "used" ELSE Revoke(ctx[h].others, k)
    BY <1>1 DEF ConfirmReset, LinkStates, Revoke
<1>5. ASSUME NEW g \in Requests \ {h}, ctx[g].kind \in {"reset", "pilot"}
      PROVE  link'[ctx[g].secret] \notin {"used", "revoked"}
    <2>1. ctx[g].secret # l
        <3>1. CASE ctx[g].kind = "reset"
            BY <1>2, <1>5, <3>1 DEF AccessInv, LocksAreOwn
        <3>2. CASE ctx[g].kind = "pilot"
            BY <1>1, <1>2, <1>5, <3>2, HeldLinksAreSpared
        <3> QED BY <1>5, <3>1, <3>2
    <2>2. /\ ctx[g].secret \notin ctx[h].others /\ ctx[g].secret \in Links \cup PilotLinks
          /\ link[ctx[g].secret] \notin {"used", "revoked"}
        BY <1>1, <1>2, <1>5, HeldLinksAreSpared
    <2> QED BY <1>4, <2>1, <2>2 DEF Revoke
<1>6. \A k \in Keys : uses'[k] = IF k \in spent' THEN 1 ELSE 0
    <2>1. Keys \subseteq Secrets
        BY DEF Secrets
    <2> QED BY <1>1, <1>2, <1>3, <2>1 DEF AccessInv, AccessTypes
<1>7. AccessInv'
    BY <1>1, <1>2, <1>3, <1>4, <1>5, <1>6, RequestEnds
<1>8. ~ Dead(l)
    BY <1>1 DEF Dead
<1> QED BY <1>3, <1>7, <1>8

LEMMA PilotResetsConfirm ==
    ASSUME AccessInv, NEW h \in Requests, ConfirmPilotReset(h)
    PROVE  /\ AccessInv'
           /\ \A s \in Secrets : Dead(s) => uses'[s] = uses[s]
<1> DEFINE l == ctx[h].secret
<1>1. /\ account.active \in BOOLEAN /\ link \in [Links \cup PilotLinks -> LinkStates]
      /\ spent \in SUBSET Keys /\ sessions \in SUBSET [version : Nat, era : Nat]
      /\ l \in PilotLinks /\ l \notin Keys /\ link[l] \notin {"used", "revoked"}
    BY AccessAssumption
        DEF AccessInv, AccessTypes, Account, RequestStands, ConfirmPilotReset
<1>2. /\ Write(h, account.active) /\ Finish(h) /\ CanWrite(h) /\ ctx[h].kind = "pilot"
      /\ sessions' = sessions /\ spent' = spent
    BY DEF ConfirmPilotReset
<1>3. /\ account' \in Account /\ account'.exists /\ overlap' \in BOOLEAN /\ VersionsCount'
      /\ uses' \in [Secrets -> Nat]
      /\ \A s \in Secrets : uses'[s] = IF s = l THEN uses[s] + 1 ELSE uses[s]
    BY <1>1, <1>2, ChangeCounts
<1>4. link' = [link EXCEPT ![l] = "used"] /\ link' \in [Links \cup PilotLinks -> LinkStates]
    BY <1>1 DEF ConfirmPilotReset, LinkStates
<1>5. ASSUME NEW g \in Requests \ {h}, ctx[g].kind \in {"reset", "pilot"}
      PROVE  link'[ctx[g].secret] \notin {"used", "revoked"}
    <2>1. /\ ctx[g].kind = "reset" /\ ctx[g].secret \in Links \ PilotLinks
          /\ link[ctx[g].secret] \notin {"used", "revoked"}
        BY <1>2, <1>5, HeldLinksAreSpared
    <2> QED BY <1>1, <1>4, <2>1
<1>6. \A k \in Keys : uses'[k] = IF k \in spent' THEN 1 ELSE 0
    <2>1. Keys \subseteq Secrets
        BY DEF Secrets
    <2> QED BY <1>1, <1>2, <1>3, <2>1 DEF AccessInv, AccessTypes
<1>7. AccessInv'
    BY <1>1, <1>2, <1>3, <1>4, <1>5, <1>6, RequestEnds
<1>8. ~ Dead(l)
    BY <1>1 DEF Dead
<1> QED BY <1>3, <1>7, <1>8

\* A key of the environment changes the account once.
LEMMA KeysChange ==
    ASSUME AccessInv, NEW h \in Requests, NEW active \in BOOLEAN, Write(h, active),
           Finish(h), ctx[h].secret \in Keys, ctx[h].secret \notin spent,
           spent' = spent \cup {ctx[h].secret}, UNCHANGED <<link, sessions>>
    PROVE  /\ AccessInv'
           /\ \A s \in Secrets : Dead(s) => uses'[s] = uses[s]
<1> DEFINE k == ctx[h].secret
<1>1. /\ link \in [Links \cup PilotLinks -> LinkStates]
      /\ spent \in SUBSET Keys /\ sessions \in SUBSET [version : Nat, era : Nat]
    BY DEF AccessInv, AccessTypes
<1>2. /\ account' \in Account /\ account'.exists /\ overlap' \in BOOLEAN /\ VersionsCount'
      /\ uses' \in [Secrets -> Nat]
      /\ \A s \in Secrets : uses'[s] = IF s = k THEN uses[s] + 1 ELSE uses[s]
    BY ChangeCounts
<1>3. \A g \in Requests \ {h} : ctx[g].kind \in {"reset", "pilot"}
        => link'[ctx[g].secret] \notin {"used", "revoked"}
    BY DEF AccessInv, RequestStands
<1>4. \A j \in Keys : uses'[j] = IF j \in spent' THEN 1 ELSE 0
    <2>1. Keys \subseteq Secrets
        BY DEF Secrets
    <2> QED BY <1>2, <2>1 DEF AccessInv, AccessTypes
<1>5. AccessInv'
    BY <1>1, <1>2, <1>3, <1>4, RequestEnds
<1>6. ~ Dead(k)
    BY DEF Dead
<1> QED BY <1>2, <1>5, <1>6

\* An administrator's change uses no secret.
LEMMA StatesChange ==
    ASSUME AccessInv, NEW h \in Requests, NEW active \in BOOLEAN, ChangeState(h, active)
    PROVE  /\ AccessInv'
           /\ \A s \in Secrets : Dead(s) => uses'[s] = uses[s]
<1>1. /\ link \in [Links \cup PilotLinks -> LinkStates]
      /\ spent \in SUBSET Keys /\ sessions \in SUBSET [version : Nat, era : Nat]
      /\ ctx[h].secret = NoSecret
    BY DEF AccessInv, AccessTypes, ChangeState, RequestStands
<1>2. Write(h, active) /\ Finish(h) /\ UNCHANGED <<link, spent, sessions>>
    BY DEF ChangeState
<1>3. /\ account' \in Account /\ account'.exists /\ overlap' \in BOOLEAN /\ VersionsCount'
      /\ uses' \in [Secrets -> Nat]
      /\ \A s \in Secrets : uses'[s] = IF s = ctx[h].secret THEN uses[s] + 1 ELSE uses[s]
    BY <1>2, ChangeCounts
<1>4. \A s \in Secrets : uses'[s] = uses[s]
    BY <1>1, <1>3, AccessAssumption
<1>5. \A g \in Requests \ {h} : ctx[g].kind \in {"reset", "pilot"}
        => link'[ctx[g].secret] \notin {"used", "revoked"}
    BY <1>2 DEF AccessInv, RequestStands
<1>6. \A j \in Keys : uses'[j] = IF j \in spent' THEN 1 ELSE 0
    <2>1. Keys \subseteq Secrets
        BY DEF Secrets
    <2> QED BY <1>2, <1>4, <2>1 DEF AccessInv, AccessTypes
<1>7. AccessInv'
    BY <1>1, <1>2, <1>3, <1>5, <1>6, RequestEnds
<1> QED BY <1>4, <1>7

\* A new account has the version it was given, and no session of another.
LEMMA AccountsAreMade ==
    ASSUME AccessInv, NEW h \in Requests, Create(h),
           \/ ctx[h].kind = "activate" /\ ctx[h].secret \notin spent
                /\ spent' = spent \cup {ctx[h].secret}
                /\ uses' = [uses EXCEPT ![ctx[h].secret] = @ + 1]
                /\ UNCHANGED sessions
           \/ UNCHANGED <<spent, uses>>
                /\ sessions' \in {sessions, sessions \cup {[version |-> 1, era |-> account.era]}}
    PROVE  /\ AccessInv'
           /\ \A s \in Secrets : Dead(s) => uses'[s] = uses[s]
<1>1. /\ link \in [Links \cup PilotLinks -> LinkStates] /\ uses \in [Secrets -> Nat]
      /\ spent \in SUBSET Keys /\ sessions \in SUBSET [version : Nat, era : Nat]
      /\ overlap \in BOOLEAN /\ account \in Account
      /\ ctx[h].kind = "activate" => ctx[h].secret \in Keys
      /\ \A k \in Keys : uses[k] = IF k \in spent THEN 1 ELSE 0
    BY DEF AccessInv, AccessTypes, RequestStands
<1>2. /\ Finish(h) /\ ~ account.exists /\ UNCHANGED <<link, overlap>>
      /\ account' = [account EXCEPT !.exists = TRUE, !.active = TRUE]
    BY DEF Create
<1>3. account.version = 1 /\ account.era = 0
    BY <1>2 DEF AccessInv, VersionsCount
<1>4. account' \in Account /\ account'.exists /\ account'.version = 1 /\ account'.era = 0
    BY <1>1, <1>2, <1>3 DEF Account
<1>5. sessions' \in SUBSET [version : Nat, era : Nat]
      /\ \A s \in sessions' : s \in sessions \/ (s.version = 1 /\ s.era = 0)
    <2> DEFINE x == [version |-> 1, era |-> account.era]
    <2>1. x \in [version : Nat, era : Nat] /\ x.version = 1 /\ x.era = 0
        BY <1>3
    <2>2. sessions' \subseteq sessions \cup {x}
        OBVIOUS
    <2> HIDE DEF x
    <2> QED BY <1>1, <2>1, <2>2
<1>6. VersionsCount'
    BY <1>2, <1>4, <1>5 DEF AccessInv, VersionsCount
<1>7. \A g \in Requests \ {h} : ctx[g].kind \in {"reset", "pilot"}
        => link'[ctx[g].secret] \notin {"used", "revoked"}
    BY <1>2 DEF AccessInv, RequestStands
<1>8. /\ Keys \subseteq Secrets
      /\ spent' \in SUBSET Keys /\ uses' \in [Secrets -> Nat]
      /\ \A k \in Keys : uses'[k] = IF k \in spent' THEN 1 ELSE 0
      /\ \A s \in Secrets : Dead(s) => uses'[s] = uses[s]
    <2>1. Keys \subseteq Secrets
        BY DEF Secrets
    <2>2. CASE UNCHANGED <<spent, uses>>
        BY <1>1, <2>1, <2>2
    <2>3. CASE /\ ctx[h].kind = "activate" /\ ctx[h].secret \notin spent
               /\ spent' = spent \cup {ctx[h].secret}
               /\ uses' = [uses EXCEPT ![ctx[h].secret] = @ + 1]
        <3>1. ~ Dead(ctx[h].secret)
            BY <1>1, <2>3 DEF Dead
        <3> QED BY <1>1, <2>1, <2>3, <3>1
    <2> QED BY <2>1, <2>2, <2>3
<1>9. AccessInv'
    BY <1>1, <1>2, <1>4, <1>5, <1>6, <1>7, <1>8, RequestEnds
<1> QED BY <1>8, <1>9

\* A new link revokes those no request is about to use.
LEMMA LinksAreIssued ==
    ASSUME AccessInv, NEW h \in Requests, IssueLink(h) \/ IssuePilotLink(h)
    PROVE  AccessInv'
<1>1. /\ link \in [Links \cup PilotLinks -> LinkStates] /\ uses \in [Secrets -> Nat]
      /\ spent \in SUBSET Keys /\ sessions \in SUBSET [version : Nat, era : Nat]
      /\ overlap \in BOOLEAN /\ account \in Account /\ VersionsCount
      /\ \A k \in Keys : uses[k] = IF k \in spent THEN 1 ELSE 0
      /\ ctx[h].others \in SUBSET Links /\ RequestStands(h)
    BY DEF AccessInv, AccessTypes, Context
<1>2. /\ Finish(h) /\ CanWrite(h) /\ ctx[h].kind \in {"request", "pilotRequest"}
      /\ UNCHANGED <<account, spent, sessions, uses, overlap>>
    BY DEF IssueLink, IssuePilotLink
<1>3. VersionsCount'
    BY <1>1, <1>2 DEF VersionsCount
<1>4. CASE IssueLink(h)
    <2>1. /\ link' \in [Links \cup PilotLinks -> LinkStates]
          /\ \A k \in Links \cup PilotLinks :
                link'[k] = IF k = ctx[h].secret THEN "issued" ELSE Revoke(ctx[h].others, k)
        BY <1>1, <1>4 DEF IssueLink, LinkStates, Revoke
    <2>2. ASSUME NEW g \in Requests \ {h}, ctx[g].kind \in {"reset", "pilot"}
          PROVE  link'[ctx[g].secret] \notin {"used", "revoked"}
        <3>1. ctx[h].kind = "request"
            BY <1>4 DEF IssueLink
        <3>2. /\ ctx[g].secret \notin ctx[h].others /\ ctx[g].secret \in Links \cup PilotLinks
              /\ link[ctx[g].secret] \notin {"used", "revoked"}
            BY <1>1, <1>2, <2>2, <3>1, HeldLinksAreSpared
        <3> QED BY <2>1, <3>2 DEF Revoke
    <2> QED BY <1>1, <1>2, <1>3, <2>1, <2>2, RequestEnds
<1>5. CASE IssuePilotLink(h)
    <2>1. /\ link' \in [Links \cup PilotLinks -> LinkStates]
          /\ \A k \in Links \ PilotLinks : link'[k] \in {"issued", link[k]}
        BY <1>1, <1>5 DEF IssuePilotLink, LinkStates
    <2>2. ASSUME NEW g \in Requests \ {h}, ctx[g].kind \in {"reset", "pilot"}
          PROVE  link'[ctx[g].secret] \notin {"used", "revoked"}
        <3>1. ctx[h].kind = "pilotRequest"
            BY <1>5 DEF IssuePilotLink
        <3>2. /\ ctx[g].secret \in Links \ PilotLinks
              /\ link[ctx[g].secret] \notin {"used", "revoked"}
            BY <1>2, <2>2, <3>1, HeldLinksAreSpared
        <3> QED BY <2>1, <3>2
    <2> QED BY <1>1, <1>2, <1>3, <2>1, <2>2, RequestEnds
<1> QED BY <1>4, <1>5

\* What no request does: mail, time, and those who log in.
LEMMA OthersMove ==
    ASSUME AccessInv, UNCHANGED <<account, spent, uses, overlap, ctx>>,
           \/ /\ sessions' = sessions
              /\ \E l \in Links \cup PilotLinks, to \in {"open", "expired"} :
                    link' = [link EXCEPT ![l] = to]
           \/ link' = link /\ sessions' = sessions
           \/ link' = link /\ Login
           \/ link' = link /\ \E s \in sessions : Refresh(s)
    PROVE  AccessInv'
<1>1. /\ link \in [Links \cup PilotLinks -> LinkStates]
      /\ sessions \in SUBSET [version : Nat, era : Nat] /\ account \in Account
    BY DEF AccessInv, AccessTypes
<1>2. /\ link' \in [Links \cup PilotLinks -> LinkStates]
      /\ \A l \in Links \cup PilotLinks : link'[l] \in {"open", "expired", link[l]}
    BY <1>1 DEF LinkStates
<1>3. \A s \in sessions' :
        \/ s \in sessions
        \/ s.version = account.version /\ s.era = account.era /\ s \in [version : Nat, era : Nat]
        \/ \E r \in sessions : r.version = account.version
                                /\ s = [r EXCEPT !.version = account.version]
    <2>1. CASE Login
        BY <1>1, <2>1 DEF Login, Session, Account
    <2>2. ASSUME NEW r \in sessions, Refresh(r)
          PROVE  sessions' = sessions \cup {[r EXCEPT !.version = account.version]}
                 /\ r.version = account.version
        BY <2>2 DEF Refresh, Accepted
    <2> QED BY <2>1, <2>2
<1>4. sessions' \in SUBSET [version : Nat, era : Nat]
      /\ \A s \in sessions' : s \in sessions \/ (s.version = account.version /\ s.era = account.era)
                                \/ \E r \in sessions : s.version = r.version /\ s.era = r.era
    BY <1>1, <1>3 DEF Account
<1>5. AccessTypes'
    BY <1>2, <1>4 DEF AccessInv, AccessTypes
<1>6. VersionsCount'
    <2>1. ~ account.exists => account.version = 1 /\ account.era = 0
        BY DEF AccessInv, VersionsCount
    <2>2. ASSUME ~ overlap
          PROVE  account.version = account.era + 1 /\ \A s \in sessions' : s.version = s.era + 1
        BY <1>4, <2>2 DEF AccessInv, VersionsCount
    <2> QED BY <2>1, <2>2 DEF VersionsCount
<1>7. ASSUME NEW g \in Requests PROVE RequestStands(g)'
    <2>1. RequestStands(g)
        BY DEF AccessInv
    <2> QED BY <1>2, <2>1 DEF RequestStands
<1>8. LocksAreOwn'
    BY DEF AccessInv, LocksAreOwn
<1> QED BY <1>5, <1>6, <1>7, <1>8 DEF AccessInv

LEMMA AccessSteps ==
    ASSUME AccessInv, [Next]_vars
    PROVE  /\ AccessInv'
           /\ \A s \in Secrets : Dead(s) => uses'[s] = uses[s]
<1>1. ASSUME NEW h \in Requests, Start(h)
      PROVE  AccessInv' /\ uses' = uses
    <2>1. uses' = uses
        BY <1>1 DEF Start, BeginReset, BeginPilotReset, BeginRecovery, BeginActivation,
            BeginRequest, BeginPilotRequest, BeginState, BeginRegister, Begin
    <2> QED BY <1>1, <2>1, RequestsStart
<1>2. ASSUME NEW h \in Requests, Recover(h) \/ Repair(h)
      PROVE  /\ AccessInv'
             /\ \A s \in Secrets : Dead(s) => uses'[s] = uses[s]
    <2>1. /\ ctx[h].kind \in {"recover", "activate"} /\ Finish(h) /\ ctx[h].secret \notin spent
          /\ spent' = spent \cup {ctx[h].secret} /\ UNCHANGED <<link, sessions>>
        BY <1>2 DEF Recover, Repair, KeyIsFree
    <2>2. ctx[h].secret \in Keys /\ account.active \in BOOLEAN
        BY <2>1 DEF AccessInv, RequestStands, AccessTypes, Account
    <2>3. PICK active \in BOOLEAN : Write(h, active)
        BY <1>2, <2>2 DEF Recover, Repair
    <2> QED BY <2>1, <2>2, <2>3, KeysChange
<1>3. ASSUME NEW h \in Requests, ActivateNew(h) \/ \E signs \in BOOLEAN : Register(h, signs)
      PROVE  /\ AccessInv'
             /\ \A s \in Secrets : Dead(s) => uses'[s] = uses[s]
    BY <1>3, AccountsAreMade DEF ActivateNew, Register, KeyIsFree
<1>4. ASSUME NEW h \in Requests, Fail(h)
      PROVE  AccessInv' /\ uses' = uses
    <2>1. /\ Finish(h) /\ UNCHANGED <<account, link, spent, sessions, uses, overlap>>
        BY <1>4 DEF Fail
    <2>2. /\ account' \in Account /\ (account.exists => account'.exists)
          /\ link' \in [Links \cup PilotLinks -> LinkStates]
          /\ spent' \in SUBSET Keys /\ sessions' \in SUBSET [version : Nat, era : Nat]
          /\ uses' \in [Secrets -> Nat] /\ overlap' \in BOOLEAN
          /\ \A k \in Keys : uses'[k] = IF k \in spent' THEN 1 ELSE 0
        BY <2>1 DEF AccessInv, AccessTypes
    <2>3. VersionsCount'
        BY <2>1 DEF AccessInv, VersionsCount
    <2>4. \A g \in Requests \ {h} : ctx[g].kind \in {"reset", "pilot"}
            => link'[ctx[g].secret] \notin {"used", "revoked"}
        BY <2>1 DEF AccessInv, RequestStands
    <2> QED BY <2>1, <2>2, <2>3, <2>4, RequestEnds
<1>5. ASSUME NEW h \in Requests, IssueLink(h) \/ IssuePilotLink(h)
      PROVE  AccessInv' /\ uses' = uses
    BY <1>5, LinksAreIssued DEF IssueLink, IssuePilotLink
<1>6. ASSUME \/ \E l \in Links : MailLink(l)
             \/ \E l \in PilotLinks : MailPilotLink(l)
             \/ \E l \in Links \cup PilotLinks : Expire(l)
             \/ Login
             \/ \E s \in sessions : Refresh(s)
             \/ UNCHANGED vars
      PROVE  AccessInv' /\ uses' = uses
    BY <1>6, OthersMove DEF MailLink, MailPilotLink, Expire, Login, Refresh, vars
<1>7. ASSUME NEW h \in Requests, Step(h) \/ Abandon(h)
      PROVE  /\ AccessInv'
             /\ \A s \in Secrets : Dead(s) => uses'[s] = uses[s]
    BY <1>2, <1>3, <1>4, <1>5, <1>7, ResetsConfirm, PilotResetsConfirm, StatesChange
        DEF Step, Abandon, FailInDatabase
<1> QED BY <1>1, <1>6, <1>7 DEF Next

\* In every reachable state the types of the account, of its links, sessions
\* and requests hold, and every key was used at most once.
THEOREM AccessStands == Spec => []AccessInv
BY AccessBeginsSound, AccessSteps, PTL DEF Spec

\* While no change overwrites another, a session is accepted only if nothing
\* has changed the account since it was signed.
THEOREM SessionsEndWithChanges == Spec => []LoneChangesEndSessions
<1>1. AccessInv => LoneChangesEndSessions
    <2> SUFFICES ASSUME AccessInv, ~ overlap, NEW s \in sessions, Accepted(s)
                 PROVE  s.era = account.era
        BY DEF LoneChangesEndSessions
    <2>1. /\ s.version = account.version /\ account.version = account.era + 1
          /\ s.version = s.era + 1
        BY DEF AccessInv, VersionsCount, Accepted
    <2>2. s.era \in Nat /\ account.era \in Nat
        BY DEF AccessInv, AccessTypes, Account
    <2> QED BY <2>1, <2>2
<1> QED BY <1>1, AccessStands, PTL

\* A link or a key that was used, revoked or replaced never changes the
\* account again, however many requests already held it.
THEOREM DeadSecretsStayDead == Spec => DeadSecretsChangeNothing
<1>1. AccessInv /\ [Next]_vars => [\A s \in Secrets : Dead(s) => uses'[s] = uses[s]]_vars
    BY AccessSteps
<1> QED BY <1>1, AccessStands, PTL DEF Spec, DeadSecretsChangeNothing

-----------------------------------------------------------------------------
(***************************************************************************)
(* The limiter.  While the stretch that begins at an instant is still open *)
(* all that passed since is in the bucket, but for what passed before a    *)
(* restart, which was never more than the limit.  When it closes, what the *)
(* bucket holds is one more limit.                                         *)
(***************************************************************************)

InstantsStand ==
    /\ clock \in Nat /\ restarts \in Seq(Nat)
    /\ bucket \in [Clients -> Seq(Nat)] /\ passed \in [Clients -> Seq(Nat)]
    /\ answer \in [Clients -> [was : {"none", "admitted", "refused"}, at : Nat,
                               retry : Nat, tries : 0 .. 2]]
    /\ \A i \in DOMAIN restarts : restarts[i] <= clock
    /\ \A c \in Clients : /\ Len(bucket[c]) <= Limit
                          /\ \A i \in DOMAIN passed[c] : passed[c][i] <= clock

\* What may pass in a stretch.
Allowed(from) == Limit * (1 + Within(restarts, from))

StretchStands(c, from) ==
    /\ clock < from + Window =>
          Within(passed[c], from) + Limit <= Allowed(from) + Within(bucket[c], from)
    /\ clock >= from + Window => Within(passed[c], from) <= Allowed(from)

\* What was full when it was refused is still full, unless the process began
\* anew; and a client that waited once is told to wait to the window's end.
RefusalStands(c) ==
    (answer[c].was = "refused" /\ bucket[c] # <<>>) =>
        /\ Len(bucket[c]) = Limit
        /\ answer[c].at < bucket[c][1] + Window
        /\ answer[c].retry =
              Second * Larger(1, (Window - (answer[c].at - bucket[c][1])) \div Second)
        /\ answer[c].tries = 2 => answer[c].at + answer[c].retry >= bucket[c][1] + Window

LimiterInv ==
    /\ InstantsStand
    /\ \A c \in Clients : RefusalStands(c)
    /\ \A c \in Clients : \A from \in Nat : StretchStands(c, from)

\* A set of natural numbers has a least one.
LEMMA LeastNumber ==
    ASSUME NEW T, T \subseteq Nat, T # {}
    PROVE  \E n \in T : \A m \in T : n <= m
<1> DEFINE R == OpToRel(<, Nat)
<1>1. IsWellFoundedOn(R, Nat)
    BY NatLessThanWellFounded
<1>2. ASSUME NEW x \in Nat, NEW y \in Nat PROVE <<x, y>> \in R <=> x < y
    BY DEF OpToRel
<1>3. \E x \in T : \A y \in T : ~ (<<y, x>> \in R)
    <2> HIDE DEF R
    <2> QED BY <1>1, WFMin
<1> HIDE DEF R
<1>4. PICK x \in T : \A y \in T : ~ (<<y, x>> \in R)
    BY <1>3
<1>5. ASSUME NEW y \in T PROVE x <= y
    <2>1. x \in Nat /\ y \in Nat
        OBVIOUS
    <2>2. ~ (y < x)
        BY <1>2, <1>4, <2>1
    <2> QED BY <2>1, <2>2
<1> QED BY <1>5

\* Seconds of waiting: what rounding down leaves is less than one.
LEMMA RoundedDown ==
    ASSUME NEW x \in Int, NEW s \in Nat \ {0}
    PROVE  /\ x \div s \in Int
           /\ s * (x \div s) <= x
           /\ x < s * (x \div s) + s
OBVIOUS

LEMMA OutdatedStands ==
    ASSUME NEW times \in Seq(Nat), clock \in Nat
    PROVE  /\ Outdated(times) \in 0 .. Len(times)
           /\ \A i \in 1 .. Outdated(times) : times[i] + Window <= clock
           /\ \/ Outdated(times) = Len(times)
              \/ times[Outdated(times) + 1] + Window > clock
<1> DEFINE T == {n \in 0 .. Len(times) :
                    n = Len(times) \/ times[n + 1] + Window > clock}
<1>1. PICK n \in T : \A m \in T : n <= m
    <2>1. T \subseteq Nat /\ Len(times) \in T
        OBVIOUS
    <2> HIDE DEF T
    <2> QED BY <2>1, LeastNumber
<1>2. ASSUME NEW i \in 1 .. n PROVE times[i] + Window <= clock
    <2>1. i - 1 \notin T
        <3>1. ~ (n <= i - 1)
            OBVIOUS
        <3> HIDE DEF T
        <3> QED BY <1>1, <3>1
    <2>2. times[i] \in Nat
        BY ElementOfSeq
    <2> QED BY <2>1, <2>2, LimiterAssumption
<1> QED BY <1>1, <1>2 DEF Outdated

LEMMA RecentStands ==
    ASSUME NEW times \in Seq(Nat), clock \in Nat
    PROVE  /\ Recent(times) \in Seq(Nat)
           /\ Len(Recent(times)) = Len(times) - Outdated(times)
           /\ \A i \in 1 .. Len(Recent(times)) :
                 Recent(times)[i] = times[i + Outdated(times)]
           /\ Recent(times) # <<>> => Recent(times)[1] + Window > clock
<1> DEFINE n == Outdated(times)
<1>1. /\ n \in 0 .. Len(times) /\ Len(times) \in Nat
      /\ n = Len(times) \/ times[n + 1] + Window > clock
    BY OutdatedStands
<1> HIDE DEF n
<1>2. \A i \in n + 1 .. Len(times) : times[i] \in Nat
    BY <1>1, ElementOfSeq
<1> DEFINE left == SubSeq(times, n + 1, Len(times))
<1>3. /\ left \in Seq(Nat)
      /\ Len(left) = IF n + 1 <= Len(times) THEN Len(times) - (n + 1) + 1 ELSE 0
      /\ \A i \in 1 .. Len(times) - (n + 1) + 1 : left[i] = times[(n + 1) + i - 1]
    <2>1. n + 1 \in Int /\ Len(times) \in Int
        BY <1>1
    <2> QED BY <2>1, <1>2, SubSeqProperties
<1> HIDE DEF left
<1>4. Len(left) = Len(times) - n
    BY <1>1, <1>3
<1>5. ASSUME NEW i \in 1 .. Len(left) PROVE left[i] = times[i + n]
    <2>1. i \in 1 .. Len(times) - (n + 1) + 1 /\ (n + 1) + i - 1 = i + n
        BY <1>1, <1>4
    <2> QED BY <2>1, <1>3
<1>6. left # <<>> => left[1] + Window > clock
    <2> SUFFICES ASSUME left # <<>> PROVE left[1] + Window > clock
        OBVIOUS
    <2>1. Len(left) >= 1
        BY <1>3, EmptySeq
    <2>2. left[1] = times[n + 1] /\ n # Len(times)
        BY <2>1, <1>1, <1>4, <1>5
    <2> QED BY <2>2, <1>1
<1> QED BY <1>3, <1>4, <1>5, <1>6 DEF Recent, n, left

LEMMA WithinIsNatural ==
    ASSUME NEW times \in Seq(Nat), NEW from \in Nat
    PROVE  Within(times, from) \in Nat /\ Within(times, from) <= Len(times)
<1> DEFINE I == {i \in DOMAIN times : from <= times[i] /\ times[i] < from + Window}
<1>1. DOMAIN times = 1 .. Len(times)
    OBVIOUS
<1>2. IsFiniteSet(1 .. Len(times)) /\ Cardinality(1 .. Len(times)) = Len(times)
    <2>1. 1 \in Int /\ Len(times) \in Int /\ Len(times) \in Nat
        OBVIOUS
    <2>2. Cardinality(1 .. Len(times)) =
             IF 1 > Len(times) THEN 0 ELSE Len(times) - 1 + 1
        BY <2>1, FS_Interval
    <2>3. IsFiniteSet(1 .. Len(times))
        BY <2>1, FS_Interval
    <2> QED BY <2>1, <2>2, <2>3
<1>3. IsFiniteSet(I) /\ Cardinality(I) <= Len(times)
    BY <1>1, <1>2, FS_Subset
<1> QED BY <1>3, FS_CardinalityType DEF Within

\* One more instant is one more in every stretch it lies in.
LEMMA WithinAppend ==
    ASSUME NEW times \in Seq(Nat), NEW t \in Nat, NEW from \in Nat
    PROVE  Within(Append(times, t), from) =
              Within(times, from) + (IF from <= t /\ t < from + Window THEN 1 ELSE 0)
<1> DEFINE I == {i \in DOMAIN times : from <= times[i] /\ times[i] < from + Window}
           more == Append(times, t)
           J == {i \in DOMAIN more : from <= more[i] /\ more[i] < from + Window}
           last == Len(times) + 1
<1>1. DOMAIN times = 1 .. Len(times) /\ DOMAIN more = 1 .. last
      /\ \A i \in 1 .. Len(times) : more[i] = times[i]
      /\ more[last] = t
    OBVIOUS
<1>2. IsFiniteSet(I) /\ last \notin I
    <2>1. IsFiniteSet(1 .. Len(times))
        BY FS_Interval
    <2> QED BY <1>1, <2>1, FS_Subset
<1>3. J = IF from <= t /\ t < from + Window THEN I \cup {last} ELSE I
    BY <1>1
<1>4. Cardinality(I) \in Nat
    BY <1>2, FS_CardinalityType
<1> HIDE DEF I, J
<1>5. Cardinality(J) = Cardinality(I) + (IF from <= t /\ t < from + Window THEN 1 ELSE 0)
    <2>1. Cardinality(I \cup {last}) = Cardinality(I) + 1
        BY <1>2, FS_AddElement
    <2> QED BY <1>3, <1>4, <2>1
<1> QED BY <1>5 DEF Within, I, J

\* What leaves the bucket lies in no open stretch.
LEMMA WithinRecent ==
    ASSUME NEW times \in Seq(Nat), clock \in Nat, NEW from \in Nat,
           clock < from + Window
    PROVE  Within(Recent(times), from) = Within(times, from)
<1> DEFINE n == Outdated(times)
           left == Recent(times)
           I == {i \in DOMAIN left : from <= left[i] /\ left[i] < from + Window}
           J == {i \in DOMAIN times : from <= times[i] /\ times[i] < from + Window}
           f == [i \in I |-> i + n]
<1>1. /\ n \in 0 .. Len(times) /\ \A i \in 1 .. n : times[i] + Window <= clock
      /\ Len(left) = Len(times) - n /\ left \in Seq(Nat)
      /\ \A i \in 1 .. Len(left) : left[i] = times[i + n]
    BY OutdatedStands, RecentStands
<1>2. DOMAIN times = 1 .. Len(times) /\ DOMAIN left = 1 .. Len(left)
    BY <1>1
<1> HIDE DEF n, left
<1>a. Len(times) \in Nat /\ \A i \in 1 .. Len(times) : times[i] \in Nat
    BY ElementOfSeq
<1>3. ASSUME NEW j \in J PROVE j - n \in I /\ f[j - n] = j
    <2>1. j \in 1 .. Len(times) /\ from <= times[j] /\ times[j] < from + Window
        BY <1>2
    <2>2. ~ (j \in 1 .. n)
        BY <1>1, <1>a, <2>1, LimiterAssumption
    <2>3. j - n \in 1 .. Len(left) /\ (j - n) + n = j
        BY <1>1, <1>a, <2>1, <2>2
    <2>4. left[j - n] = times[j]
        BY <1>1, <2>3
    <2>5. j - n \in I
        BY <1>2, <2>1, <2>3, <2>4
    <2> HIDE DEF I, J
    <2> QED BY <2>3, <2>5
<1>4. ASSUME NEW i \in I PROVE f[i] \in J
    <2>1. i \in 1 .. Len(left) /\ from <= left[i] /\ left[i] < from + Window
        BY <1>2
    <2>2. i + n \in 1 .. Len(times) /\ left[i] = times[i + n]
        <3>1. Len(left) = Len(times) - n /\ n \in Nat /\ Len(times) \in Nat
            BY <1>1, <1>a
        <3>2. i + n \in 1 .. Len(times)
            BY <3>1, <2>1
        <3> QED BY <1>1, <3>2, <2>1
    <2>3. i + n \in J
        BY <1>2, <2>1, <2>2
    <2> HIDE DEF I, J
    <2> QED BY <2>3
<1>5. I \subseteq 1 .. Len(left) /\ IsFiniteSet(I)
    <2>1. IsFiniteSet(1 .. Len(left)) /\ I \subseteq 1 .. Len(left)
        BY <1>1, <1>2, FS_Interval
    <2> QED BY <2>1, FS_Subset
<1>6. f \in Bijection(I, J)
    <2>1. f \in [I -> J]
        BY <1>4
    <2>2. \A a, b \in I : f[a] = f[b] => a = b
        BY <1>1, <1>5
    <2>3. \A j \in J : \E i \in I : f[i] = j
        BY <1>3
    <2> HIDE DEF f, I, J
    <2> QED BY <2>1, <2>2, <2>3 DEF Bijection, Injection, IsInjective, Surjection
<1>7. Cardinality(J) = Cardinality(I)
    BY <1>5, <1>6, FS_Bijection DEF ExistsBijection
<1> QED BY <1>7 DEF Within, n, left

\* Who waited out the rounded seconds has less than one left, and is told to
\* wait no less than that.
LEMMA WaitsToTheEnd ==
    ASSUME NEW x \in Nat, NEW y \in Nat, NEW s \in Nat \ {0},
           y + s * Larger(1, x \div s) <= x
    PROVE  s * Larger(1, y \div s) >= y
<1> DEFINE q == Larger(1, x \div s)
           r == Larger(1, y \div s)
<1>1. x \div s \in Int /\ x < s * (x \div s) + s /\ y \div s \in Int
    BY RoundedDown
<1>2. q \in Nat /\ q >= x \div s /\ r \in Nat /\ r >= 1
    <2> HIDE DEF q, r
    <2>1. q >= x \div s /\ q \in Nat
        BY <1>1 DEF q, Larger
    <2>2. r >= 1 /\ r \in Nat
        BY <1>1 DEF r, Larger
    <2> QED BY <2>1, <2>2
<1>3. PICK k \in Int : k = x \div s
    BY <1>1
<1>4. y + s * q <= x /\ x < s * k + s /\ q >= k
    BY <1>1, <1>2, <1>3
<1> HIDE DEF q, r
<1>5. s * q >= s * k /\ s * q \in Int /\ s * k \in Int
    <2>1. q - k \in Nat
        BY <1>2, <1>4
    <2>2. s * (q - k) \in Nat
        BY <2>1
    <2>3. s * (q - k) = s * q - s * k
        BY <1>2
    <2> QED BY <2>2, <2>3, <1>2
<1>6. y < s
    BY <1>4, <1>5
<1>7. s * r >= s /\ s * r \in Int
    <2>1. s * (r - 1) \in Nat /\ s * (r - 1) = s * r - s
        BY <1>2
    <2> QED BY <2>1, <1>2
<1>8. s * r >= y
    BY <1>6, <1>7
<1> QED BY <1>8 DEF r

\* What there is of a client and of the counts in a stretch.
LEMMA CountsAreNatural ==
    ASSUME LimiterInv, NEW c \in Clients, NEW from \in Nat
    PROVE  /\ bucket[c] \in Seq(Nat) /\ passed[c] \in Seq(Nat) /\ restarts \in Seq(Nat)
           /\ Len(bucket[c]) <= Limit /\ clock \in Nat
           /\ \A i \in DOMAIN passed[c] : passed[c][i] <= clock
           /\ Within(bucket[c], from) \in Nat /\ Within(bucket[c], from) <= Limit
           /\ Within(passed[c], from) \in Nat /\ Within(restarts, from) \in Nat
           /\ Allowed(from) \in Nat /\ Allowed(from) >= Limit
           /\ StretchStands(c, from)
<1>1. /\ bucket[c] \in Seq(Nat) /\ passed[c] \in Seq(Nat) /\ restarts \in Seq(Nat)
      /\ Len(bucket[c]) <= Limit /\ clock \in Nat
      /\ \A i \in DOMAIN passed[c] : passed[c][i] <= clock
    BY DEF LimiterInv, InstantsStand
<1>2. Within(bucket[c], from) \in Nat /\ Within(bucket[c], from) <= Len(bucket[c])
    BY <1>1, WithinIsNatural
<1>3. Within(passed[c], from) \in Nat /\ Within(restarts, from) \in Nat
    BY <1>1, WithinIsNatural
<1>4. Allowed(from) \in Nat /\ Allowed(from) >= Limit
    <2>1. /\ Limit * Within(restarts, from) \in Nat
          /\ Limit * (1 + Within(restarts, from)) = Limit * Within(restarts, from) + Limit
        BY <1>3, LimiterAssumption
    <2> QED BY <2>1, LimiterAssumption DEF Allowed
<1>5. Len(bucket[c]) \in Nat
    BY <1>1
<1>6. Within(bucket[c], from) <= Limit
    BY <1>1, <1>2, <1>5, LimiterAssumption
<1> QED BY <1>1, <1>2, <1>3, <1>4, <1>6 DEF LimiterInv

LEMMA LimiterBegins == LimiterInit => LimiterInv
<1> SUFFICES ASSUME LimiterInit PROVE LimiterInv
    OBVIOUS
<1>1. InstantsStand
    BY LimiterAssumption DEF LimiterInit, InstantsStand, Unasked
<1>2. \A c \in Clients : RefusalStands(c)
    BY DEF LimiterInit, RefusalStands, Unasked
<1>3. ASSUME NEW from \in Nat PROVE Within(<<>>, from) = 0
    <2>1. {i \in DOMAIN <<>> : from <= <<>>[i] /\ <<>>[i] < from + Window} = {}
        OBVIOUS
    <2> QED BY <2>1, FS_EmptySet DEF Within
<1>4. \A c \in Clients : \A from \in Nat : StretchStands(c, from)
    <2> SUFFICES ASSUME NEW c \in Clients, NEW from \in Nat PROVE StretchStands(c, from)
        OBVIOUS
    <2>1. /\ Within(passed[c], from) = 0 /\ Within(bucket[c], from) = 0
          /\ Allowed(from) = Limit * (1 + 0) /\ clock = 0
        BY <1>3 DEF LimiterInit, Allowed
    <2> QED BY <2>1, LimiterAssumption DEF StretchStands
<1> QED BY <1>1, <1>2, <1>4 DEF LimiterInv

LEMMA LimiterPasses == LimiterInv /\ Pass => LimiterInv'
<1> SUFFICES ASSUME LimiterInv, Pass PROVE LimiterInv'
    OBVIOUS
<1> USE LimiterAssumption
<1>1. InstantsStand'
    BY DEF LimiterInv, InstantsStand, Pass
<1>2. ASSUME NEW c \in Clients PROVE RefusalStands(c)'
    BY DEF LimiterInv, RefusalStands, Pass
<1>3. ASSUME NEW c \in Clients, NEW from \in Nat PROVE StretchStands(c, from)'
    <2>1. UNCHANGED <<passed, bucket, restarts>> /\ clock' = clock + 1
        BY DEF Pass
    <2>2. /\ Within(passed'[c], from) = Within(passed[c], from)
          /\ Within(bucket'[c], from) = Within(bucket[c], from)
          /\ Allowed(from)' = Allowed(from)
        BY <2>1 DEF Allowed, Within
    <2>3. /\ clock \in Nat /\ Allowed(from) \in Nat
          /\ Within(bucket[c], from) \in Nat /\ Within(bucket[c], from) <= Limit
          /\ Within(passed[c], from) \in Nat
        BY CountsAreNatural
    <2>4. StretchStands(c, from)
        BY DEF LimiterInv
    <2> QED BY <2>1, <2>2, <2>3, <2>4 DEF StretchStands
<1> QED BY <1>1, <1>2, <1>3 DEF LimiterInv

LEMMA LimiterRestarts == LimiterInv /\ Restart => LimiterInv'
<1> SUFFICES ASSUME LimiterInv, Restart PROVE LimiterInv'
    OBVIOUS
<1> USE LimiterAssumption
<1>1. InstantsStand'
    BY DEF LimiterInv, InstantsStand, Restart
<1>2. ASSUME NEW c \in Clients PROVE RefusalStands(c)'
    BY DEF LimiterInv, RefusalStands, Restart
<1>3. ASSUME NEW c \in Clients, NEW from \in Nat PROVE StretchStands(c, from)'
    <2>1. /\ bucket[c] \in Seq(Nat) /\ passed[c] \in Seq(Nat) /\ restarts \in Seq(Nat)
          /\ Len(bucket[c]) <= Limit /\ clock \in Nat
          /\ \A i \in DOMAIN passed[c] : passed[c][i] <= clock
        BY CountsAreNatural
    <2>2. /\ Within(bucket[c], from) \in Nat /\ Within(bucket[c], from) <= Limit
          /\ Within(passed[c], from) \in Nat /\ Within(restarts, from) \in Nat
        BY CountsAreNatural
    <2>3. Allowed(from) \in Nat /\ Allowed(from) >= Limit
        BY CountsAreNatural
    <2>4. StretchStands(c, from)
        BY CountsAreNatural
    <2>5. /\ UNCHANGED <<passed, clock>> /\ restarts' = Append(restarts, clock)
          /\ bucket'[c] = <<>> /\ <<>> \in Seq(Nat)
        BY DEF Restart
    <2>6. /\ Within(passed'[c], from) = Within(passed[c], from)
          /\ Within(bucket'[c], from) \in Nat
          /\ Within(restarts', from) = Within(restarts, from)
                + (IF from <= clock /\ clock < from + Window THEN 1 ELSE 0)
        BY <2>1, <2>5, WithinAppend, WithinIsNatural
    <2>a. Allowed(from)' = Allowed(from)
                + (IF from <= clock /\ clock < from + Window THEN Limit ELSE 0)
        <3>1. Allowed(from)' = Limit * (1 + Within(restarts', from))
            BY DEF Allowed, Within
        <3>2. Limit * (1 + (Within(restarts, from) + 1))
                 = Limit * (1 + Within(restarts, from)) + Limit
            BY <2>2
        <3>3. CASE from <= clock /\ clock < from + Window
            BY <2>2, <2>6, <3>1, <3>2, <3>3 DEF Allowed
        <3>4. CASE ~ (from <= clock /\ clock < from + Window)
            <4>1. Within(restarts', from) = Within(restarts, from)
                BY <2>2, <2>6, <3>4
            <4>2. Allowed(from)' = Allowed(from)
                BY <3>1, <4>1 DEF Allowed
            <4> QED BY <2>3, <3>4, <4>2
        <3> QED BY <3>3, <3>4
    <2>7. CASE clock < from
        <3>1. {i \in DOMAIN passed[c] :
                 from <= passed[c][i] /\ passed[c][i] < from + Window} = {}
            <4> SUFFICES ASSUME NEW i \in DOMAIN passed[c], from <= passed[c][i] PROVE FALSE
                OBVIOUS
            <4> QED BY <2>1, <2>7, ElementOfSeq
        <3>2. Within(passed[c], from) = 0
            BY <3>1, FS_EmptySet DEF Within
        <3>3. Allowed(from)' = Allowed(from)
            BY <2>1, <2>3, <2>a, <2>7
        <3> QED BY <2>1, <2>2, <2>3, <2>5, <2>6, <2>7, <3>2, <3>3 DEF StretchStands
    <2>8. CASE from <= clock /\ clock < from + Window
        <3>1. Allowed(from)' = Allowed(from) + Limit
            BY <2>3, <2>a, <2>8
        <3> QED BY <2>1, <2>2, <2>3, <2>4, <2>5, <2>6, <2>8, <3>1 DEF StretchStands
    <2>9. CASE ~ (clock < from + Window)
        <3>1. Allowed(from)' = Allowed(from)
            BY <2>3, <2>a, <2>9
        <3> QED BY <2>1, <2>2, <2>3, <2>4, <2>5, <2>6, <2>9, <3>1 DEF StretchStands
    <2> QED BY <2>1, <2>7, <2>8, <2>9
<1> QED BY <1>1, <1>2, <1>3 DEF LimiterInv

\* A request lets the stretches of other clients alone.
LEMMA OthersStretch ==
    ASSUME NEW c \in Clients, LimiterInv, UNCHANGED <<clock, restarts>>,
           bucket'[c] = bucket[c], passed'[c] = passed[c], answer'[c] = answer[c]
    PROVE  RefusalStands(c)' /\ \A from \in Nat : StretchStands(c, from)'
<1>1. RefusalStands(c)'
    BY DEF LimiterInv, RefusalStands
<1>2. ASSUME NEW from \in Nat PROVE StretchStands(c, from)'
    <2>1. StretchStands(c, from)
        BY DEF LimiterInv
    <2> QED BY <2>1 DEF StretchStands, Allowed, Within
<1> QED BY <1>1, <1>2

LEMMA LimiterAdmits ==
    ASSUME LimiterInv, NEW c \in Clients, Admit(c)
    PROVE  LimiterInv'
<1> USE LimiterAssumption
<1> DEFINE times == Recent(bucket[c])
<1>1. /\ bucket[c] \in Seq(Nat) /\ passed[c] \in Seq(Nat) /\ restarts \in Seq(Nat)
      /\ Len(bucket[c]) <= Limit /\ clock \in Nat
      /\ \A i \in DOMAIN passed[c] : passed[c][i] <= clock
    BY DEF LimiterInv, InstantsStand
<1>2. times \in Seq(Nat) /\ Len(times) < Limit
    BY <1>1, RecentStands DEF Admit, Full
<1>3. /\ bucket' = [bucket EXCEPT ![c] = Append(times, clock)]
      /\ passed' = [passed EXCEPT ![c] = Append(@, clock)]
      /\ answer' = [answer EXCEPT ![c] = [Unasked EXCEPT !.was = "admitted", !.at = clock]]
      /\ UNCHANGED <<clock, restarts>>
    BY DEF Admit
<1>4. /\ bucket'[c] = Append(times, clock) /\ passed'[c] = Append(passed[c], clock)
      /\ answer'[c] = [was |-> "admitted", at |-> clock, retry |-> 0, tries |-> 0]
    BY <1>3 DEF LimiterInv, InstantsStand, Unasked
<1>5. InstantsStand'
    <2> HIDE DEF times
    <2>a. /\ Len(bucket'[c]) <= Limit
          /\ \A i \in DOMAIN passed'[c] : passed'[c][i] <= clock
        <3>1. /\ Len(Append(times, clock)) = Len(times) + 1
              /\ DOMAIN Append(passed[c], clock) = 1 .. Len(passed[c]) + 1
              /\ DOMAIN passed[c] = 1 .. Len(passed[c])
              /\ \A i \in 1 .. Len(passed[c]) : Append(passed[c], clock)[i] = passed[c][i]
              /\ Append(passed[c], clock)[Len(passed[c]) + 1] = clock
              /\ Len(times) \in Nat /\ Len(passed[c]) \in Nat
            BY <1>1, <1>2
        <3> QED BY <3>1, <1>1, <1>2, <1>4
    <2>b. ASSUME NEW d \in Clients \ {c}
          PROVE  bucket'[d] = bucket[d] /\ passed'[d] = passed[d]
        BY <1>3 DEF LimiterInv, InstantsStand
    <2>1. /\ \A d \in Clients : Len(bucket'[d]) <= Limit
          /\ \A d \in Clients : \A i \in DOMAIN passed'[d] : passed'[d][i] <= clock
        BY <2>a, <2>b DEF LimiterInv, InstantsStand
    <2>2. bucket' \in [Clients -> Seq(Nat)] /\ passed' \in [Clients -> Seq(Nat)]
        BY <1>1, <1>2, <1>3 DEF LimiterInv, InstantsStand
    <2>3. answer' \in [Clients -> [was : {"none", "admitted", "refused"}, at : Nat,
                                   retry : Nat, tries : 0 .. 2]]
        <3>1. answer'[c] \in [was : {"none", "admitted", "refused"}, at : Nat,
                              retry : Nat, tries : 0 .. 2]
            BY <1>1, <1>4
        <3>2. answer' = [answer EXCEPT ![c] = answer'[c]]
            BY <1>3 DEF LimiterInv, InstantsStand
        <3> QED BY <3>1, <3>2 DEF LimiterInv, InstantsStand
    <2> QED BY <2>1, <2>2, <2>3, <1>3 DEF LimiterInv, InstantsStand
<1> HIDE DEF times
<1>6. RefusalStands(c)'
    BY <1>4 DEF RefusalStands
<1>7. ASSUME NEW from \in Nat PROVE StretchStands(c, from)'
    <2>1. Within(times, from) \in Nat
        BY <1>2, WithinIsNatural
    <2>2. clock < from + Window => Within(times, from) = Within(bucket[c], from)
        BY <1>1, WithinRecent DEF times
    <2>5. /\ Within(passed'[c], from) = Within(passed[c], from)
                + (IF from <= clock /\ clock < from + Window THEN 1 ELSE 0)
          /\ Within(bucket'[c], from) = Within(times, from)
                + (IF from <= clock /\ clock < from + Window THEN 1 ELSE 0)
        BY <1>1, <1>2, <1>4, WithinAppend
    <2>a. /\ Allowed(from)' = Allowed(from) /\ clock' = clock
          /\ Allowed(from) \in Nat /\ Allowed(from) >= Limit
          /\ Within(bucket[c], from) \in Nat /\ Within(passed[c], from) \in Nat
          /\ StretchStands(c, from)
        BY <1>3, CountsAreNatural DEF Allowed, Within
    <2> HIDE DEF times
    <2>6. CASE clock < from
        <3>1. /\ Within(passed'[c], from) = Within(passed[c], from)
              /\ Within(bucket'[c], from) = Within(times, from)
            BY <2>5, <2>6, <2>1, <2>a, <1>1
        <3> QED BY <2>1, <2>2, <2>6, <2>a, <3>1, <1>1, LimiterAssumption DEF StretchStands
    <2>7. CASE from <= clock /\ clock < from + Window
        <3>1. /\ Within(passed'[c], from) = Within(passed[c], from) + 1
              /\ Within(bucket'[c], from) = Within(times, from) + 1
            BY <2>5, <2>7
        <3> QED BY <2>1, <2>2, <2>7, <2>a, <3>1, <1>1, LimiterAssumption DEF StretchStands
    <2>8. CASE ~ (clock < from + Window)
        <3>1. Within(passed'[c], from) = Within(passed[c], from)
            BY <2>5, <2>8, <2>a
        <3> QED BY <2>8, <2>a, <3>1, <1>1, LimiterAssumption DEF StretchStands
    <2> QED BY <2>6, <2>7, <2>8, <1>1
<1>8. ASSUME NEW d \in Clients \ {c}
      PROVE  RefusalStands(d)' /\ \A from \in Nat : StretchStands(d, from)'
    <2>1. bucket'[d] = bucket[d] /\ passed'[d] = passed[d] /\ answer'[d] = answer[d]
        BY <1>3 DEF LimiterInv, InstantsStand
    <2> QED BY <2>1, <1>3, OthersStretch
<1>9. \A d \in Clients : RefusalStands(d)' /\ \A from \in Nat : StretchStands(d, from)'
    BY <1>6, <1>7, <1>8
<1> QED BY <1>5, <1>9 DEF LimiterInv

LEMMA LimiterRefuses ==
    ASSUME LimiterInv, NEW c \in Clients, Refused(c)
    PROVE  LimiterInv'
<1> USE LimiterAssumption
<1> DEFINE times == Recent(bucket[c])
           first == bucket[c][1]
           asked == answer[c]
<1>1. /\ bucket[c] \in Seq(Nat) /\ passed[c] \in Seq(Nat) /\ restarts \in Seq(Nat)
      /\ Len(bucket[c]) <= Limit /\ clock \in Nat
      /\ asked \in [was : {"none", "admitted", "refused"}, at : Nat,
                    retry : Nat, tries : 0 .. 2]
    BY DEF LimiterInv, InstantsStand
<1>2. times \in Seq(Nat) /\ Len(times) >= Limit /\ Outdated(bucket[c]) \in Nat
      /\ Len(times) = Len(bucket[c]) - Outdated(bucket[c])
    <2>1. Len(times) >= Limit
        BY DEF Refused, Full
    <2>2. Outdated(bucket[c]) \in Nat
        BY <1>1, OutdatedStands
    <2> QED BY <2>1, <2>2, <1>1, RecentStands
\* Nothing had left the bucket.
<1>3. times = bucket[c] /\ Len(times) = Limit /\ bucket[c] # <<>> /\ first \in Nat
      /\ clock < first + Window
    <2>1. Outdated(bucket[c]) = 0 /\ Len(bucket[c]) = Limit
        BY <1>1, <1>2
    <2>2. times = SubSeq(bucket[c], 1, Len(bucket[c]))
        BY <2>1 DEF Recent
    <2>3. times = bucket[c]
        BY <2>2, <1>1
    <2> QED BY <2>1, <2>3, <1>1, RecentStands
<1>4. /\ bucket' = [bucket EXCEPT ![c] = times]
      /\ answer' = [answer EXCEPT ![c] =
            [was |-> "refused", at |-> clock, retry |-> RetryAfter(times),
             tries |-> Tries(c)]]
      /\ UNCHANGED <<clock, passed, restarts>>
    BY DEF Refused
<1>5. bucket' = bucket /\ bucket'[c] = bucket[c]
      /\ answer'[c] = [was |-> "refused", at |-> clock, retry |-> RetryAfter(bucket[c]),
                       tries |-> Tries(c)]
    BY <1>3, <1>4 DEF LimiterInv, InstantsStand
<1> DEFINE rest == Window - (clock - first)
           secs == rest \div Second
<1>6. rest \in Nat /\ rest > 0 /\ secs \in Int
    <2>1. rest \in Nat /\ rest > 0
        BY <1>1, <1>3
    <2> HIDE DEF rest
    <2> QED BY <2>1, RoundedDown
<1>7. RetryAfter(bucket[c]) = Second * Larger(1, secs)
    BY DEF RetryAfter, Wait
<1>8. RetryAfter(bucket[c]) \in Nat
    <2> HIDE DEF rest, secs
    <2>1. Larger(1, secs) \in Nat
        BY <1>6 DEF Larger
    <2> HIDE DEF secs
    <2> QED BY <2>1, <1>7
\* A client that waited is at most a second away from the window's end.
<1>9. ASSUME asked.was = "refused", clock >= asked.at + asked.retry
      PROVE  /\ Tries(c) \in 0 .. 2
             /\ Tries(c) = 2 => clock + RetryAfter(bucket[c]) >= first + Window
    <2> DEFINE rest0 == Window - (asked.at - first)
               secs0 == rest0 \div Second
    <2>1. /\ asked.at < first + Window /\ asked.retry = Second * Larger(1, secs0)
          /\ asked.tries = 2 => asked.at + asked.retry >= first + Window
        BY <1>3, <1>9 DEF LimiterInv, RefusalStands
    <2>2. asked.tries # 2
        BY <2>1, <1>1, <1>3, <1>9
    <2>3. rest0 \in Nat /\ asked.at \in Nat /\ asked.retry \in Nat /\ first \in Nat
        <3>1. asked.at \in Nat /\ asked.retry \in Nat
            BY <1>1
        <3>2. first \in Nat /\ asked.at < first + Window
            BY <1>3, <2>1
        <3> HIDE DEF first, asked
        <3> QED BY <3>1, <3>2
    <2>4. rest + asked.retry <= rest0
        <3>1. clock \in Nat /\ first \in Nat /\ clock >= asked.at + asked.retry
            BY <1>1, <1>3, <1>9
        <3>2. asked.at \in Nat /\ asked.retry \in Nat
            BY <2>3
        <3> HIDE DEF first, asked
        <3> QED BY <3>1, <3>2
    <2>5. Second * Larger(1, rest \div Second) >= rest
        <3>1. rest + Second * Larger(1, rest0 \div Second) <= rest0
            BY <2>1, <2>4
        <3>2. rest \in Nat /\ rest0 \in Nat
            BY <1>6, <2>3
        <3> HIDE DEF rest, rest0
        <3> QED BY <3>1, <3>2, WaitsToTheEnd
    <2>6. RetryAfter(bucket[c]) >= rest
        BY <2>5, <1>7
    <2>7. Tries(c) \in 0 .. 2
        BY <2>2, <1>1 DEF Tries
    <2>8. clock + RetryAfter(bucket[c]) >= first + Window
        <3>1. clock \in Nat /\ first \in Nat
            BY <1>1, <1>3
        <3> HIDE DEF first
        <3> QED BY <3>1, <2>6, <1>8
    <2> QED BY <2>7, <2>8
<1>11. Tries(c) \in 0 .. 2
       /\ (Tries(c) = 2 => clock + RetryAfter(bucket[c]) >= first + Window)
    <2>1. CASE ~ (asked.was = "refused" /\ clock >= asked.at + asked.retry)
        <3>1. Tries(c) = 1
            BY <2>1 DEF Tries
        <3> QED BY <3>1
    <2> HIDE DEF first, asked
    <2> QED BY <1>9, <2>1
<1>12. InstantsStand'
    <2>1. answer' \in [Clients -> [was : {"none", "admitted", "refused"}, at : Nat,
                                   retry : Nat, tries : 0 .. 2]]
        BY <1>1, <1>3, <1>4, <1>8, <1>11 DEF LimiterInv, InstantsStand
    <2> QED BY <2>1, <1>4, <1>5 DEF LimiterInv, InstantsStand
<1>13. RefusalStands(c)'
    <2> HIDE DEF times
    <2> QED BY <1>3, <1>5, <1>7, <1>11 DEF RefusalStands
<1>14. ASSUME NEW from \in Nat PROVE StretchStands(c, from)'
    <2>1. StretchStands(c, from)
        BY DEF LimiterInv
    <2> QED BY <2>1, <1>4, <1>5 DEF StretchStands, Allowed, Within
<1>15. ASSUME NEW d \in Clients \ {c}
       PROVE  RefusalStands(d)' /\ \A from \in Nat : StretchStands(d, from)'
    <2>1. bucket'[d] = bucket[d] /\ passed'[d] = passed[d] /\ answer'[d] = answer[d]
        BY <1>4, <1>5 DEF LimiterInv, InstantsStand
    <2> QED BY <2>1, <1>4, OthersStretch
<1>16. \A d \in Clients : RefusalStands(d)' /\ \A from \in Nat : StretchStands(d, from)'
    BY <1>13, <1>14, <1>15
<1> QED BY <1>12, <1>16 DEF LimiterInv

LEMMA LimiterSteps == LimiterInv /\ [LimiterNext]_limiterVars => LimiterInv'
<1> SUFFICES ASSUME LimiterInv, [LimiterNext]_limiterVars PROVE LimiterInv'
    OBVIOUS
<1>1. CASE UNCHANGED limiterVars
    BY <1>1 DEF limiterVars, LimiterInv, InstantsStand, RefusalStands, StretchStands,
                Allowed, Within
<1>2. CASE LimiterNext
    BY <1>2, LimiterPasses, LimiterRestarts, LimiterAdmits, LimiterRefuses DEF LimiterNext
<1> QED BY <1>1, <1>2

LEMMA LimiterInvariant == LimiterSpec => []LimiterInv
BY LimiterBegins, LimiterSteps, PTL DEF LimiterSpec

\* In no stretch as long as the window does a client get through more often
\* than the limit and as many again for every restart in it, and one that
\* waits as it is told is refused at most once more
\* (PilotRateLimitMiddleware.dispatch).
THEOREM LimiterStands == LimiterSpec => []LimiterKeepsItsWord
<1>1. LimiterInv => LimiterKeepsItsWord
    <2> SUFFICES ASSUME LimiterInv PROVE LimiterKeepsItsWord
        OBVIOUS
    <2> USE LimiterAssumption
    <2>1. ASSUME NEW c \in Clients, NEW from \in 0 .. clock
          PROVE  Within(passed[c], from) <= Limit * (1 + Within(restarts, from))
        <3>1. from \in Nat
            BY DEF LimiterInv, InstantsStand
        <3>2. StretchStands(c, from)
            BY <3>1 DEF LimiterInv
        <3>3. /\ Within(passed[c], from) \in Nat /\ Within(bucket[c], from) \in Nat
              /\ Within(bucket[c], from) <= Limit /\ Allowed(from) \in Nat
            BY <3>1, CountsAreNatural
        <3>4. clock \in Int /\ from \in Int /\ Window \in Int /\ Limit \in Int
            BY <3>1 DEF LimiterInv, InstantsStand
        <3>5. Within(passed[c], from) <= Allowed(from)
            BY <3>2, <3>3, <3>4 DEF StretchStands
        <3> QED BY <3>5 DEF Allowed
    <2>2. WaitingIsRewarded
        <3>1. ASSUME NEW c \in Clients PROVE answer[c].tries \in 0 .. 2
            BY DEF LimiterInv, InstantsStand
        <3> QED BY <3>1 DEF WaitingIsRewarded
    <2> QED BY <2>1, <2>2 DEF LimiterKeepsItsWord, AbuseIsBounded
<1> QED BY <1>1, LimiterInvariant, PTL

-----------------------------------------------------------------------------
(***************************************************************************)
(* The types of the parts, as their invariants and some more give them.    *)
(***************************************************************************)

\* A retrieval has written only what it holds.
WrittenIsHeld ==
    \A l \in Retrievals : \A c \in lookup[l].wrote : lookup[l].vectors[c] # NoVersion

LEMMA WrittenStaysHeld ==
    ASSUME RetrievalInv, WrittenIsHeld, [RetrievalNext]_retrievalVars
    PROVE  WrittenIsHeld'
<1>t. /\ texts \in [Chunks -> Versions] /\ lookup \in [Retrievals -> LookupState]
      /\ \A l \in Retrievals : LookupStands(l)
    BY DEF RetrievalInv
<1>1. CASE UNCHANGED lookup
    BY <1>1 DEF WrittenIsHeld
<1>2. ASSUME NEW l \in Retrievals, lookup' = [lookup EXCEPT ![l] = lookup'[l]],
             \A c \in lookup'[l].wrote : lookup'[l].vectors[c] # NoVersion
      PROVE  WrittenIsHeld'
    BY <1>2, <1>t DEF WrittenIsHeld
<1>3. ASSUME NEW l \in Retrievals,
             \/ \E semantic \in BOOLEAN : BeginLookup(l, semantic)
             \/ Commit(l) \/ FailLookup(l) \/ ReturnVectors(l)
      PROVE  WrittenIsHeld'
    <2>1. CASE \E semantic \in BOOLEAN : BeginLookup(l, semantic)
        <3>1. lookup' = [lookup EXCEPT ![l] = lookup'[l]] /\ lookup'[l].wrote = {}
            BY <2>1, <1>t DEF BeginLookup, Waiting
        <3> QED BY <3>1, <1>2
    <2>2. CASE Commit(l)
        <3>1. lookup' = [lookup EXCEPT ![l] = lookup'[l]] /\ lookup'[l].wrote = {}
            BY <2>2, <1>t DEF Commit, LookupState
        <3> QED BY <3>1, <1>2
    <2>3. CASE FailLookup(l)
        <3>1. lookup' = [lookup EXCEPT ![l] = lookup'[l]] /\ lookup'[l].wrote = {}
            BY <2>3, <1>t DEF FailLookup, FallenBack, LookupState
        <3> QED BY <3>1, <1>2
    <2>4. CASE ReturnVectors(l)
        <3>1. lookup' = [lookup EXCEPT ![l] = lookup'[l]] /\ lookup'[l].wrote = {}
            BY <2>4, <1>t DEF ReturnVectors, Waiting
        <3> QED BY <3>1, <1>2
    <2> QED BY <1>3, <2>1, <2>2, <2>3, <2>4
<1>4. ASSUME NEW l \in Retrievals, Open(l) PROVE WrittenIsHeld'
    <2>1. lookup' = [lookup EXCEPT ![l] = lookup'[l]] /\ lookup'[l].wrote = {}
        BY <1>4, <1>t DEF Open, LookupState
    <2> QED BY <2>1, <1>2
<1>5. ASSUME NEW l \in Retrievals, Embed(l) PROVE WrittenIsHeld'
    <2>1. /\ lookup' = [lookup EXCEPT ![l] = lookup'[l]]
          /\ lookup'[l].wrote = lookup[l].wrote
          /\ lookup'[l].vectors = [c \in Chunks |-> IF c \in Batch(l) THEN lookup[l].texts[c]
                                                    ELSE lookup[l].vectors[c]]
          /\ lookup[l].at = "embedding"
        BY <1>5, <1>t DEF Embed, LookupState
    <2>2. lookup[l].texts \in [Chunks -> Versions] /\ lookup[l].wrote \subseteq Chunks
        BY <2>1, <1>t DEF LookupStands, LookupState
    <2>3. \A c \in lookup[l].wrote : lookup[l].vectors[c] # NoVersion
        BY DEF WrittenIsHeld
    <2>4. \A c \in lookup[l].wrote : lookup'[l].vectors[c] # NoVersion
        <3>1. ASSUME NEW c \in lookup[l].wrote PROVE lookup'[l].vectors[c] # NoVersion
            <4>1. lookup'[l].vectors[c] =
                     IF c \in Batch(l) THEN lookup[l].texts[c] ELSE lookup[l].vectors[c]
                BY <2>1, <2>2
            <4>2. lookup[l].texts[c] # NoVersion
                BY <2>2, RetrievalAssumption DEF NoVersion
            <4> QED BY <4>1, <4>2, <2>3
        <3> QED BY <3>1
    <2> QED BY <2>1, <2>4, <1>2
<1>6. ASSUME NEW l \in Retrievals, Insert(l) PROVE WrittenIsHeld'
    <2>1. /\ lookup' = [lookup EXCEPT ![l] = lookup'[l]]
          /\ lookup'[l].wrote = lookup[l].wrote \cup FreshLookup(l)
          /\ lookup'[l].vectors = lookup[l].vectors
        BY <1>6, <1>t DEF Insert, LookupState
    <2>2. \A c \in FreshLookup(l) : lookup[l].vectors[c] # NoVersion
        BY DEF FreshLookup, Missing
    <2> QED BY <2>1, <2>2, <1>2 DEF WrittenIsHeld
<1>7. ASSUME NEW l \in Retrievals, AskVector(l) PROVE WrittenIsHeld'
    <2>1. /\ lookup' = [lookup EXCEPT ![l] = lookup'[l]]
          /\ lookup'[l].wrote = lookup[l].wrote
          /\ lookup'[l].vectors = lookup[l].vectors
        BY <1>7, <1>t DEF AskVector, LookupState
    <2> QED BY <2>1, <1>2 DEF WrittenIsHeld
<1> QED BY <1>1, <1>3, <1>4, <1>5, <1>6, <1>7 DEF RetrievalNext, retrievalVars, Replace

LEMMA RetrievalKeepsItsTypes == RetrievalSpec => []RetrievalTypes
<1>1. RetrievalInit => RetrievalInv /\ WrittenIsHeld
    BY RetrievalBegins DEF RetrievalInit, WrittenIsHeld, Waiting
<1>2. RetrievalInv /\ WrittenIsHeld /\ [RetrievalNext]_retrievalVars =>
            (RetrievalInv /\ WrittenIsHeld)'
    BY RetrievalSteps, WrittenStaysHeld
<1>3. RetrievalInv /\ WrittenIsHeld => RetrievalTypes
    <2> SUFFICES ASSUME RetrievalInv, WrittenIsHeld PROVE RetrievalTypes
        OBVIOUS
    <2>1. ASSUME NEW c \in Chunks PROVE cache[c] = Uncached \/ cache[c].hash \in Versions
        BY DEF RetrievalInv, CacheRow, Uncached
    <2> QED BY <2>1 DEF RetrievalTypes, RetrievalInv, WrittenIsHeld
<1> QED BY <1>1, <1>2, <1>3, PTL DEF RetrievalSpec

\* Edges join what there is, and evidence is of what was retrieved.
GraphIsGrounded ==
    /\ \A j \in joins : {j.from, j.to} \subseteq DOMAIN nodes
    /\ \A d \in Documents : Chunk(d) \in DOMAIN nodes => d \in Cited(Recorded)
    /\ syncing.looked \subseteq Cited(syncing.scanned)

LEMMA GraphStaysGrounded ==
    ASSUME EvidenceInv, GraphIsGrounded, [EvidenceNext]_evidenceVars
    PROVE  GraphIsGrounded'
<1>t. /\ kept \subseteq Documents /\ question \in [Questions -> QuestionState]
      /\ nodes \in [DOMAIN nodes -> EvidenceNode]
      /\ syncing \in SyncState /\ syncing.scanned \subseteq Recorded
    BY DEF EvidenceInv
<1>g. /\ \A j \in joins : {j.from, j.to} \subseteq DOMAIN nodes
      /\ \A d \in Documents : Chunk(d) \in DOMAIN nodes => d \in Cited(Recorded)
      /\ syncing.looked \subseteq Cited(syncing.scanned)
    BY DEF GraphIsGrounded
<1>1. CASE UNCHANGED <<question, nodes, joins, syncing>>
    BY <1>1, <1>g DEF GraphIsGrounded, Cited, Recorded
\* What is recorded stays as it was given.
<1>2. ASSUME NEW q \in Questions,
             \/ \E given \in SUBSET kept, semantic \in BOOLEAN : Ask(q, given, semantic)
             \/ Record(q) \/ FailQuestion(q)
      PROVE  GraphIsGrounded'
    <2>1. /\ question[q].at # "recorded"
          /\ \A r \in Questions \ {q} : question'[r] = question[r]
          /\ UNCHANGED <<nodes, joins, syncing>>
        BY <1>2, <1>t DEF Ask, Record, FailQuestion
    <2>2. Recorded \subseteq Recorded' /\ \A r \in Recorded : question'[r] = question[r]
        BY <2>1 DEF Recorded
    <2>3. Cited(Recorded) \subseteq Cited(Recorded)'
        BY <2>2 DEF Cited
    <2>4. Cited(syncing.scanned)' = Cited(syncing.scanned)
        BY <2>1, <2>2, <1>t DEF Cited
    <2> QED BY <2>1, <2>3, <2>4, <1>g DEF GraphIsGrounded
<1>3. ASSUME UNCHANGED <<question, nodes, joins>>,
             syncing'.looked \subseteq Cited(syncing'.scanned)
      PROVE  GraphIsGrounded'
    BY <1>3, <1>g DEF GraphIsGrounded, Cited, Recorded
<1>4. ASSUME NEW d \in Documents, DeleteDocument(d) \/ LookUpDocument(d)
      PROVE  GraphIsGrounded'
    <2>1. CASE DeleteDocument(d)
        BY <2>1, <1>1 DEF DeleteDocument
    <2>2. CASE LookUpDocument(d)
        <3>1. syncing'.looked = syncing.looked \cup {d} /\ syncing'.scanned = syncing.scanned
            BY <2>2, <1>t DEF LookUpDocument, SyncState
        <3>2. d \in Cited(syncing.scanned) /\ UNCHANGED <<question, nodes, joins>>
            BY <2>2 DEF LookUpDocument
        <3> QED BY <3>1, <3>2, <1>3, <1>g
    <2> QED BY <1>4, <2>1, <2>2
<1>5. CASE BeginSync \/ AbortSync
    <2>1. UNCHANGED <<question, nodes, joins>>
        BY <1>5 DEF BeginSync, AbortSync
    <2>2. syncing'.looked = {}
        <3>1. CASE BeginSync
            BY <3>1 DEF BeginSync, NoSync
        <3>2. CASE AbortSync
            BY <3>2 DEF AbortSync, NoSync
        <3> QED BY <1>5, <3>1, <3>2
    <2> QED BY <2>1, <2>2, <1>3
<1>6. CASE CommitSync
    <2>1. /\ nodes' = Upserted(nodes, Made(syncing))
          /\ joins' = joins \cup UNION { { Informs(d, q) : d \in question[q].given \cap syncing.looked }
                                         : q \in syncing.scanned }
          /\ syncing' = NoSync /\ question' = question
        BY <1>6 DEF CommitSync
    <2>2. DOMAIN nodes' = DOMAIN nodes \cup DOMAIN Made(syncing)
        BY <2>1 DEF Upserted
    <2>3. DOMAIN Made(syncing) =
             { Claim(q) : q \in syncing.scanned } \cup { Chunk(d) : d \in syncing.looked }
        BY DEF Made
    <2>4. ASSUME NEW j \in joins' PROVE {j.from, j.to} \subseteq DOMAIN nodes'
        <3>1. CASE j \in joins
            BY <3>1, <2>2, <1>g
        <3>2. CASE j \notin joins
            <4>1. PICK q \in syncing.scanned :
                        \E d \in question[q].given \cap syncing.looked : j = Informs(d, q)
                BY <3>2, <2>1
            <4>2. PICK d \in syncing.looked : j = Informs(d, q)
                BY <4>1
            <4> QED BY <4>2, <2>2, <2>3 DEF Informs
        <3> QED BY <3>1, <3>2
    <2>5. ASSUME NEW d \in Documents, Chunk(d) \in DOMAIN nodes' PROVE d \in Cited(Recorded)
        <3>1. CASE Chunk(d) \in DOMAIN nodes
            BY <3>1, <1>g
        <3>2. CASE Chunk(d) \in DOMAIN Made(syncing)
            <4>1. d \in syncing.looked
                BY <3>2, <2>3 DEF Claim, Chunk
            <4> QED BY <4>1, <1>g, <1>t DEF Cited
        <3> QED BY <2>5, <2>2, <3>1, <3>2
    <2>6. Cited(Recorded)' = Cited(Recorded)
        BY <2>1 DEF Cited, Recorded
    <2> QED BY <2>1, <2>4, <2>5, <2>6 DEF GraphIsGrounded, NoSync
\* People add no evidence of documents.
<1>7. ASSUME question' = question, syncing' = syncing, joins' = joins,
             DOMAIN nodes \subseteq DOMAIN nodes',
             \A d \in Documents : Chunk(d) \in DOMAIN nodes' => Chunk(d) \in DOMAIN nodes
      PROVE  GraphIsGrounded'
    BY <1>7, <1>g DEF GraphIsGrounded, Cited, Recorded
<1>8. ASSUME NEW status \in Rulings, NEW e \in Entries, CreateNode(e, status)
      PROVE  GraphIsGrounded'
    <2>1. /\ question' = question /\ syncing' = syncing /\ joins' = joins
          /\ DOMAIN nodes' = DOMAIN nodes \cup {Entry(e)}
        BY <1>8 DEF CreateNode, Upserted
    <2>2. \A d \in Documents : Chunk(d) # Entry(e)
        BY DEF Chunk, Entry
    <2> QED BY <2>1, <2>2, <1>7
<1>9. ASSUME NEW status \in Rulings, NEW n \in DOMAIN nodes, UpdateNode(n, status)
      PROVE  GraphIsGrounded'
    <2>1. /\ question' = question /\ syncing' = syncing /\ joins' = joins
          /\ DOMAIN nodes' = DOMAIN nodes
        BY <1>9 DEF UpdateNode
    <2> QED BY <2>1, <1>7
<1>10. ASSUME NEW m \in DOMAIN nodes, NEW n \in DOMAIN nodes, CreateEdge(m, n, "supports")
       PROVE  GraphIsGrounded'
    <2>1. /\ question' = question /\ syncing' = syncing /\ nodes' = nodes
          /\ joins' = joins \cup {[from |-> m, to |-> n, type |-> "supports"]}
        BY <1>10 DEF CreateEdge
    <2> QED BY <2>1, <1>g DEF GraphIsGrounded, Cited, Recorded
<1>11. CASE UNCHANGED evidenceVars
    BY <1>11, <1>1 DEF evidenceVars
<1> QED BY <1>2, <1>4, <1>5, <1>6, <1>8, <1>9, <1>10, <1>11 DEF EvidenceNext

LEMMA EvidenceKeepsItsTypes == EvidenceSpec => []EvidenceTypes
<1>1. EvidenceInit => EvidenceInv /\ GraphIsGrounded
    <2>1. EvidenceInit => GraphIsGrounded
        BY DEF EvidenceInit, GraphIsGrounded, NoSync
    <2> QED BY <2>1, EvidenceBegins
<1>2. EvidenceInv /\ GraphIsGrounded /\ [EvidenceNext]_evidenceVars =>
            (EvidenceInv /\ GraphIsGrounded)'
    BY EvidenceSteps, GraphStaysGrounded
<1>3. GraphIsGrounded => EvidenceTypes
    BY DEF GraphIsGrounded, EvidenceTypes
<1> QED BY <1>1, <1>2, <1>3, PTL DEF EvidenceSpec

LEMMA LearningKeepsItsTypes == LearningSpec => []LearningTypes
<1>1. LearningInit => LearningInv
    BY LearningBegins
<1>2. LearningInv /\ [LearningNext]_learningVars => LearningInv'
    BY LearningSteps
<1>3. LearningInv => LearningTypes
    <2>1. SUFFICES ASSUME LearningInv, NEW l \in Learnings
                   PROVE  /\ \A i \in DOMAIN editions[l] :
                                editions[l][i] \in [status : Statuses, text : 1 .. i, outcome : Bodies]
                          /\ packet[l].edition <= Len(editions[l])
        BY DEF LearningInv, LearningShapes, LearningTypes, EditionsStand, PacketStands
    <2>2. /\ editions[l] \in Seq(Nodes) /\ EditionsStand(l) /\ PacketStands(l)
          /\ DOMAIN editions[l] = 1 .. Len(editions[l]) /\ Len(editions[l]) \in Nat
        BY <2>1 DEF LearningInv, LearningShapes
    <2>3. ASSUME NEW i \in DOMAIN editions[l]
          PROVE  editions[l][i] \in [status : Statuses, text : 1 .. i, outcome : Bodies]
        <3>1. editions[l][i] \in Nodes /\ editions[l][i].text \in 1 .. i
            BY <2>2 DEF EditionsStand
        <3> QED BY <3>1 DEF Nodes
    <2>4. packet[l].edition <= Len(editions[l])
        BY <2>2 DEF PacketStands, IsPicture, NoPacket
    <2> QED BY <2>3, <2>4
<1> QED BY <1>1, <1>2, <1>3, PTL DEF LearningSpec

\* Mails are of rows, and a row counts one acceptance once it is accepted.
AcceptancesAreCounted ==
    /\ mails \in SUBSET [at : Rows, token : Tokens, looked : BOOLEAN]
    /\ inbox \in SUBSET Tokens
    /\ admitted = [i \in Rows |-> IF row[i].accepted THEN 1 ELSE 0]
    /\ \A i \in Rows : row[i].accepted => row[i].made

LEMMA AcceptancesStayCounted ==
    ASSUME InvitationInv, AcceptancesAreCounted, [InvitationsNext]_invitationVars
    PROVE  AcceptancesAreCounted'
<1>t. /\ row \in [Rows -> Row] /\ call \in [Calls -> CallContext]
      /\ \A h \in Calls : call[h].kind \in {"resend", "revoke"} => call[h].at \in Rows
      /\ \A h \in Calls : AcceptanceStands(h)
    BY DEF InvitationInv
<1>a. /\ mails \in SUBSET [at : Rows, token : Tokens, looked : BOOLEAN]
      /\ inbox \in SUBSET Tokens
      /\ admitted = [i \in Rows |-> IF row[i].accepted THEN 1 ELSE 0]
      /\ \A i \in Rows : row[i].accepted => row[i].made
    BY DEF AcceptancesAreCounted
<1>1. ASSUME mails' \in SUBSET [at : Rows, token : Tokens, looked : BOOLEAN],
             inbox' \in SUBSET Tokens, admitted' = admitted,
             \A i \in Rows : row'[i].accepted = row[i].accepted
                             /\ (row[i].made => row'[i].made)
      PROVE  AcceptancesAreCounted'
    BY <1>1, <1>a DEF AcceptancesAreCounted
<1>2. CASE UNCHANGED <<row, mails, inbox, admitted>>
    BY <1>2, <1>1, <1>a
<1>3. ASSUME NEW h \in Calls, StartCall(h) PROVE AcceptancesAreCounted'
    BY <1>3, <1>2 DEF StartCall, BeginCreate, BeginResend, BeginRevoke, BeginAccept,
                      BeginRole, BeginRemove, BeginActivate, BeginCall
<1>4. ASSUME NEW i \in Rows, NEW t \in Tokens PROVE Task(i, t) \in [at : Rows, token : Tokens, looked : BOOLEAN]
    BY DEF Task
<1>5. ASSUME NEW h \in Calls, NEW i \in Rows, NEW t \in Tokens, CreateInvitation(h, i, t)
      PROVE  AcceptancesAreCounted'
    <2>1. /\ ~ row[i].made /\ mails' = mails \cup {Task(i, t)}
          /\ UNCHANGED <<inbox, admitted>>
          /\ row' = [j \in Rows |->
                IF j = i THEN [NoRow EXCEPT !.made = TRUE, !.token = t, !.role = call[h].role]
                ELSE IF j \in call[h].others THEN [row[j] EXCEPT !.revoked = TRUE]
                ELSE row[j]]
        BY <1>5 DEF CreateInvitation
    <2>2. row'[i].made /\ ~ row'[i].accepted /\ ~ row[i].accepted
        BY <2>1, <1>a DEF NoRow
    <2>3. ASSUME NEW j \in Rows \ {i}
          PROVE  row'[j].accepted = row[j].accepted /\ row'[j].made = row[j].made
        BY <2>1, <1>t DEF Row
    <2> QED
        <3>1. \A j \in Rows : row'[j].accepted = row[j].accepted /\ (row[j].made => row'[j].made)
            BY <2>1, <2>2, <2>3, <1>t DEF Row, NoRow
        <3> QED BY <3>1, <2>1, <1>1, <1>4, <1>a
<1>6. ASSUME NEW h \in Calls, NEW t \in Tokens, Resend(h, t) PROVE AcceptancesAreCounted'
    <2>1. /\ call[h].at \in Rows /\ mails' = mails \cup {Task(call[h].at, t)}
          /\ UNCHANGED <<inbox, admitted>>
        BY <1>6, <1>t DEF Resend, EndCall
    <2>2. \A j \in Rows : row'[j].accepted = row[j].accepted /\ (row[j].made => row'[j].made)
        BY <1>6, <1>t DEF Resend, Row
    <2> QED BY <2>1, <2>2, <1>1, <1>4, <1>a
<1>7. ASSUME NEW h \in Calls, RevokeInvitation(h) PROVE AcceptancesAreCounted'
    <2>1. UNCHANGED <<mails, inbox, admitted>>
        BY <1>7 DEF RevokeInvitation
    <2>2. \A j \in Rows : row'[j].accepted = row[j].accepted /\ (row[j].made => row'[j].made)
        BY <1>7, <1>t DEF RevokeInvitation, Row
    <2> QED BY <2>1, <2>2, <1>1, <1>a
<1>8. ASSUME NEW h \in Calls, Accept(h) PROVE AcceptancesAreCounted'
    <2> DEFINE i == call[h].at
    <2>1. i \in Rows /\ row[i].made /\ ~ row[i].accepted
        BY <1>8, <1>t DEF Accept, EndCall, AcceptanceStands
    <2>2. /\ row' = [row EXCEPT ![i].accepted = TRUE]
          /\ admitted' = [admitted EXCEPT ![i] = @ + 1] /\ UNCHANGED <<mails, inbox>>
        BY <1>8 DEF Accept
    <2> HIDE DEF i
    <2>3. \A j \in Rows : row'[j].accepted = (IF j = i THEN TRUE ELSE row[j].accepted)
                          /\ row'[j].made = row[j].made
        BY <2>1, <2>2, <1>t DEF Row
    <2>4. admitted[i] = 0
        BY <2>1, <1>a
    <2>5. admitted' = [j \in Rows |-> IF row'[j].accepted THEN 1 ELSE 0]
        <3>1. admitted' = [j \in Rows |-> IF j = i THEN 1 ELSE admitted[j]]
            BY <2>2, <2>4, <1>a
        <3>2. \A j \in Rows : (IF j = i THEN 1 ELSE admitted[j])
                               = (IF row'[j].accepted THEN 1 ELSE 0)
            BY <2>3, <1>a
        <3> QED BY <3>1, <3>2
    <2> QED BY <2>1, <2>2, <2>3, <2>5, <1>a DEF AcceptancesAreCounted
<1>9. ASSUME NEW h \in Calls, ChangeRole(h) \/ RemoveMember(h) \/ Activate(h) \/ FailCall(h)
      PROVE  AcceptancesAreCounted'
    BY <1>9, <1>2 DEF ChangeRole, RemoveMember, Activate, FailCall
<1>10. ASSUME NEW m \in mails, Deliver(m) PROVE AcceptancesAreCounted'
    <2>1. m \in [at : Rows, token : Tokens, looked : BOOLEAN] /\ UNCHANGED <<row, admitted>>
        BY <1>10, <1>a DEF Deliver, LookBeforeMail, Mail
    <2>2. [m EXCEPT !.looked = TRUE] \in [at : Rows, token : Tokens, looked : BOOLEAN]
        BY <2>1
    <2>3. /\ mails' \in SUBSET [at : Rows, token : Tokens, looked : BOOLEAN]
          /\ inbox' \in SUBSET Tokens
        BY <1>10, <2>1, <2>2, <1>a DEF Deliver, LookBeforeMail, Mail
    <2> QED BY <2>1, <2>3, <1>1
<1>11. ASSUME NEW i \in Rows, ExpireInvitation(i) PROVE AcceptancesAreCounted'
    <2>1. UNCHANGED <<mails, inbox, admitted>>
        BY <1>11 DEF ExpireInvitation
    <2>2. \A j \in Rows : row'[j].accepted = row[j].accepted /\ (row[j].made => row'[j].made)
        BY <1>11, <1>t DEF ExpireInvitation, Row
    <2> QED BY <2>1, <2>2, <1>1, <1>a
<1>12. CASE LoseTasks
    BY <1>12, <1>1, <1>a DEF LoseTasks
<1>13. CASE UNCHANGED invitationVars
    BY <1>13, <1>2 DEF invitationVars
<1> QED BY <1>3, <1>5, <1>6, <1>7, <1>8, <1>9, <1>10, <1>11, <1>12, <1>13
        DEF InvitationsNext, CallStep

LEMMA InvitationsKeepTheirTypes == InvitationsSpec => []InvitationTypes
<1>1. InvitationsInit => InvitationInv /\ AcceptancesAreCounted
    <2>1. InvitationsInit => AcceptancesAreCounted
        BY DEF InvitationsInit, AcceptancesAreCounted, NoRow
    <2> QED BY <2>1, InvitationsBegin
<1>2. InvitationInv /\ AcceptancesAreCounted /\ [InvitationsNext]_invitationVars =>
            (InvitationInv /\ AcceptancesAreCounted)'
    BY InvitationSteps, AcceptancesStayCounted
<1>3. InvitationInv /\ AcceptancesAreCounted => InvitationTypes
    BY DEF InvitationInv, AcceptancesAreCounted, InvitationTypes
<1> QED BY <1>1, <1>2, <1>3, PTL DEF InvitationsSpec

\* The end of what a client got through with, and all of it in order.
EndsWith(times, all) ==
    /\ Len(times) <= Len(all)
    /\ \A i \in 1 .. Len(times) : times[i] = all[Len(all) - Len(times) + i]

InOrder(times) == \A i, j \in 1 .. Len(times) : i < j => times[i] <= times[j]

BucketsAreRecent ==
    \A c \in Clients : EndsWith(bucket[c], passed[c]) /\ InOrder(passed[c])

\* What is recent of an end is an end.
LEMMA RecentEnds ==
    ASSUME NEW times \in Seq(Nat), NEW all \in Seq(Nat), clock \in Nat,
           EndsWith(times, all)
    PROVE  EndsWith(Recent(times), all)
<1> DEFINE left == Recent(times)
           n == Outdated(times)
<1>1. /\ left \in Seq(Nat) /\ Len(left) = Len(times) - n
      /\ \A i \in 1 .. Len(left) : left[i] = times[i + n]
      /\ n \in 0 .. Len(times)
    BY RecentStands, OutdatedStands
<1> HIDE DEF left, n
<1>2. Len(times) \in Nat /\ Len(all) \in Nat /\ Len(left) \in Nat
    BY <1>1
<1>3. ASSUME NEW i \in 1 .. Len(left) PROVE left[i] = all[Len(all) - Len(left) + i]
    <2>1. i + n \in 1 .. Len(times)
        BY <1>1, <1>2
    <2>2. times[i + n] = all[Len(all) - Len(times) + (i + n)]
        BY <2>1 DEF EndsWith
    <2>3. Len(all) - Len(times) + (i + n) = Len(all) - Len(left) + i
        BY <1>1, <1>2
    <2> QED BY <1>1, <2>2, <2>3
<1>4. Len(left) <= Len(all)
    BY <1>1, <1>2 DEF EndsWith
<1> QED BY <1>3, <1>4 DEF EndsWith, left

\* An instant is added to both, and is not before any other.
LEMMA EndsAppend ==
    ASSUME NEW times \in Seq(Nat), NEW all \in Seq(Nat), NEW t \in Nat,
           EndsWith(times, all), InOrder(all), \A i \in 1 .. Len(all) : all[i] <= t
    PROVE  EndsWith(Append(times, t), Append(all, t)) /\ InOrder(Append(all, t))
<1> DEFINE more == Append(times, t)
           whole == Append(all, t)
<1>1. /\ Len(more) = Len(times) + 1 /\ Len(whole) = Len(all) + 1
      /\ \A i \in 1 .. Len(times) : more[i] = times[i]
      /\ \A i \in 1 .. Len(all) : whole[i] = all[i]
      /\ more[Len(times) + 1] = t /\ whole[Len(all) + 1] = t
      /\ Len(times) \in Nat /\ Len(all) \in Nat
    BY AppendProperties
<1> HIDE DEF more, whole
<1>2. ASSUME NEW i \in 1 .. Len(more) PROVE more[i] = whole[Len(whole) - Len(more) + i]
    <2>1. CASE i = Len(times) + 1
        <3>1. Len(whole) - Len(more) + i = Len(all) + 1
            BY <2>1, <1>1
        <3> QED BY <3>1, <2>1, <1>1
    <2>2. CASE i \in 1 .. Len(times)
        <3>1. /\ Len(whole) - Len(more) + i = Len(all) - Len(times) + i
              /\ Len(all) - Len(times) + i \in 1 .. Len(all)
            BY <2>2, <1>1 DEF EndsWith
        <3>2. times[i] = all[Len(all) - Len(times) + i]
            BY <2>2 DEF EndsWith
        <3> QED BY <3>1, <3>2, <2>2, <1>1
    <2> QED BY <1>1, <2>1, <2>2
<1>3. ASSUME NEW i \in 1 .. Len(whole), NEW j \in 1 .. Len(whole), i < j
      PROVE  whole[i] <= whole[j]
    <2>1. i \in 1 .. Len(all)
        BY <1>1, <1>3
    <2>2. CASE j \in 1 .. Len(all)
        BY <2>1, <2>2, <1>1, <1>3 DEF InOrder
    <2>3. CASE j = Len(all) + 1
        BY <2>1, <2>3, <1>1
    <2> QED BY <1>1, <2>2, <2>3
<1>4. Len(more) <= Len(whole)
    BY <1>1 DEF EndsWith
<1> QED BY <1>2, <1>3, <1>4 DEF EndsWith, InOrder, more, whole

LEMMA BucketsStayRecent ==
    ASSUME LimiterInv, BucketsAreRecent, [LimiterNext]_limiterVars
    PROVE  BucketsAreRecent'
<1>t. /\ clock \in Nat
      /\ bucket \in [Clients -> Seq(Nat)] /\ passed \in [Clients -> Seq(Nat)]
      /\ \A c \in Clients : \A i \in DOMAIN passed[c] : passed[c][i] <= clock
    BY DEF LimiterInv, InstantsStand
<1>1. CASE UNCHANGED <<bucket, passed>>
    BY <1>1 DEF BucketsAreRecent
<1>2. CASE Restart
    <2>1. bucket' = [c \in Clients |-> <<>>] /\ passed' = passed
        BY <1>2 DEF Restart
    <2>2. ASSUME NEW c \in Clients PROVE EndsWith(<<>>, passed[c])
        <3>1. Len(<<>>) = 0 /\ Len(passed[c]) \in Nat
            BY <1>t
        <3> QED BY <3>1 DEF EndsWith
    <2> QED BY <2>1, <2>2 DEF BucketsAreRecent
<1>3. ASSUME NEW c \in Clients, Admit(c) PROVE BucketsAreRecent'
    <2> DEFINE times == Recent(bucket[c])
    <2>1. /\ bucket' = [bucket EXCEPT ![c] = Append(times, clock)]
          /\ passed' = [passed EXCEPT ![c] = Append(@, clock)]
        BY <1>3 DEF Admit
    <2>2. times \in Seq(Nat) /\ EndsWith(times, passed[c])
        BY <1>t, RecentStands, RecentEnds DEF BucketsAreRecent
    <2> HIDE DEF times
    <2>3. \A i \in 1 .. Len(passed[c]) : passed[c][i] <= clock
        BY <1>t
    <2>4. EndsWith(Append(times, clock), Append(passed[c], clock)) /\ InOrder(Append(passed[c], clock))
        BY <2>2, <2>3, <1>t, EndsAppend DEF BucketsAreRecent
    <2>5. ASSUME NEW d \in Clients PROVE EndsWith(bucket'[d], passed'[d]) /\ InOrder(passed'[d])
        <3>1. CASE d = c
            BY <3>1, <2>1, <2>4, <1>t
        <3>2. CASE d # c
            BY <3>2, <2>1, <1>t DEF BucketsAreRecent
        <3> QED BY <3>1, <3>2
    <2> QED BY <2>5 DEF BucketsAreRecent
<1>4. ASSUME NEW c \in Clients, Refused(c) PROVE BucketsAreRecent'
    <2>1. bucket' = [bucket EXCEPT ![c] = Recent(bucket[c])] /\ passed' = passed
        BY <1>4 DEF Refused
    <2>2. EndsWith(Recent(bucket[c]), passed[c])
        BY <1>t, RecentEnds DEF BucketsAreRecent
    <2> QED BY <2>1, <2>2, <1>t DEF BucketsAreRecent
<1> QED BY <1>1, <1>2, <1>3, <1>4 DEF LimiterNext, limiterVars, Pass

LEMMA LimiterKeepsItsTypes == LimiterSpec => []LimiterTypes
<1>1. LimiterInit => LimiterInv /\ BucketsAreRecent
    <2>1. LimiterInit => BucketsAreRecent
        BY DEF LimiterInit, BucketsAreRecent, EndsWith, InOrder
    <2> QED BY <2>1, LimiterBegins
<1>2. LimiterInv /\ BucketsAreRecent /\ [LimiterNext]_limiterVars =>
            (LimiterInv /\ BucketsAreRecent)'
    BY LimiterSteps, BucketsStayRecent
<1>3. LimiterInv /\ BucketsAreRecent => LimiterTypes
    <2> SUFFICES ASSUME LimiterInv, BucketsAreRecent, NEW c \in Clients
                 PROVE  /\ Len(bucket[c]) <= Limit
                        /\ Len(bucket[c]) <= Len(passed[c])
                        /\ bucket[c] = SubSeq(passed[c], Len(passed[c]) - Len(bucket[c]) + 1,
                                              Len(passed[c]))
                        /\ \A i, j \in DOMAIN passed[c] : i < j => passed[c][i] <= passed[c][j]
        BY DEF LimiterTypes
    <2> DEFINE b == bucket[c]
               p == passed[c]
               m == Len(p) - Len(b) + 1
               end == SubSeq(p, m, Len(p))
    <2>1. /\ b \in Seq(Nat) /\ p \in Seq(Nat) /\ Len(b) <= Limit
          /\ EndsWith(b, p) /\ InOrder(p)
        BY DEF LimiterInv, InstantsStand, BucketsAreRecent
    <2> HIDE DEF b, p
    <2>2. /\ Len(b) \in Nat /\ Len(p) \in Nat /\ m \in Int /\ DOMAIN p = 1 .. Len(p)
          /\ \A i \in m .. Len(p) : p[i] \in Nat
        BY <2>1, ElementOfSeq DEF EndsWith
    <2>3. /\ end \in Seq(Nat) /\ Len(end) = IF m <= Len(p) THEN Len(p) - m + 1 ELSE 0
          /\ \A i \in 1 .. Len(p) - m + 1 : end[i] = p[m + i - 1]
        BY <2>2, SubSeqProperties
    <2>4. Len(end) = Len(b)
        BY <2>1, <2>2, <2>3 DEF EndsWith
    <2>5. ASSUME NEW i \in 1 .. Len(b) PROVE b[i] = end[i]
        <3>1. i \in 1 .. Len(p) - m + 1 /\ m + i - 1 = Len(p) - Len(b) + i
            BY <2>2
        <3>2. end[i] = p[m + i - 1] /\ b[i] = p[Len(p) - Len(b) + i]
            BY <3>1, <2>1, <2>3 DEF EndsWith
        <3> QED BY <3>1, <3>2
    <2>6. b = end
        <3> HIDE DEF end
        <3> QED BY <2>1, <2>3, <2>4, <2>5, SeqEqual
    <2> QED BY <2>1, <2>2, <2>6 DEF EndsWith, InOrder, b, p
<1> QED BY <1>1, <1>2, <1>3, PTL DEF LimiterSpec

-----------------------------------------------------------------------------
(***************************************************************************)
(* The parts together.  They share no variable: a step of one leaves the   *)
(* others as they are, so that each runs by its own specification.         *)
(***************************************************************************)

LEMMA AccountsRunTheirParts == PlatformSpec => Spec /\ InvitationsSpec /\ LimiterSpec
<1>1. PlatformInit => Init /\ InvitationsInit /\ LimiterInit
    BY DEF PlatformInit
<1>2. [PlatformNext]_<<part, accountVars, pilotVars>> =>
            [Next]_vars /\ [InvitationsNext]_invitationVars /\ [LimiterNext]_limiterVars
    BY DEF PlatformNext, AccountsMove, accountVars
<1> QED BY <1>1, <1>2, PTL DEF PlatformSpec, Spec, InvitationsSpec, LimiterSpec

LEMMA PilotRunsItsParts == PlatformSpec => LearningSpec /\ EvidenceSpec /\ RetrievalSpec
<1>1. PlatformInit => LearningInit /\ EvidenceInit /\ RetrievalInit
    BY DEF PlatformInit
<1>2. [PlatformNext]_<<part, accountVars, pilotVars>> =>
            /\ [LearningNext]_learningVars
            /\ [EvidenceNext]_evidenceVars
            /\ [RetrievalNext]_retrievalVars
    BY DEF PlatformNext, PilotMoves, pilotVars
<1> QED BY <1>1, <1>2, PTL DEF PlatformSpec, LearningSpec, EvidenceSpec, RetrievalSpec

\* Every part of the platform keeps its types, whatever there is of requests,
\* calls, clients, learnings, documents and retrievals: an invitation counts
\* one acceptance, a bucket is the end of what a client got through with, and
\* evidence is of what was retrieved.
THEOREM PlatformKeepsItsTypes == PlatformSpec => []PlatformTypes
<1>1. AccessInv => AccessTypes
    BY DEF AccessInv
<1> QED BY <1>1, AccountsRunTheirParts, PilotRunsItsParts, AccessStands,
           InvitationsKeepTheirTypes, LimiterKeepsItsTypes, LearningKeepsItsTypes,
           EvidenceKeepsItsTypes, RetrievalKeepsItsTypes, PTL DEF PlatformTypes

\* What each part promises holds of all of them together.
THEOREM PlatformStands ==
    PlatformSpec =>
        /\ []LoneChangesEndSessions /\ DeadSecretsChangeNothing
        /\ InvitationsAreKept /\ []LimiterKeepsItsWord
        /\ PacketsAreFaithful /\ []EvidenceIsKept /\ RankingsAreSound
BY AccountsRunTheirParts, PilotRunsItsParts, SessionsEndWithChanges, DeadSecretsStayDead,
   InvitationsStand, LimiterStands, PacketsStayFaithful, EvidenceLasts, RetrievalIsSound, PTL
=============================================================================
