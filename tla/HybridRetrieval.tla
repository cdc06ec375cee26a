--------------------------- MODULE HybridRetrieval ---------------------------
(***************************************************************************)
(* How a pilot question finds its excerpts: the chunks of the mission's    *)
(* files are ranked by the words they share with the question and by the   *)
(* distance of their embeddings, which are cached in the database and      *)
(* asked of a provider, batch by batch, when they are missing; the two     *)
(* rankings are fused.  A failure on the way leaves the words alone.  What *)
(* is modelled is where the vectors come from.                             *)
(*                                                                         *)
(* Retrievals begin with CREATE INDEX IF NOT EXISTS, whose SHARE lock on   *)
(* the cache lasts until their commit and keeps every other retrieval from *)
(* inserting: of two with something to insert one is undone as a deadlock. *)
(*                                                                         *)
(* Chunks are numbered in the order they are cut.  A chunk's text is a     *)
(* version, its hash the same version, and a vector is that of a version.  *)
(***************************************************************************)
EXTENDS Naturals, FiniteSets

CONSTANTS
    Chunks,        \* 1 .. n
    Versions,      \* texts a chunk may have
    Retrievals,    \* questions under way at once
    BatchSize      \* SRIS_EMBEDDING_BATCH_SIZE

ASSUME RetrievalAssumption ==
    /\ Chunks \subseteq Nat /\ IsFiniteSet(Chunks)
    /\ Versions # {} /\ 0 \notin Versions /\ BatchSize \in Nat \ {0}

VARIABLES
    texts,      \* of a chunk: its version, as the files stand
    cache,      \* pilot_semantic_chunks: of a chunk, its hash and its vector
    lookup      \* of a retrieval: see Waiting

retrievalVars == <<texts, cache, lookup>>

NoVersion == 0
Uncached == [hash |-> NoVersion, vector |-> NoVersion]

\* No retrieval: what it read of the files, the vectors it has, the rows it
\* has written, and whether the ranking by distance stands.
Waiting == [at |-> "idle", texts |-> <<>>,
            vectors |-> [c \in Chunks |-> NoVersion], wrote |-> {}, status |-> "none"]

RetrievalInit ==
    /\ texts \in [Chunks -> {CHOOSE v \in Versions : TRUE}]
    /\ cache = [c \in Chunks |-> Uncached]
    /\ lookup = [l \in Retrievals |-> Waiting]

\* The file of a chunk gets another text, or its text is cut elsewhere.
Replace(c, v) ==
    /\ texts[c] # v
    /\ texts' = [texts EXCEPT ![c] = v]
    /\ UNCHANGED <<cache, lookup>>

\* _materialize_chunks: the chunks of the files as they are now.
Materialized == texts

BeginLookup(l, semantic) ==
    /\ lookup[l].at = "idle"
    /\ lookup' = [lookup EXCEPT ![l] =
            [Waiting EXCEPT !.at = IF semantic THEN "opening" ELSE "answered",
                            !.texts = Materialized,
                            !.status = IF semantic THEN "none" ELSE "disabled"]]
    /\ UNCHANGED <<texts, cache>>

\* Retrievals that have inserted hold a lock the schema statements wait for.
Holding(l) == lookup[l].at \in {"embedding", "inserting", "committing"}

\* _load_cached_embeddings: by file, ordinal and hash.
Cached(c, hash) ==
    IF cache[c].hash = hash THEN cache[c].vector ELSE NoVersion

Open(l) ==
    /\ lookup[l].at = "opening"
    /\ \A o \in Retrievals : lookup[o].wrote = {}
    /\ lookup' = [lookup EXCEPT
            ![l].vectors = [c \in Chunks |-> Cached(c, lookup[l].texts[c])],
            ![l].at = "embedding"]
    /\ UNCHANGED <<texts, cache>>

\* The next batch of chunks without a vector.
Missing(l) == {c \in Chunks : lookup[l].vectors[c] = NoVersion}
Batch(l) == {c \in Missing(l) : Cardinality({d \in Missing(l) : d < c}) < BatchSize}

\* The provider returns the vectors of a batch.
Embed(l) ==
    /\ lookup[l].at = "embedding" /\ Missing(l) # {}
    /\ lookup' = [lookup EXCEPT
            ![l].vectors = [c \in Chunks |-> IF c \in Batch(l) THEN lookup[l].texts[c]
                                             ELSE lookup[l].vectors[c]],
            ![l].at = "inserting"]
    /\ UNCHANGED <<texts, cache>>

\* Vectors in hand that neither the cache nor an insertion of its own holds.
FreshLookup(l) == {c \in Chunks \ Missing(l) :
                c \notin lookup[l].wrote
                /\ cache[c] # [hash |-> lookup[l].texts[c], vector |-> lookup[l].vectors[c]]}

\* _persist_embedding: inserted, or over the row of an earlier text.
Insert(l) ==
    /\ lookup[l].at = "inserting"
    /\ \A o \in Retrievals \ {l} : ~ Holding(o)
    /\ lookup' = [lookup EXCEPT ![l].wrote = @ \cup FreshLookup(l), ![l].at = "embedding"]
    /\ UNCHANGED <<texts, cache>>

\* The question's own vector, once no chunk lacks one.
AskVector(l) ==
    /\ lookup[l].at = "embedding" /\ Missing(l) = {}
    /\ lookup' = [lookup EXCEPT ![l].at = "committing", ![l].status = "ready"]
    /\ UNCHANGED <<texts, cache>>

Commit(l) ==
    /\ lookup[l].at = "committing"
    /\ cache' = [c \in Chunks |->
            IF c \in lookup[l].wrote
            THEN [hash |-> lookup[l].texts[c], vector |-> lookup[l].vectors[c]]
            ELSE cache[c]]
    /\ lookup' = [lookup EXCEPT ![l].at = "answered", ![l].wrote = {}]
    /\ UNCHANGED texts

\* Mutant: the ranking by distance survives a commit that fails.
FallenBackLate(r) == [r EXCEPT !.at = "answered", !.wrote = {}]

FallenBack(r) ==
    [r EXCEPT !.at = "answered", !.wrote = {}, !.status = "fallback_lexical"]

\* Any exception: the provider's, a deadlock's, or the commit's.
FailLookup(l) ==
    /\ Holding(l) \/ lookup[l].at = "opening"
    /\ lookup' = [lookup EXCEPT ![l] = FallenBack(lookup[l])]
    /\ UNCHANGED <<texts, cache>>

\* The request moves on to the answer.
ReturnVectors(l) ==
    /\ lookup[l].at = "answered"
    /\ lookup' = [lookup EXCEPT ![l] = Waiting]
    /\ UNCHANGED <<texts, cache>>

RetrievalNext ==
    \/ \E c \in Chunks, v \in Versions : Replace(c, v)
    \/ \E l \in Retrievals :
        \/ \E semantic \in BOOLEAN : BeginLookup(l, semantic)
        \/ Open(l) \/ Embed(l) \/ Insert(l) \/ AskVector(l) \/ Commit(l)
        \/ FailLookup(l) \/ ReturnVectors(l)

RetrievalSpec == RetrievalInit /\ [][RetrievalNext]_retrievalVars

------------------------------------------------------------------------------
\* What a retrieval's ranking may be trusted for.

\* Rows and vectors are of versions; a retrieval has written only what it holds.
RetrievalTypes ==
    /\ texts \in [Chunks -> Versions]
    /\ \A c \in Chunks : cache[c] = Uncached \/ cache[c].hash \in Versions
    /\ \A l \in Retrievals : \A c \in lookup[l].wrote : lookup[l].vectors[c] # NoVersion

\* A vector stands for the text it was made from: in the cache, and in a
\* ranking by distance, whatever became of the files or of other retrievals
\* meanwhile ("The vector is never the source of truth").
VectorsMatchTheirText ==
    /\ \A c \in Chunks : cache[c].vector = cache[c].hash
    /\ \A l \in Retrievals : \A c \in Chunks :
          lookup[l].vectors[c] \in {NoVersion} \cup
              (IF lookup[l].at = "idle" THEN {} ELSE {lookup[l].texts[c]})

\* Distances count for all chunks or for none, and are used only once they are
\* kept: a batch, the question's own vector or the commit that fails takes the
\* whole ranking by distance with it.
DistancesAreWhole ==
    [][\A l \in Retrievals :
        lookup'[l].at = "answered" /\ lookup[l].at # "answered"
        /\ lookup'[l].status = "ready" =>
            \A c \in Chunks :
                cache'[c] = [hash |-> lookup[l].texts[c],
                             vector |-> lookup[l].texts[c]]]_retrievalVars

\* A ranking by distance is of the texts that are there, and of all of them.
RankingsAreSound == []VectorsMatchTheirText /\ DistancesAreWhole
==============================================================================
