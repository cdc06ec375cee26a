--------------------------- MODULE MissionArchive ---------------------------
(***************************************************************************)
(* The archive's index: excerpts of a mission's attachments and preserved  *)
(* reports, derived from the sources and replaceable.  Uploads and reports *)
(* are indexed with the commit that stores them; a dialogue turn indexes,  *)
(* a batch at a time, the sources that precede the index.                  *)
(*                                                                         *)
(* Excerpts have a unique key of source and ordinal, and those of an       *)
(* attachment refer to it: who inserts them waits for who has inserted the *)
(* same and not committed, and who deletes an attachment waits for them.   *)
(***************************************************************************)
EXTENDS TextChunks

CONSTANTS
    Uploads, Reports,     \* sources: contents of attachments, intelligence runs
    Texts,              \* there may be
    Indexers,           \* requests under way
    BatchSize           \* sources one turn indexes

ASSUME TextsAssumption == Texts \subseteq Seq(Characters)

ArchiveSources == Uploads \cup Reports

VARIABLES
    text,       \* of a source
    stored,     \* sources that are in their tables
    index,      \* of a source: its excerpts, each with the request it is from
    hand        \* of a request: see Unhanded

archiveVars == <<text, stored, index, hand>>

\* The sources picked and not yet indexed; the excerpts found of one of them,
\* by source; and the sources written and not committed, each with those found.
Unhanded == [at |-> "idle", picked |-> {}, found |-> {}, wrote |-> {}]

\* Legacy sources are stored and not indexed.
ArchiveInit ==
    /\ text \in [ArchiveSources -> Texts]
    /\ stored \in SUBSET ArchiveSources
    /\ index = [s \in ArchiveSources |-> {}]
    /\ hand = [h \in Indexers |-> Unhanded]

\* index_archive_source: the excerpts of a source, by a request.
Cuttings(s, h) == { [start |-> r.start, end |-> r.end, by |-> h] : r \in ArchiveRanges(text[s]) }

\* create_attachment: a content that is stored is returned as it is, one that
\* is not will be inserted; or a turn will store its report.
BeginStore(h, s) ==
    /\ hand[h] = Unhanded
    /\ s \notin stored
    /\ hand' = [hand EXCEPT ![h] = [Unhanded EXCEPT !.at = "storing", !.picked = {s}]]
    /\ UNCHANGED <<text, stored, index>>

\* The source and its excerpts, in one commit.  Of two requests that store one
\* content the unique key stops the second.
StoreSource(h) ==
    /\ hand[h].at = "storing"
    /\ \E s \in hand[h].picked :
        /\ s \notin stored
        /\ stored' = stored \cup {s}
        /\ index' = [index EXCEPT ![s] = Cuttings(s, h)]
    /\ hand' = [hand EXCEPT ![h] = Unhanded]
    /\ UNCHANGED text

\* backfill_mission_archive_index, backfill_mission_run_archive: sources that
\* have a text and no excerpt, as many as the batch takes.
BeginBackfill(h, picked) ==
    /\ hand[h] = Unhanded
    /\ picked # {} /\ Cardinality(picked) <= BatchSize
    /\ \A s \in picked : s \in stored /\ text[s] # <<>> /\ index[s] = {}
    /\ hand' = [hand EXCEPT ![h] = [Unhanded EXCEPT !.at = "backfilling", !.picked = picked]]
    /\ UNCHANGED <<text, stored, index>>

\* The excerpts a source has, which this request will delete.
LookUpIndex(h, s) ==
    /\ hand[h].at = "backfilling" /\ s \in hand[h].picked
    /\ hand' = [hand EXCEPT ![h].at = "indexing",
                            ![h].found = {[source |-> s, rows |-> index[s]]}]
    /\ UNCHANGED <<text, stored, index>>

Inserting(h, s) == \E w \in hand[h].wrote : w.source = s

\* Mutant: excerpts have no unique key.
KeyIsFreeAlways(s, found) == TRUE

\* No excerpt of this source but those found, which have been deleted.
KeyIsFree(s, found) == index[s] \subseteq found

InsertExcerpts(h) ==
    /\ hand[h].at = "indexing"
    /\ \E f \in hand[h].found :
        /\ \A o \in Indexers \ {h} : ~Inserting(o, f.source)
        /\ KeyIsFree(f.source, f.rows)
        /\ hand' = [hand EXCEPT ![h] =
                        [at |-> "backfilling", picked |-> hand[h].picked \ {f.source},
                         found |-> {}, wrote |-> hand[h].wrote \cup {f}]]
    /\ UNCHANGED <<text, stored, index>>

\* The turn commits what it has indexed before it goes on.
EndBackfill(h) ==
    /\ hand[h].at = "backfilling" /\ hand[h].picked = {}
    /\ index' = [s \in ArchiveSources |->
            IF Inserting(h, s)
            THEN Cuttings(s, h)
                 \cup (index[s] \ UNION { w.rows : w \in hand[h].wrote })
            ELSE index[s]]
    /\ hand' = [hand EXCEPT ![h] = Unhanded]
    /\ UNCHANGED <<text, stored>>

\* delete_attachment: its excerpts go with it, and whoever has it in hand to
\* index it will fail on the attachment its excerpts refer to.
DeleteSource(f) ==
    /\ f \in stored \cap Uploads
    /\ \A h \in Indexers : ~Inserting(h, f)
    /\ stored' = stored \ {f}
    /\ index' = [index EXCEPT ![f] = {}]
    /\ hand' = [h \in Indexers |->
                    IF hand[h].at # "storing" /\ f \in hand[h].picked
                    THEN [hand[h] EXCEPT !.at = "failing"] ELSE hand[h]]
    /\ UNCHANGED text

\* A unique key, a missing attachment or any other failure.
Undo(h) ==
    /\ hand[h] # Unhanded
    /\ hand' = [hand EXCEPT ![h] = Unhanded]
    /\ UNCHANGED <<text, stored, index>>

ArchiveNext ==
    \/ \E h \in Indexers :
        \/ \E s \in ArchiveSources : BeginStore(h, s) \/ LookUpIndex(h, s)
        \/ \E picked \in SUBSET ArchiveSources : BeginBackfill(h, picked)
        \/ StoreSource(h) \/ InsertExcerpts(h) \/ EndBackfill(h) \/ Undo(h)
    \/ \E f \in Uploads : DeleteSource(f)

ArchiveSpec == ArchiveInit /\ [][ArchiveNext]_archiveVars

------------------------------------------------------------------------------
(***************************************************************************)
(* What the archive's index holds of its sources.                          *)
(***************************************************************************)

\* Only what is stored is indexed.
ArchiveTypes ==
    \A s \in ArchiveSources : index[s] # {} => s \in stored

(***************************************************************************)
(* The index of a source is empty or whole: the excerpts one request has   *)
(* cut of it, each once, whatever other turns, uploads and deletions were  *)
(* doing.                                                                  *)
(***************************************************************************)
IndexIsWhole ==
    \A s \in ArchiveSources :
        index[s] # {} =>
            \E h \in Indexers : index[s] = Cuttings(s, h)

(***************************************************************************)
(* Neither way of cutting loses anything of a text but line breaks.        *)
(***************************************************************************)
ExcerptsLoseNothing ==
    \A s \in ArchiveSources :
        /\ Covers(text[s], ArchiveRanges(text[s]))
        /\ Covers(text[s], PilotRanges(text[s]))
==============================================================================
