-------------------------- MODULE InheritedLearning --------------------------
(***************************************************************************)
(* Learnings that missions inherit from one another as canonical records:  *)
(* a mission writes a learning, based on records it has; another mission   *)
(* reviews it, and what it decides replaces the copy it holds.             *)
(*                                                                         *)
(* A request reads the documents it needs and writes its own one some      *)
(* queries later.  It holds no lock: the history's unique key of mission   *)
(* and revision stops it when the document has been written in between.    *)
(* A document is validated when it is read, never when it is written.      *)
(***************************************************************************)
EXTENDS Naturals, Sequences

CONSTANTS
    Homes,          \* missions
    Lessons,        \* learnings there may be
    Edits,          \* requests
    MaxRevision     \* of a document

ASSUME InheritanceAssumption == MaxRevision \in Nat \ {0}

VARIABLES
    held,       \* of a mission: [revision, records, basis, decided]
    edit        \* of a request: the mission it writes and the document it will
                \* write, with the revision it has read; at "idle" nothing

inheritVars == <<held, edit>>

Judgements == {"still_valid", "requires_revalidation", "invalidated"}

(***************************************************************************)
(* A record's identity is its lesson and the missions it came through,     *)
(* which is what _inherited_record_id hashes: none if it was written here. *)
(***************************************************************************)
Ident(lesson, via) == [lesson |-> lesson, via |-> via]

InheritedEntry(id, kind) == [id |-> id, kind |-> kind]

BlankPage == [revision |-> 1, records |-> {}, basis |-> {}, decided |-> {}]

Free == [at |-> "idle", home |-> CHOOSE h \in Homes : TRUE, page |-> BlankPage]

InheritInit ==
    /\ held = [h \in Homes |-> BlankPage]
    /\ edit = [e \in Edits |-> Free]

Idents(page) == { r.id : r \in page.records }

\* validate_identity_graph: identities are unique, relations meet records.
Readable(page) ==
    /\ \A r, s \in page.records : r.id = s.id => r = s
    /\ \A b \in page.basis : b.of \in Idents(page) /\ b.on \in Idents(page)

\* expected_revision is the document's, which can be read; e will write page.
BeginEdit(e, h, page) ==
    /\ edit[e] = Free
    /\ held[h].revision < MaxRevision
    /\ Readable(held[h])
    /\ edit' = [edit EXCEPT ![e] = [at |-> "writing", home |-> h,
                    page |-> [page EXCEPT !.revision = held[h].revision + 1]]]
    /\ UNCHANGED held

\* create_canonical_learning; its identity is new, its basis is known.
BeginLesson(e, h, lesson, basis) ==
    LET id == Ident(lesson, <<>>)
        taken == { p.records : p \in { held[g] : g \in Homes }
                                      \cup { edit[f].page : f \in Edits } }
    IN  /\ \A records \in taken : \A r \in records : r.id.lesson # lesson
        /\ basis \subseteq Idents(held[h])
        /\ BeginEdit(e, h, [held[h] EXCEPT
                !.records = @ \cup {InheritedEntry(id, "learning")},
                !.basis = @ \cup { [of |-> id, on |-> b] : b \in basis }])

\* Mutant: whatever is a learning may be inherited, copies included.
OriginalOrCopy(r) == r.kind = "learning"

\* A learning that was written where it is inherited from.
Original(r) == r.kind = "learning" /\ r.id.via = <<>>

\* The records that stay: all but the earlier copy.
Others(page, id, verdict) == { r \in page.records : r.id # id }

Copy(id, verdict) ==
    IF verdict = "still_valid" THEN {InheritedEntry(id, "learning")}
    ELSE IF verdict = "requires_revalidation" THEN {InheritedEntry(id, "hypothesis")}
    ELSE {}

(***************************************************************************)
(* review_inherited_learning: the copy is replaced and the decision is     *)
(* noted under its key; relations are left alone.                          *)
(***************************************************************************)
BeginVerdict(e, h, source, r, verdict) ==
    LET id == Ident(r.id.lesson, Append(r.id.via, source))
    IN  /\ source # h
        /\ Readable(held[source])
        /\ r \in held[source].records
        /\ Original(r)
        /\ BeginEdit(e, h, [held[h] EXCEPT
                !.records = Others(held[h], id, verdict) \cup Copy(id, verdict),
                !.decided = { d \in @ : d.id # id }
                            \cup {[id |-> id, verdict |-> verdict,
                                   revision |-> held[source].revision]}])

\* Mutant: the history has no unique key.
UnracedAlways(e) == TRUE

\* No history row of this mission and revision.
Unraced(e) == held[edit[e].home].revision + 1 = edit[e].page.revision

\* _persist_document.
Persist(e) ==
    /\ edit[e].at = "writing"
    /\ Unraced(e)
    /\ held' = [held EXCEPT ![edit[e].home] = edit[e].page]
    /\ edit' = [edit EXCEPT ![e] = Free]

\* The unique key, or any failure before the commit.
Lose(e) ==
    /\ edit[e].at = "writing"
    /\ edit' = [edit EXCEPT ![e] = Free]
    /\ UNCHANGED held

InheritNext ==
    \E e \in Edits :
        \/ \E h \in Homes, lesson \in Lessons : \E b \in SUBSET Idents(held[h]) :
                BeginLesson(e, h, lesson, b)
        \/ \E h, s \in Homes, v \in Judgements : \E r \in held[s].records :
                BeginVerdict(e, h, s, r, v)
        \/ Persist(e)
        \/ Lose(e)

InheritSpec == InheritInit /\ [][InheritNext]_inheritVars

------------------------------------------------------------------------------
(***************************************************************************)
(* What a mission's document says of the learnings it has inherited.       *)
(***************************************************************************)

\* Every document has its type; nothing is inherited twice over: a copy came
\* through one mission, where it was written, and never returns to its own.
InheritTypes ==
    \A h \in Homes :
        /\ held[h].revision \in 1 .. MaxRevision
        /\ \A r \in held[h].records :
            /\ r.id.lesson \in Lessons
            /\ r.kind \in {"learning", "hypothesis"}
            /\ Len(r.id.via) <= 1
            /\ r.id.via # <<h>>
        /\ \A d \in held[h].decided : d.revision <= held[d.id.via[1]].revision

(***************************************************************************)
(* The copy a mission holds is the one its last decision calls for: a      *)
(* learning while it is still valid, a hypothesis while it is to be        *)
(* revalidated, none once it is invalidated, whatever was decided before   *)
(* and whoever else was writing.                                           *)
(***************************************************************************)
CopiesFollowDecisions ==
    \A h \in Homes :
        LET copies == { r \in held[h].records : r.id.via # <<>> }
        IN  copies = UNION { Copy(d.id, d.verdict) : d \in held[h].decided }

(***************************************************************************)
(* Optimistic concurrency: two reviewers of one mission never undo each    *)
(* other's decisions or learnings unseen; a step of the system changes one *)
(* decision at most, or adds one learning.                                 *)
(***************************************************************************)
ReviewsAreKept ==
    [][\A h \in Homes :
        /\ { d.id : d \in held[h].decided } \subseteq { d.id : d \in held'[h].decided }
        /\ \A c, d \in held[h].decided \ held'[h].decided : c = d
        /\ \A r \in held[h].records \ held'[h].records : r.id.via # <<>>
      ]_inheritVars

(***************************************************************************)
(* contracts.py 107 to 116: a mission's relations reference existing       *)
(* records, without which its document cannot be read.                     *)
(***************************************************************************)
DocumentsStayReadable == \A h \in Homes : Readable(held[h])

\* What was decided about a learning is what the mission holds, and no other
\* writer undoes it unseen.
InheritanceIsKept == []CopiesFollowDecisions /\ ReviewsAreKept
==============================================================================
