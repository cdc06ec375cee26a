--------------------------- MODULE KnowledgeProofs ---------------------------
(***************************************************************************)
(* For any number of missions, requests and records: what was decided of a *)
(* learning is what a mission holds, nothing is made of what nobody        *)
(* reviewed or said, the memory's items say what their missions said, and  *)
(* a report is about what its document holds.  Each component has its      *)
(* inductive invariant here.                                               *)
(*                                                                         *)
(* The components share no variable, so all of it holds of them together.  *)
(***************************************************************************)
EXTENDS MCKnowledge, OrganizationalLearningProofs, FiniteSetTheorems,
        SequenceTheorems, WellFoundedInduction, TLAPS

-----------------------------------------------------------------------------
(***************************************************************************)
(* Inheritance.  A document that may still be written is one decision, or  *)
(* one learning, away from the document it replaces.                       *)
(***************************************************************************)

Identity == [lesson : Lessons, via : Seq(Homes)]
LearningEntry == [id : Identity, kind : {"learning", "hypothesis"}]
Decision == [id : Identity, verdict : Judgements, revision : Nat]

Page ==
    [revision : Nat, records : SUBSET LearningEntry,
     basis : SUBSET [of : Identity, on : Identity], decided : SUBSET Decision]

Copies(page) == { r \in page.records : r.id.via # <<>> }

\* The copies are those decided on, and nothing is decided on twice.
PageStands(page) ==
    /\ Copies(page) = UNION { Copy(d.id, d.verdict) : d \in page.decided }
    /\ \A c, d \in page.decided : c.id = d.id => c = d
    /\ \A d \in page.decided : d.id.via # <<>>

Succeeds(page, new) ==
    /\ { d.id : d \in page.decided } \subseteq { d.id : d \in new.decided }
    /\ \A c, d \in page.decided \ new.decided : c = d
    /\ \A r \in page.records \ new.records : r.id.via # <<>>

EditState == [at : {"idle", "writing"}, home : Homes, page : Page]

EditStands(e) ==
    /\ PageStands(edit[e].page)
    /\ edit[e].at = "writing" =>
        /\ edit[e].page.revision <= held[edit[e].home].revision + 1
        /\ Unraced(e) => Succeeds(held[edit[e].home], edit[e].page)

InheritInv ==
    /\ held \in [Homes -> Page]
    /\ edit \in [Edits -> EditState]
    /\ \A h \in Homes : PageStands(held[h])
    /\ \A e \in Edits : EditStands(e)

LEMMA LearningKeepsType ==
    ASSUME NEW page \in Page, NEW entries \in SUBSET LearningEntry,
           NEW basis \in SUBSET [of : Identity, on : Identity]
    PROVE  [[page EXCEPT !.records = entries, !.basis = basis]
                EXCEPT !.revision = page.revision + 1] \in Page
<1> DEFINE a == [page EXCEPT !.records = entries]
           b == [a EXCEPT !.basis = basis]
<1>1. a \in Page
    BY DEF Page
<1>2. b = [page EXCEPT !.records = entries, !.basis = basis] /\ b.revision = page.revision
    BY DEF Page
<1> HIDE DEF a
<1>3. b \in Page /\ page.revision + 1 \in Nat
    BY <1>1 DEF Page
<1> HIDE DEF b
<1>4. [b EXCEPT !.revision = page.revision + 1] \in Page
    BY <1>3 DEF Page
<1> QED BY <1>2, <1>4

LEMMA VerdictKeepsType ==
    ASSUME NEW page \in Page, NEW entries \in SUBSET LearningEntry,
           NEW decided \in SUBSET Decision
    PROVE  [[page EXCEPT !.records = entries, !.decided = decided]
                EXCEPT !.revision = page.revision + 1] \in Page
<1> DEFINE a == [page EXCEPT !.records = entries]
           b == [a EXCEPT !.decided = decided]
<1>1. a \in Page
    BY DEF Page
<1>2. b = [page EXCEPT !.records = entries, !.decided = decided] /\ b.revision = page.revision
    BY DEF Page
<1> HIDE DEF a
<1>3. b \in Page /\ page.revision + 1 \in Nat
    BY <1>1 DEF Page
<1> HIDE DEF b
<1>4. [b EXCEPT !.revision = page.revision + 1] \in Page
    BY <1>3 DEF Page
<1> QED BY <1>2, <1>4

LEMMA BlankPageStands == BlankPage \in Page /\ PageStands(BlankPage)
BY DEF BlankPage, Page, PageStands, Copies

LEMMA InheritBegins == Homes # {} /\ InheritInit => InheritInv
<1> SUFFICES ASSUME Homes # {}, InheritInit PROVE InheritInv
    OBVIOUS
<1>1. Free \in EditState /\ Free.at = "idle" /\ Free.page = BlankPage
    BY BlankPageStands DEF Free, EditState
<1> QED BY <1>1, BlankPageStands DEF InheritInit, InheritInv, EditStands

\* A new learning is no copy, and nothing is decided by it.
LEMMA LessonsSucceed ==
    ASSUME NEW page \in Page, PageStands(page), NEW new \in Page, NEW lesson \in Lessons,
           new.records = page.records \cup {InheritedEntry(Ident(lesson, <<>>), "learning")},
           new.decided = page.decided
    PROVE  PageStands(new) /\ Succeeds(page, new)
<1>1. Copies(new) = Copies(page)
    BY DEF Copies, InheritedEntry, Ident
<1> QED BY <1>1 DEF PageStands, Succeeds

\* A decision replaces the copy of its learning, and the decision before it.
LEMMA VerdictsSucceed ==
    ASSUME NEW page \in Page, PageStands(page), NEW new \in Page, NEW id \in Identity,
           id.via # <<>>, NEW verdict \in Judgements, NEW now \in Nat,
           new.records = Others(page, id, verdict) \cup Copy(id, verdict),
           new.decided = { d \in page.decided : d.id # id }
                         \cup {[id |-> id, verdict |-> verdict, revision |-> now]}
    PROVE  PageStands(new) /\ Succeeds(page, new)
<1> DEFINE d0 == [id |-> id, verdict |-> verdict, revision |-> now]
<1>e. d0.id = id /\ d0.verdict = verdict /\ new.decided = { d \in page.decided : d.id # id } \cup {d0}
    OBVIOUS
<1> HIDE DEF d0
<1>d. /\ d0 \in new.decided /\ d0.id = id /\ d0.verdict = verdict
      /\ \A d \in new.decided : d = d0 \/ (d \in page.decided /\ d.id # id)
      /\ \A d \in page.decided : d.id # id => d \in new.decided
    BY <1>e
<1>1. \A i, v : \A r \in Copy(i, v) : r.id = i
    BY DEF Copy, InheritedEntry
<1>2. Copies(new) = { r \in Copies(page) : r.id # id } \cup Copy(id, verdict)
    BY <1>1 DEF Copies, Others
<1>3. UNION { Copy(d.id, d.verdict) : d \in new.decided }
        = { r \in UNION { Copy(d.id, d.verdict) : d \in page.decided } : r.id # id } \cup Copy(id, verdict)
    <2>4. ASSUME NEW d \in new.decided, NEW r \in Copy(d.id, d.verdict)
          PROVE  r \in { s \in UNION { Copy(c.id, c.verdict) : c \in page.decided } : s.id # id }
                      \cup Copy(id, verdict)
        <3>1. r.id = d.id
            BY <1>1
        <3> QED BY <1>d, <3>1
    <2>5. ASSUME NEW d \in page.decided, NEW r \in Copy(d.id, d.verdict), r.id # id
          PROVE  r \in UNION { Copy(c.id, c.verdict) : c \in new.decided }
        <3>1. r.id = d.id
            BY <1>1
        <3>2. d \in new.decided
            BY <1>d, <3>1, <2>5
        <3> QED BY <3>2
    <2>6. Copy(id, verdict) \subseteq UNION { Copy(c.id, c.verdict) : c \in new.decided }
        BY <1>d
    <2> QED BY <2>4, <2>5, <2>6
<1>4. PageStands(new)
    BY <1>2, <1>3 DEF PageStands
<1>5. ASSUME NEW d \in page.decided PROVE d.id \in { c.id : c \in new.decided }
    BY <1>d
<1>6. \A c, d \in page.decided \ new.decided : c = d
    BY DEF PageStands
<1>7. \A r \in page.records \ new.records : r.id.via # <<>>
    BY DEF Others
<1> QED BY <1>4, <1>5, <1>6, <1>7 DEF Succeeds

\* A request that begins holds a document that succeeds the present one.
LEMMA EditsBegin ==
    ASSUME InheritInv, NEW e \in Edits, NEW h \in Homes, NEW page \in Page, NEW new \in Page,
           new.revision = held[h].revision + 1, PageStands(new), Succeeds(held[h], new),
           edit' = [edit EXCEPT ![e] = [at |-> "writing", home |-> h, page |-> new]],
           held' = held
    PROVE  InheritInv'
<1>1. [at |-> "writing", home |-> h, page |-> new] \in EditState
    BY DEF EditState
<1>2. /\ edit' \in [Edits -> EditState] /\ edit'[e] = [at |-> "writing", home |-> h, page |-> new]
      /\ \A f \in Edits \ {e} : edit'[f] = edit[f]
    BY <1>1 DEF InheritInv
<1>3. held[h].revision \in Nat
    BY DEF InheritInv, Page
<1>4. ASSUME NEW f \in Edits PROVE EditStands(f)'
    <2>1. CASE f = e
        BY <1>2, <1>3, <2>1 DEF EditStands, Unraced
    <2>2. CASE f # e
        BY <1>2, <2>2 DEF EditStands, Unraced, InheritInv
    <2> QED BY <2>1, <2>2
<1> QED BY <1>2, <1>4 DEF InheritInv

LEMMA InheritSteps ==
    ASSUME InheritInv, [InheritNext]_inheritVars
    PROVE  InheritInv'
<1>t. /\ held \in [Homes -> Page] /\ edit \in [Edits -> EditState]
      /\ \A h \in Homes : PageStands(held[h])
      /\ \A e \in Edits : EditStands(e)
    BY DEF InheritInv
<1>1. CASE UNCHANGED inheritVars
    BY <1>1 DEF inheritVars, InheritInv, EditStands, Unraced
<1>2. ASSUME NEW e \in Edits, NEW h \in Homes, NEW lesson \in Lessons,
             NEW basis \in SUBSET Idents(held[h]), BeginLesson(e, h, lesson, basis)
      PROVE  InheritInv'
    <2> DEFINE id == Ident(lesson, <<>>)
               page == [held[h] EXCEPT
                            !.records = held[h].records \cup {InheritedEntry(id, "learning")},
                            !.basis = held[h].basis \cup { [of |-> id, on |-> b] : b \in basis }]
               new == [page EXCEPT !.revision = held[h].revision + 1]
    <2>1. held[h] \in Page /\ held[h].revision \in Nat
        BY <1>t DEF Page
    <2>2. id \in Identity /\ InheritedEntry(id, "learning") \in LearningEntry
          /\ { [of |-> id, on |-> b] : b \in basis } \subseteq [of : Identity, on : Identity]
        <3>1. \A r \in held[h].records : r.id \in Identity
            BY <2>1 DEF Page, LearningEntry
        <3>2. Idents(held[h]) \subseteq Identity
            BY <3>1 DEF Idents
        <3>3. <<>> \in Seq(Homes)
            OBVIOUS
        <3>4. id \in Identity
            BY <3>3 DEF Identity, Ident
        <3>5. InheritedEntry(id, "learning") \in LearningEntry
            BY <3>4 DEF LearningEntry, InheritedEntry
        <3> HIDE DEF id
        <3> QED BY <3>2, <3>4, <3>5
    <2> HIDE DEF id
    <2>3. /\ new.revision = held[h].revision + 1
          /\ new.records = held[h].records \cup {InheritedEntry(id, "learning")}
          /\ new.basis = held[h].basis \cup { [of |-> id, on |-> b] : b \in basis }
          /\ new.decided = held[h].decided
        BY <2>1 DEF Page
    <2>6. new \in Page
        <3>1. /\ held[h].records \subseteq LearningEntry
              /\ held[h].basis \subseteq [of : Identity, on : Identity]
              /\ held[h].decided \subseteq Decision
            BY <2>1 DEF Page
        <3> DEFINE entries == held[h].records \cup {InheritedEntry(id, "learning")}
                   pairs == held[h].basis \cup { [of |-> id, on |-> b] : b \in basis }
        <3>2. entries \in SUBSET LearningEntry /\ pairs \in SUBSET [of : Identity, on : Identity]
            BY <2>2, <3>1
        <3>3. new = [[held[h] EXCEPT !.records = entries, !.basis = pairs]
                        EXCEPT !.revision = held[h].revision + 1]
            OBVIOUS
        <3> HIDE DEF new, page, entries, pairs
        <3> QED BY <2>1, <3>2, <3>3, LearningKeepsType
    <2>4. edit' = [edit EXCEPT ![e] = [at |-> "writing", home |-> h, page |-> new]] /\ held' = held
        BY <1>2 DEF BeginLesson, BeginEdit, id
    <2> HIDE DEF new, page
    <2>5. PageStands(new) /\ Succeeds(held[h], new)
        BY <2>1, <2>3, <2>6, <1>t, LessonsSucceed DEF id
    <2> QED BY <2>3, <2>4, <2>5, <2>6, EditsBegin
<1>3. ASSUME NEW e \in Edits, NEW h \in Homes, NEW source \in Homes, NEW verdict \in Judgements,
             NEW r \in held[source].records, BeginVerdict(e, h, source, r, verdict)
      PROVE  InheritInv'
    <2> DEFINE id == Ident(r.id.lesson, Append(r.id.via, source))
               page == [held[h] EXCEPT
                            !.records = Others(held[h], id, verdict) \cup Copy(id, verdict),
                            !.decided = { d \in held[h].decided : d.id # id }
                                        \cup {[id |-> id, verdict |-> verdict,
                                               revision |-> held[source].revision]}]
               new == [page EXCEPT !.revision = held[h].revision + 1]
    <2>1. held[h] \in Page /\ held[h].revision \in Nat /\ held[source].revision \in Nat
        BY <1>t DEF Page
    <2>2. id \in Identity /\ id.via # <<>>
        <3>1. r.id.lesson \in Lessons /\ r.id.via \in Seq(Homes)
            BY <1>t DEF Page, LearningEntry, Identity
        <3> QED BY <3>1 DEF Identity, Ident
    <2>3. Copy(id, verdict) \subseteq LearningEntry
        BY <2>2 DEF Copy, InheritedEntry, LearningEntry
    <2>4. [id |-> id, verdict |-> verdict, revision |-> held[source].revision] \in Decision
        BY <2>1, <2>2 DEF Decision
    <2> HIDE DEF id
    <2>5. /\ new.revision = held[h].revision + 1
          /\ new.records = Others(held[h], id, verdict) \cup Copy(id, verdict)
          /\ new.decided = { d \in held[h].decided : d.id # id }
                           \cup {[id |-> id, verdict |-> verdict, revision |-> held[source].revision]}
          /\ new.basis = held[h].basis
        BY <2>1 DEF Page
    <2>6. new \in Page
        <3>1. /\ held[h].records \subseteq LearningEntry
              /\ held[h].basis \subseteq [of : Identity, on : Identity]
              /\ held[h].decided \subseteq Decision
            BY <2>1 DEF Page
        <3> DEFINE entries == Others(held[h], id, verdict) \cup Copy(id, verdict)
                   decided == { d \in held[h].decided : d.id # id }
                              \cup {[id |-> id, verdict |-> verdict, revision |-> held[source].revision]}
        <3>2. entries \in SUBSET LearningEntry
            BY <2>3, <3>1 DEF Others
        <3>3. decided \in SUBSET Decision
            BY <2>4, <3>1
        <3>4. new = [[held[h] EXCEPT !.records = entries, !.decided = decided]
                        EXCEPT !.revision = held[h].revision + 1]
            OBVIOUS
        <3> HIDE DEF new, page, entries, decided
        <3> QED BY <2>1, <3>2, <3>3, <3>4, VerdictKeepsType
    <2>7. edit' = [edit EXCEPT ![e] = [at |-> "writing", home |-> h, page |-> new]] /\ held' = held
        BY <1>3 DEF BeginVerdict, BeginEdit, id
    <2> HIDE DEF new, page
    <2>8. PageStands(new) /\ Succeeds(held[h], new)
        BY <2>1, <2>2, <2>5, <2>6, <1>t, VerdictsSucceed
    <2> QED BY <2>5, <2>6, <2>7, <2>8, EditsBegin
<1>4. ASSUME NEW e \in Edits, Persist(e)
      PROVE  InheritInv'
    <2>1. /\ edit[e] \in EditState /\ EditStands(e) /\ Unraced(e)
          /\ held' = [held EXCEPT ![edit[e].home] = edit[e].page]
          /\ edit' = [edit EXCEPT ![e] = Free]
        BY <1>4, <1>t DEF Persist
    <2>2. Free \in EditState /\ Free.at = "idle" /\ Free.page = BlankPage
        BY <2>1, BlankPageStands DEF Free, EditState
    <2>3. held' \in [Homes -> Page] /\ edit' \in [Edits -> EditState]
        BY <2>1, <2>2, <1>t DEF EditState
    <2>4. \A h \in Homes : PageStands(held'[h])
        BY <2>1, <1>t DEF EditState, EditStands
    <2>5. \A h \in Homes : held[h].revision \in Nat /\ held'[h].revision \in Nat
        BY <2>3, <1>t DEF Page
    <2>6. held[edit[e].home].revision + 1 = held'[edit[e].home].revision
        BY <2>1, <1>t DEF Unraced, EditState
    <2>7. ASSUME NEW f \in Edits PROVE EditStands(f)'
        <3>1. CASE f = e
            BY <2>1, <2>2, <3>1, <1>t, BlankPageStands DEF EditStands
        <3>2. CASE f # e
            <4>1. edit'[f] = edit[f] /\ EditStands(f) /\ edit[f] \in EditState
                BY <2>1, <3>2, <1>t
            <4>2. CASE edit[f].home = edit[e].home
                <5>1. edit[f].page.revision \in Nat
                    BY <4>1 DEF EditState, Page
                <5> QED BY <2>5, <2>6, <4>1, <4>2, <5>1 DEF EditStands, Unraced, EditState
            <4>3. CASE edit[f].home # edit[e].home
                BY <2>1, <4>1, <4>3, <1>t DEF EditStands, Unraced, EditState
            <4> QED BY <4>2, <4>3
        <3> QED BY <3>1, <3>2
    <2> QED BY <2>3, <2>4, <2>7 DEF InheritInv
<1>5. ASSUME NEW e \in Edits, Lose(e)
      PROVE  InheritInv'
    <2>1. held' = held /\ edit' = [edit EXCEPT ![e] = Free] /\ edit[e] \in EditState
        BY <1>5, <1>t DEF Lose
    <2>2. Free \in EditState /\ Free.at = "idle" /\ Free.page = BlankPage
        BY <2>1, BlankPageStands DEF Free, EditState
    <2>3. ASSUME NEW f \in Edits PROVE EditStands(f)'
        <3>1. CASE f = e
            BY <2>1, <2>2, <3>1, <1>t, BlankPageStands DEF EditStands
        <3>2. CASE f # e
            BY <2>1, <3>2, <1>t DEF EditStands, Unraced
        <3> QED BY <3>1, <3>2
    <2> QED BY <2>1, <2>2, <2>3, <1>t DEF InheritInv
<1> QED BY <1>1, <1>2, <1>3, <1>4, <1>5 DEF InheritNext

\* A document is replaced by one that succeeds it.
LEMMA PagesSucceed ==
    ASSUME InheritInv, [InheritNext]_inheritVars, NEW h \in Homes
    PROVE  Succeeds(held[h], held'[h])
<1>1. \A page : Succeeds(page, page)
    BY DEF Succeeds
<1>2. ASSUME NEW e \in Edits, Persist(e)
      PROVE  Succeeds(held[h], held'[h])
    <2>1. /\ edit[e] \in EditState /\ EditStands(e) /\ Unraced(e) /\ edit[e].at = "writing"
          /\ held' = [held EXCEPT ![edit[e].home] = edit[e].page]
        BY <1>2 DEF Persist, InheritInv
    <2> QED BY <1>1, <2>1 DEF EditStands, InheritInv
<1>3. CASE held' = held
    BY <1>1, <1>3
<1>4. ASSUME NEW e \in Edits, NEW g \in Homes, NEW page, BeginEdit(e, g, page)
      PROVE  held' = held
    BY <1>4 DEF BeginEdit
<1>5. ASSUME NEW e \in Edits, NEW g \in Homes, NEW lesson, NEW b, BeginLesson(e, g, lesson, b)
      PROVE  held' = held
    BY <1>4, <1>5 DEF BeginLesson
<1>6. ASSUME NEW e \in Edits, NEW g \in Homes, NEW s, NEW r, NEW v, BeginVerdict(e, g, s, r, v)
      PROVE  held' = held
    BY <1>4, <1>6 DEF BeginVerdict
<1>7. ASSUME NEW e \in Edits, Lose(e)
      PROVE  held' = held
    BY <1>7 DEF Lose
<1>8. CASE UNCHANGED inheritVars
    BY <1>3, <1>8 DEF inheritVars
<1> QED BY <1>2, <1>3, <1>5, <1>6, <1>7, <1>8 DEF InheritNext

\* Where there is no mission there is nothing to inherit.
LEMMA NobodyInherits == Homes = {} => InheritTypes /\ CopiesFollowDecisions
BY DEF InheritTypes, CopiesFollowDecisions

LEMMA InheritInvCopies == InheritInv => CopiesFollowDecisions
BY DEF InheritInv, PageStands, Copies, CopiesFollowDecisions

(***************************************************************************)
(* For any missions, learnings and requests: a mission's copies are those  *)
(* its decisions call for, and a write replaces one decision at most.      *)
(***************************************************************************)
THEOREM InheritanceStands == InheritSpec => InheritanceIsKept
<1> DEFINE Kept == Homes = {} \/ InheritInv
<1>1. InheritInit => Kept
    BY InheritBegins
<1>2. Kept /\ [InheritNext]_inheritVars => Kept'
    BY InheritSteps
<1>3. Kept => CopiesFollowDecisions
    BY InheritInvCopies, NobodyInherits
<1>4. Kept /\ [InheritNext]_inheritVars =>
        [\A h \in Homes :
            /\ { d.id : d \in held[h].decided } \subseteq { d.id : d \in held'[h].decided }
            /\ \A c, d \in held[h].decided \ held'[h].decided : c = d
            /\ \A r \in held[h].records \ held'[h].records : r.id.via # <<>>]_inheritVars
    BY PagesSucceed DEF Succeeds
<1> QED BY <1>1, <1>2, <1>3, <1>4, PTL DEF InheritSpec, InheritanceIsKept, ReviewsAreKept

\* What a document says of its copies: each came through one mission, not its
\* own, and no decision names a revision its source has not reached.
PageTyped(h, page) ==
    /\ page.revision \in 1 .. MaxRevision
    /\ \A r \in page.records : Len(r.id.via) <= 1 /\ r.id.via # <<h>>
    /\ \A d \in page.decided :
        Len(d.id.via) = 1 /\ d.revision <= held[d.id.via[1]].revision

InheritBounds ==
    /\ \A h \in Homes : PageTyped(h, held[h])
    /\ \A e \in Edits : edit[e].at = "writing" => PageTyped(edit[e].home, edit[e].page)

LEMMA InheritTyped == InheritInv /\ InheritBounds => InheritTypes
<1> SUFFICES ASSUME InheritInv, InheritBounds, NEW h \in Homes
             PROVE  /\ held[h].revision \in 1 .. MaxRevision
                    /\ \A r \in held[h].records :
                        /\ r.id.lesson \in Lessons
                        /\ r.kind \in {"learning", "hypothesis"}
                        /\ Len(r.id.via) <= 1
                        /\ r.id.via # <<h>>
                    /\ \A d \in held[h].decided : d.revision <= held[d.id.via[1]].revision
    BY DEF InheritTypes
<1>1. held[h] \in Page /\ PageTyped(h, held[h])
    BY DEF InheritInv, InheritBounds
<1>2. \A r \in held[h].records : r \in LearningEntry
    BY <1>1 DEF Page
<1> QED BY <1>1, <1>2 DEF PageTyped, LearningEntry, Identity

LEMMA BoundsBegin == InheritInit => InheritBounds
<1> SUFFICES ASSUME InheritInit PROVE InheritBounds
    OBVIOUS
<1>1. BlankPage.revision = 1 /\ BlankPage.records = {} /\ BlankPage.decided = {}
    BY DEF BlankPage
<1>2. ASSUME NEW h \in Homes PROVE PageTyped(h, held[h])
    <2>1. held[h] = BlankPage
        BY DEF InheritInit
    <2>2. 1 \in 1 .. MaxRevision
        BY InheritanceAssumption
    <2> QED BY <1>1, <2>1, <2>2 DEF PageTyped
<1>3. \A e \in Edits : edit[e].at = "idle"
    BY DEF InheritInit, Free
<1> QED BY <1>2, <1>3 DEF InheritBounds

\* Documents are only replaced by later ones.
LEMMA TypedStaysTyped ==
    ASSUME \A g \in Homes : held[g].revision \in Nat /\ held'[g].revision \in Nat
                            /\ held[g].revision <= held'[g].revision,
           NEW h \in Homes, NEW page \in Page, PageTyped(h, page)
    PROVE  PageTyped(h, page)'
<1>1. ASSUME NEW d \in page.decided
      PROVE  Len(d.id.via) = 1 /\ d.revision <= held'[d.id.via[1]].revision
    <2>1. d \in Decision /\ Len(d.id.via) = 1 /\ d.revision <= held[d.id.via[1]].revision
        BY DEF Page, PageTyped
    <2>2. d.id.via \in Seq(Homes) /\ d.revision \in Nat
        BY <2>1 DEF Decision, Identity
    <2>3. d.id.via[1] \in Homes
        BY <2>1, <2>2
    <2> QED BY <2>1, <2>2, <2>3
<1> QED BY <1>1 DEF PageTyped

\* A request begins with a document that is typed.
LEMMA BoundsWhenBegun ==
    ASSUME InheritInv, InheritBounds, NEW e \in Edits, NEW h \in Homes, NEW page,
           BeginEdit(e, h, page),
           PageTyped(h, [page EXCEPT !.revision = held[h].revision + 1])
    PROVE  InheritBounds'
<1> DEFINE new == [page EXCEPT !.revision = held[h].revision + 1]
<1>1. held' = held /\ edit' = [edit EXCEPT ![e] = [at |-> "writing", home |-> h, page |-> new]]
    BY DEF BeginEdit
<1> HIDE DEF new
<1>2. edit'[e].home = h /\ edit'[e].page = new /\ \A f \in Edits \ {e} : edit'[f] = edit[f]
    BY <1>1 DEF InheritInv
<1>3. PageTyped(h, new)
    BY DEF new
<1> QED BY <1>1, <1>2, <1>3 DEF InheritBounds, PageTyped

LEMMA BoundsStep ==
    ASSUME InheritInv, InheritBounds, [InheritNext]_inheritVars
    PROVE  InheritBounds'
<1>1. CASE UNCHANGED inheritVars
    BY <1>1 DEF inheritVars, InheritBounds, PageTyped
<1>2. ASSUME NEW e \in Edits, NEW h \in Homes, NEW lesson \in Lessons,
             NEW basis \in SUBSET Idents(held[h]), BeginLesson(e, h, lesson, basis)
      PROVE  InheritBounds'
    <2> DEFINE id == Ident(lesson, <<>>)
               entries == held[h].records \cup {InheritedEntry(id, "learning")}
               pairs == held[h].basis \cup { [of |-> id, on |-> b] : b \in basis }
               page == [held[h] EXCEPT !.records = entries, !.basis = pairs]
               new == [page EXCEPT !.revision = held[h].revision + 1]
    <2>1. BeginEdit(e, h, page)
        BY <1>2 DEF BeginLesson
    <2>2. held[h] \in Page /\ PageTyped(h, held[h]) /\ held[h].revision < MaxRevision
          /\ MaxRevision \in Nat
        BY <2>1, InheritanceAssumption DEF InheritInv, InheritBounds, BeginEdit
    <2>3. InheritedEntry(id, "learning").id.via = <<>>
        BY DEF InheritedEntry, Ident
    <2> HIDE DEF id
    <2>4. \A r \in entries : Len(r.id.via) <= 1 /\ r.id.via # <<h>>
        BY <2>2, <2>3 DEF PageTyped
    <2> HIDE DEF entries, pairs
    <2>5. /\ new.revision = held[h].revision + 1 /\ new.records = entries
          /\ new.decided = held[h].decided
        BY <2>2 DEF Page
    <2> HIDE DEF new
    <2>6. PageTyped(h, new)
        BY <2>2, <2>4, <2>5 DEF PageTyped
    <2> QED BY <2>1, <2>6, BoundsWhenBegun DEF new
<1>3. ASSUME NEW e \in Edits, NEW h \in Homes, NEW source \in Homes, NEW verdict \in Judgements,
             NEW r \in held[source].records, BeginVerdict(e, h, source, r, verdict)
      PROVE  InheritBounds'
    <2> DEFINE id == Ident(r.id.lesson, Append(r.id.via, source))
               now == [id |-> id, verdict |-> verdict, revision |-> held[source].revision]
               entries == Others(held[h], id, verdict) \cup Copy(id, verdict)
               decided == { d \in held[h].decided : d.id # id } \cup {now}
               page == [held[h] EXCEPT !.records = entries, !.decided = decided]
               new == [page EXCEPT !.revision = held[h].revision + 1]
    <2>1. BeginEdit(e, h, page) /\ source # h /\ Original(r)
        BY <1>3 DEF BeginVerdict
    <2>2. held[h] \in Page /\ PageTyped(h, held[h]) /\ held[h].revision < MaxRevision
          /\ MaxRevision \in Nat /\ held[source].revision \in Nat
        BY <2>1, InheritanceAssumption DEF InheritInv, InheritBounds, BeginEdit, Page
    <2>3. id.via = <<source>> /\ Len(id.via) = 1 /\ id.via[1] = source
        BY <2>1 DEF Ident, Original
    <2>4. \A s \in Copy(id, verdict) : s.id = id
        BY DEF Copy, InheritedEntry
    <2>5. now.id = id /\ now.revision = held[source].revision
        OBVIOUS
    <2> HIDE DEF id, now
    <2>6. ASSUME NEW s \in entries PROVE Len(s.id.via) <= 1 /\ s.id.via # <<h>>
        <3>1. CASE s \in held[h].records
            BY <2>2, <3>1 DEF PageTyped
        <3>2. CASE s \in Copy(id, verdict)
            <4>1. <<source>>[1] = source /\ <<h>>[1] = h
                OBVIOUS
            <4>2. s.id.via = <<source>> /\ Len(s.id.via) = 1
                BY <2>3, <2>4, <3>2
            <4> QED BY <2>1, <4>1, <4>2
        <3> QED BY <3>1, <3>2 DEF Others
    <2>7. ASSUME NEW d \in decided
          PROVE  Len(d.id.via) = 1 /\ d.revision <= held[d.id.via[1]].revision
        <3>1. CASE d \in held[h].decided
            BY <2>2, <3>1 DEF PageTyped
        <3>2. CASE d = now
            <4>1. Len(d.id.via) = 1 /\ d.id.via[1] = source
                BY <2>3, <2>5, <3>2
            <4>2. d.revision = held[source].revision
                BY <2>5, <3>2
            <4> QED BY <2>2, <4>1, <4>2
        <3> QED BY <3>1, <3>2
    <2> HIDE DEF entries, decided
    <2>8. /\ new.revision = held[h].revision + 1 /\ new.records = entries
          /\ new.decided = decided
        BY <2>2 DEF Page
    <2> HIDE DEF new
    <2>9. PageTyped(h, new)
        BY <2>2, <2>6, <2>7, <2>8 DEF PageTyped
    <2> QED BY <2>1, <2>9, BoundsWhenBegun DEF new
<1>4. ASSUME NEW e \in Edits, Persist(e)
      PROVE  InheritBounds'
    <2>1. /\ edit[e] \in EditState /\ Unraced(e) /\ edit[e].at = "writing"
          /\ held' = [held EXCEPT ![edit[e].home] = edit[e].page]
          /\ edit' = [edit EXCEPT ![e] = Free] /\ PageTyped(edit[e].home, edit[e].page)
        BY <1>4 DEF Persist, InheritInv, InheritBounds
    <2>2. edit[e].home \in Homes /\ edit[e].page \in Page
        BY <2>1 DEF EditState
    <2>3. /\ held \in [Homes -> Page] /\ held' \in [Homes -> Page]
          /\ edit \in [Edits -> EditState]
        BY <2>1, <2>2 DEF InheritInv
    <2>4. \A g \in Homes : held[g].revision \in Nat /\ held'[g].revision \in Nat
        BY <2>3 DEF Page
    <2>5. \A g \in Homes : held[g].revision <= held'[g].revision
        BY <2>1, <2>2, <2>3, <2>4 DEF Unraced
    <2>6. ASSUME NEW g \in Homes PROVE PageTyped(g, held[g])'
        <3>1. PageTyped(g, held'[g])
            BY <2>1, <2>2, <2>3 DEF InheritBounds
        <3>2. held'[g] \in Page
            BY <2>3
        <3>3. ASSUME NEW page \in Page, PageTyped(g, page) PROVE PageTyped(g, page)'
            BY <2>4, <2>5, <3>3, TypedStaysTyped
        <3> QED BY <3>1, <3>2, <3>3, <2>4, <2>5 DEF PageTyped
    <2>7. ASSUME NEW f \in Edits, edit'[f].at = "writing"
          PROVE  PageTyped(edit[f].home, edit[f].page)'
        <3>1. f # e /\ edit'[f] = edit[f]
            BY <2>1, <2>3, <2>7 DEF Free
        <3>2. PageTyped(edit[f].home, edit[f].page) /\ edit[f] \in EditState
            BY <2>3, <2>7, <3>1 DEF InheritBounds
        <3>3. edit[f].home \in Homes /\ edit[f].page \in Page
            BY <3>2 DEF EditState
        <3> DEFINE g == edit[f].home
                   page == edit[f].page
        <3>4. edit'[f].home = g /\ edit'[f].page = page
            BY <3>1
        <3> QED BY <2>4, <2>5, <3>2, <3>3, <3>4, TypedStaysTyped DEF PageTyped
    <2> QED BY <2>6, <2>7 DEF InheritBounds
<1>5. ASSUME NEW e \in Edits, Lose(e)
      PROVE  InheritBounds'
    <2>1. held' = held /\ edit' = [edit EXCEPT ![e] = Free] /\ Free.at = "idle"
        BY <1>5 DEF Lose, Free
    <2>2. edit'[e].at = "idle" /\ \A f \in Edits \ {e} : edit'[f] = edit[f]
        BY <2>1 DEF InheritInv
    <2> QED BY <2>1, <2>2 DEF InheritBounds, PageTyped
<1> QED BY <1>1, <1>2, <1>3, <1>4, <1>5 DEF InheritNext

\* Nothing is inherited twice over: a copy came through one mission, where it
\* was written, and never returns to its own.
THEOREM InheritanceKeepsItsTypes == InheritSpec => []InheritTypes
<1> DEFINE Typed == Homes = {} \/ (InheritInv /\ InheritBounds)
<1>1. InheritInit => Typed
    BY InheritBegins, BoundsBegin
<1>2. Typed /\ [InheritNext]_inheritVars => Typed'
    BY InheritSteps, BoundsStep
<1>3. Typed => InheritTypes
    BY InheritTyped, NobodyInherits
<1> QED BY <1>1, <1>2, <1>3, PTL DEF InheritSpec

-----------------------------------------------------------------------------
(***************************************************************************)
(* A guided session.  A row a request holds was the session's once: each   *)
(* answer in it was given, and while it is active there are as many as its *)
(* index says.  A session that has left "active" never returns.            *)
(***************************************************************************)

Made == [by : Visits, from : Seq(Replies)]

Row ==
    [status : {"active", "awaiting_confirmation", "completed"}, index : Nat,
     answers : Seq(Replies), listed : SUBSET Made]

VisitState ==
    [at : {"idle", "answering", "editing", "confirming", "reusing", "done"}, row : Row,
     question : Nat, reply : Replies \cup {NoReply}, count : Nat]

RowStands(r) ==
    /\ Len(r.answers) <= QuestionCount
    /\ \A q \in 1 .. Len(r.answers) : <<q, r.answers[q]>> \in said
    /\ r.status = "active" => Len(r.answers) = r.index

VisitStands(v) ==
    /\ RowStands(visit[v].row)
    /\ visit[v].at = "answering" =>
        /\ visit[v].row.status = "active" /\ visit[v].row.index < QuestionCount
        /\ visit[v].question = visit[v].row.index + 1 /\ visit[v].reply \in Replies
    /\ visit[v].at = "editing" =>
        visit[v].question \in 1 .. Len(visit[v].row.answers) /\ visit[v].reply \in Replies
    /\ visit[v].at \in {"editing", "confirming"} => session.status # "active"
    /\ visit[v].at = "reusing" => visit[v].count <= Cardinality(reuses)
    /\ v \in reuses => visit[v].at = "done"

\* What a request that has met no other knows of the present.
UpToDate(v) ==
    /\ visit[v].at \in {"answering", "editing", "confirming"} => visit[v].row = session
    /\ visit[v].at \in {"editing", "confirming"} => session.status = "awaiting_confirmation"
    /\ visit[v].at = "reusing" => visit[v].count = reuseCount

Lone ==
    /\ \A v, w \in Underway : v = w
    /\ \A v \in Underway : UpToDate(v)
    /\ Len(session.answers) = session.index
    /\ session.status = "active" <=> session.index < QuestionCount
    /\ session.listed = created
    /\ created # {} <=> session.status = "completed"
    /\ \A o, p \in created : o = p
    /\ \A o \in created : o.from = session.answers
    /\ reuseCount = Cardinality(reuses)

GuidedInv ==
    /\ session \in Row /\ RowStands(session)
    /\ visit \in [Visits -> VisitState]
    /\ \A v \in Visits : VisitStands(v)
    /\ MadeFromWhatWasSaid
    /\ IsFiniteSet(reuses) /\ reuseCount \in Nat /\ ReuseIsNotForgotten
    /\ mingled \/ Lone

LEMMA GuidedInvIsFaithful == GuidedInv => SessionsAreFaithful
<1> SUFFICES ASSUME GuidedInv PROVE SessionsAreFaithful
    OBVIOUS
<1>1. ASSUME Lone PROVE Cardinality(created) <= 1
    <2>1. CASE created = {}
        BY <2>1, FS_EmptySet
    <2>2. CASE created # {}
        <3>1. PICK o \in created : TRUE
            BY <2>2
        <3>2. created = {o}
            BY <1>1, <3>1 DEF Lone
        <3> QED BY <3>2, FS_Singleton
    <2> QED BY <2>1, <2>2
<1>2. LoneSessionIsFaithful
    BY <1>1 DEF GuidedInv, LoneSessionIsFaithful, Lone
<1> QED BY <1>2 DEF GuidedInv, SessionsAreFaithful

LEMMA GuidedBegins == GuidedInit => GuidedInv
<1> SUFFICES ASSUME GuidedInit PROVE GuidedInv
    OBVIOUS
<1>q. QuestionCount \in Nat /\ QuestionCount > 0
    BY GuidedAssumption
<1>1. /\ NewSession \in Row /\ NewSession.answers = <<>> /\ NewSession.index = 0
      /\ NewSession.status = "active" /\ NewSession.listed = {}
    BY DEF NewSession, Row
<1>2. NoVisit \in VisitState /\ NoVisit.at = "idle" /\ NoVisit.row = NewSession
    BY <1>1 DEF NoVisit, VisitState
<1>3. RowStands(NewSession)
    BY <1>q, <1>1 DEF RowStands
<1>4. visit \in [Visits -> VisitState] /\ \A v \in Visits : visit[v] = NoVisit
    BY <1>2 DEF GuidedInit
<1>5. \A v \in Visits : VisitStands(v)
    BY <1>2, <1>3, <1>4 DEF VisitStands, GuidedInit
<1>6. Underway = {}
    BY <1>2, <1>4 DEF Underway
<1>7. IsFiniteSet(reuses) /\ Cardinality(reuses) = 0
    BY FS_EmptySet DEF GuidedInit
<1>8. Lone
    BY <1>q, <1>1, <1>6, <1>7 DEF Lone, GuidedInit
<1> QED BY <1>1, <1>3, <1>4, <1>5, <1>7, <1>8
        DEF GuidedInit, GuidedInv, MadeFromWhatWasSaid, ReuseIsNotForgotten

\* The visits after a step of one of them.
LEMMA VisitsMove ==
    ASSUME GuidedInv, NEW v \in Visits, NEW from, NEW next \in VisitState, VisitStep(v, from, next)
    PROVE  /\ visit' \in [Visits -> VisitState] /\ visit[v].at = from /\ visit'[v] = next
           /\ \A w \in Visits \ {v} : visit'[w] = visit[w]
           /\ from # "done" => v \notin reuses
           /\ ~mingled' => Lone /\ (\A w \in Underway' : w = v) /\ (\A w \in Underway : w = v)
<1>1. /\ visit[v].at = from /\ visit' = [visit EXCEPT ![v] = next]
      /\ mingled' = (mingled \/ Underway \ {v} # {})
    BY DEF VisitStep
<1>2. /\ visit' \in [Visits -> VisitState] /\ visit'[v] = next
      /\ \A w \in Visits \ {v} : visit'[w] = visit[w]
    BY <1>1 DEF GuidedInv
<1>3. from # "done" => v \notin reuses
    BY <1>1 DEF GuidedInv, VisitStands
<1>4. ~mingled' => Lone /\ \A w \in Underway : w = v
    BY <1>1 DEF GuidedInv
<1>5. (\A w \in Underway : w = v) => \A w \in Underway' : w = v
    BY <1>2 DEF Underway
<1> QED BY <1>1, <1>2, <1>3, <1>4, <1>5

\* A request that is over.
LEMMA VisitEnds ==
    LET over == [NoVisit EXCEPT !.at = "done"]
    IN  over \in VisitState /\ over.at = "done" /\ over.row = NewSession
<1>1. NewSession \in Row
    BY DEF NewSession, Row
<1>2. NoVisit \in VisitState /\ NoVisit.row = NewSession
    BY <1>1 DEF NoVisit, VisitState
<1> QED BY <1>2 DEF VisitState

LEMMA NewSessionStands == NewSession \in Row /\ RowStands(NewSession)
BY GuidedAssumption DEF NewSession, Row, RowStands

\* A request begins with the row as it is.
LEMMA VisitsBegin ==
    ASSUME GuidedInv, NEW v \in Visits, NEW next \in VisitState, VisitStep(v, "idle", next),
           UNCHANGED <<session, created, said, reuses, reuseCount>>,
           next.row \in {session, NewSession},
           next.at \in {"answering", "editing", "confirming"} => next.row = session,
           next.at = "answering" =>
                /\ session.status = "active" /\ session.index < QuestionCount
                /\ next.question = session.index + 1 /\ next.reply \in Replies,
           next.at = "editing" =>
                next.question \in 1 .. Len(session.answers) /\ next.reply \in Replies,
           next.at \in {"editing", "confirming"} => session.status = "awaiting_confirmation",
           next.at = "reusing" => next.count = reuseCount
    PROVE  GuidedInv'
<1>1. /\ visit' \in [Visits -> VisitState] /\ visit'[v] = next /\ v \notin reuses
      /\ \A w \in Visits \ {v} : visit'[w] = visit[w]
      /\ ~mingled' => Lone /\ (\A w \in Underway' : w = v)
    BY VisitsMove
<1>2. ASSUME NEW w \in Visits PROVE VisitStands(w)'
    <2>1. CASE w = v
        BY <1>1, <2>1, NewSessionStands DEF VisitStands, RowStands, GuidedInv, ReuseIsNotForgotten
    <2>2. CASE w # v
        BY <1>1, <2>2 DEF VisitStands, RowStands, GuidedInv
    <2> QED BY <2>1, <2>2
<1>3. ~mingled' => Lone'
    BY <1>1 DEF Lone, UpToDate
<1> QED BY <1>1, <1>2, <1>3 DEF GuidedInv, RowStands, MadeFromWhatWasSaid, ReuseIsNotForgotten

\* A request ends, having saved what it did.
LEMMA VisitsEnd ==
    ASSUME GuidedInv, NEW v \in Visits, NEW from, from # "done", Leave(v, from),
           said \subseteq said', session.status # "active" => session'.status # "active",
           reuses' \subseteq reuses \cup {v}, Cardinality(reuses) <= Cardinality(reuses'),
           Cardinality(reuses) \in Nat, Cardinality(reuses') \in Nat
    PROVE  /\ visit' \in [Visits -> VisitState] /\ visit[v].at = from /\ v \notin reuses
           /\ \A w \in Visits : VisitStands(w)'
           /\ ~mingled' => Lone /\ Underway' = {} /\ (from # "idle" => UpToDate(v))
<1> DEFINE over == [NoVisit EXCEPT !.at = "done"]
<1>1. over \in VisitState /\ over.at = "done" /\ over.row = NewSession /\ VisitStep(v, from, over)
    BY VisitEnds DEF Leave
<1> HIDE DEF over
<1>2. /\ visit' \in [Visits -> VisitState] /\ visit[v].at = from /\ visit'[v] = over /\ v \notin reuses
      /\ \A w \in Visits \ {v} : visit'[w] = visit[w]
      /\ ~mingled' => Lone /\ (\A w \in Underway' : w = v)
    BY <1>1, VisitsMove
<1>3. ASSUME NEW w \in Visits PROVE VisitStands(w)'
    <2>1. CASE w = v
        BY <1>1, <1>2, <2>1, NewSessionStands DEF VisitStands, RowStands, NewSession
    <2>2. CASE w # v
        <3>1. VisitStands(w) /\ visit'[w] = visit[w] /\ visit[w].count \in Nat
            BY <1>2, <2>2 DEF GuidedInv, VisitState
        <3>2. RowStands(visit[w].row)'
            BY <3>1 DEF VisitStands, RowStands
        <3> QED BY <2>2, <3>1, <3>2 DEF VisitStands
    <2> QED BY <2>1, <2>2
<1>4. v \notin Underway'
    BY <1>1, <1>2 DEF Underway
<1>5. ~mingled' => Underway' = {}
    BY <1>2, <1>4
<1>6. from # "idle" => v \in Underway
    BY <1>2 DEF Underway
<1> QED BY <1>2, <1>3, <1>5, <1>6 DEF Lone

LEMMA ReusesAreCounted == GuidedInv => Cardinality(reuses) \in Nat
BY FS_CardinalityType DEF GuidedInv

LEMMA AnswerSaved ==
    ASSUME GuidedInv, NEW v \in Visits, SaveAnswer(v)
    PROVE  GuidedInv'
<1> DEFINE row == visit[v].row
           reply == visit[v].reply
<1>0. Cardinality(reuses) \in Nat /\ QuestionCount \in Nat
    BY ReusesAreCounted, GuidedAssumption
<1>1. /\ Leave(v, "answering") /\ UNCHANGED <<created, reuses, reuseCount>>
      /\ said' = said \cup {<<visit[v].question, reply>>}
      /\ session' = [status |-> IF row.index + 1 >= QuestionCount THEN "awaiting_confirmation"
                               ELSE session.status,
                     index |-> row.index + 1, answers |-> Append(row.answers, reply),
                     listed |-> row.listed]
    BY DEF SaveAnswer, IndexAfter
<1>2. session.status # "active" => session'.status # "active"
    BY <1>1
<1>3. /\ visit' \in [Visits -> VisitState] /\ visit[v].at = "answering"
      /\ \A w \in Visits : VisitStands(w)'
      /\ ~mingled' => Lone /\ Underway' = {} /\ UpToDate(v)
    BY <1>0, <1>1, <1>2, VisitsEnd
<1>4. /\ row \in Row /\ row.status = "active" /\ row.index < QuestionCount /\ row.index \in Nat
      /\ Len(row.answers) = row.index /\ row.answers \in Seq(Replies)
      /\ visit[v].question = row.index + 1 /\ reply \in Replies
      /\ \A q \in 1 .. Len(row.answers) : <<q, row.answers[q]>> \in said
    BY <1>3 DEF GuidedInv, VisitStands, RowStands, VisitState, Row
<1>5. session.status \in {"active", "awaiting_confirmation", "completed"}
    BY DEF GuidedInv, Row
<1> HIDE DEF row, reply
<1>6. /\ session'.answers \in Seq(Replies) /\ Len(session'.answers) = row.index + 1
      /\ \A q \in 1 .. row.index + 1 :
            session'.answers[q] = IF q <= row.index THEN row.answers[q] ELSE reply
    BY <1>1, <1>4
<1>7. session' \in Row
    <2>1. session'.answers \in Seq(Replies) /\ row.listed \in SUBSET Made
        BY <1>4, <1>6 DEF Row
    <2> QED BY <1>1, <1>4, <1>5, <2>1 DEF Row
<1>8. RowStands(session)'
    BY <1>0, <1>1, <1>4, <1>6 DEF RowStands
<1>9. MadeFromWhatWasSaid'
    BY <1>1 DEF GuidedInv, MadeFromWhatWasSaid
<1>10. ASSUME ~mingled' PROVE Lone'
    <2>1. Lone /\ Underway' = {} /\ row = session /\ session.status = "active"
        BY <1>3, <1>4, <1>10 DEF UpToDate, row
    <2>2. created = {} /\ session.listed = {}
        BY <2>1 DEF Lone
    <2> QED BY <1>0, <1>1, <1>4, <1>6, <2>1, <2>2 DEF Lone
<1> QED BY <1>1, <1>3, <1>7, <1>8, <1>9, <1>10 DEF GuidedInv, ReuseIsNotForgotten

LEMMA EditSaved ==
    ASSUME GuidedInv, NEW v \in Visits, SaveEdit(v)
    PROVE  GuidedInv'
<1> DEFINE row == visit[v].row
           reply == visit[v].reply
           at == visit[v].question
<1>0. Cardinality(reuses) \in Nat /\ QuestionCount \in Nat
    BY ReusesAreCounted, GuidedAssumption
<1>1. /\ Leave(v, "editing") /\ UNCHANGED <<created, reuses, reuseCount>>
      /\ said' = said \cup {<<at, reply>>}
      /\ session' = [status |-> session.status, index |-> session.index,
                     answers |-> [row.answers EXCEPT ![at] = reply], listed |-> row.listed]
    BY DEF SaveEdit
<1>2. session'.status = session.status
    BY <1>1
<1>3. /\ visit' \in [Visits -> VisitState] /\ visit[v].at = "editing"
      /\ \A w \in Visits : VisitStands(w)'
      /\ ~mingled' => Lone /\ Underway' = {} /\ UpToDate(v)
    BY <1>0, <1>1, <1>2, VisitsEnd
<1>4. /\ row.answers \in Seq(Replies) /\ row.listed \subseteq Made /\ Len(row.answers) <= QuestionCount
      /\ at \in 1 .. Len(row.answers) /\ reply \in Replies /\ session.status # "active"
      /\ \A q \in 1 .. Len(row.answers) : <<q, row.answers[q]>> \in said
    BY <1>3 DEF GuidedInv, VisitStands, RowStands, VisitState, Row
<1>5. session.status \in {"active", "awaiting_confirmation", "completed"} /\ session.index \in Nat
    BY DEF GuidedInv, Row
<1> HIDE DEF row, reply, at
<1>6. /\ session'.answers \in Seq(Replies) /\ Len(session'.answers) = Len(row.answers)
      /\ \A q \in 1 .. Len(row.answers) :
            session'.answers[q] = IF q = at THEN reply ELSE row.answers[q]
    BY <1>1, <1>4
<1>7. session' \in Row
    BY <1>1, <1>4, <1>5, <1>6 DEF Row
<1>8. RowStands(session)'
    BY <1>1, <1>4, <1>6 DEF RowStands
<1>9. MadeFromWhatWasSaid'
    BY <1>1 DEF GuidedInv, MadeFromWhatWasSaid
<1>10. ASSUME ~mingled' PROVE Lone'
    <2>1. Lone /\ Underway' = {} /\ row = session /\ session.status = "awaiting_confirmation"
        BY <1>3, <1>10 DEF UpToDate, row
    <2>2. created = {} /\ session.listed = {}
        BY <2>1 DEF Lone
    <2> QED BY <1>1, <1>6, <2>1, <2>2 DEF Lone
<1> QED BY <1>1, <1>3, <1>7, <1>8, <1>9, <1>10 DEF GuidedInv, ReuseIsNotForgotten

LEMMA ConfirmSaved ==
    ASSUME GuidedInv, NEW v \in Visits, SaveConfirm(v)
    PROVE  GuidedInv'
<1> DEFINE row == visit[v].row
           fresh == FreshVisit(v)
<1>0. Cardinality(reuses) \in Nat /\ QuestionCount \in Nat
    BY ReusesAreCounted, GuidedAssumption
<1>1. /\ Leave(v, "confirming") /\ UNCHANGED <<said, reuses, reuseCount>>
      /\ row.listed = {} => Len(row.answers) >= QuestionCount
      /\ created' = created \cup fresh
      /\ session' = [status |-> "completed", index |-> session.index, answers |-> row.answers,
                     listed |-> IF row.listed # {} THEN row.listed ELSE fresh]
    BY DEF SaveConfirm, Given
<1>2. session'.status # "active"
    BY <1>1
<1>3. /\ visit' \in [Visits -> VisitState] /\ visit[v].at = "confirming"
      /\ \A w \in Visits : VisitStands(w)'
      /\ ~mingled' => Lone /\ Underway' = {} /\ UpToDate(v)
    BY <1>0, <1>1, <1>2, VisitsEnd
<1>4. /\ row.answers \in Seq(Replies) /\ row.listed \subseteq Made /\ Len(row.answers) <= QuestionCount
      /\ \A q \in 1 .. Len(row.answers) : <<q, row.answers[q]>> \in said
    BY <1>3 DEF GuidedInv, VisitStands, RowStands, VisitState, Row
<1>5. session.index \in Nat
    BY DEF GuidedInv, Row
<1>6. fresh = IF row.listed # {} THEN {} ELSE {[by |-> v, from |-> row.answers]}
    BY DEF FreshVisit
<1> HIDE DEF row, fresh
<1>7. fresh \subseteq Made
    BY <1>4, <1>6 DEF Made
<1>8. session' \in Row /\ session'.answers = row.answers
    BY <1>1, <1>4, <1>5, <1>7 DEF Row
<1>9. RowStands(session)'
    BY <1>1, <1>2, <1>4, <1>8 DEF RowStands
<1>10. \A o \in fresh : o.from = row.answers /\ Len(row.answers) = QuestionCount
    BY <1>0, <1>1, <1>4, <1>6
<1>11. MadeFromWhatWasSaid'
    BY <1>1, <1>4, <1>10 DEF GuidedInv, MadeFromWhatWasSaid
<1>12. ASSUME ~mingled' PROVE Lone'
    <2>1. Lone /\ Underway' = {} /\ row = session /\ session.status = "awaiting_confirmation"
        BY <1>3, <1>12 DEF UpToDate, row
    <2>2. created = {} /\ session.listed = {}
        BY <2>1 DEF Lone
    <2>3. fresh = {[by |-> v, from |-> row.answers]} /\ created' = fresh
        BY <1>1, <1>6, <2>1, <2>2
    <2> QED BY <1>1, <1>8, <2>1, <2>2, <2>3 DEF Lone
<1> QED BY <1>1, <1>3, <1>8, <1>9, <1>11, <1>12 DEF GuidedInv, ReuseIsNotForgotten

LEMMA ReuseSaved ==
    ASSUME GuidedInv, NEW v \in Visits, SaveReuse(v)
    PROVE  GuidedInv'
<1>0. Cardinality(reuses) \in Nat /\ IsFiniteSet(reuses)
    BY ReusesAreCounted DEF GuidedInv
<1>1. /\ Leave(v, "reusing") /\ UNCHANGED <<session, created, said>>
      /\ reuses' = reuses \cup {v} /\ reuseCount' = visit[v].count + 1
    BY DEF SaveReuse, Counted
<1>2. /\ IsFiniteSet(reuses') /\ Cardinality(reuses') \in Nat
      /\ Cardinality(reuses') = IF v \in reuses THEN Cardinality(reuses) ELSE Cardinality(reuses) + 1
    BY <1>0, <1>1, FS_AddElement, FS_CardinalityType
<1>3. /\ visit' \in [Visits -> VisitState] /\ visit[v].at = "reusing" /\ v \notin reuses
      /\ \A w \in Visits : VisitStands(w)'
      /\ ~mingled' => Lone /\ Underway' = {} /\ UpToDate(v)
    <2>1. reuses' \subseteq reuses \cup {v} /\ said \subseteq said' /\ session' = session
        BY <1>1
    <2>2. /\ Cardinality(reuses) <= Cardinality(reuses')
          /\ Cardinality(reuses) \in Nat /\ Cardinality(reuses') \in Nat
        BY <1>0, <1>2
    <2>3. Leave(v, "reusing") /\ (session.status # "active" => session'.status # "active")
        BY <1>1
    <2> QED BY <2>1, <2>2, <2>3, VisitsEnd
<1>4. visit[v].count \in Nat /\ visit[v].count <= Cardinality(reuses)
    BY <1>3 DEF GuidedInv, VisitStands, VisitState
<1>5. ReuseIsNotForgotten' /\ reuseCount' \in Nat
    BY <1>0, <1>1, <1>2, <1>3, <1>4 DEF ReuseIsNotForgotten
<1>6. ~mingled' => Lone'
    BY <1>0, <1>1, <1>2, <1>3 DEF Lone, UpToDate
<1> QED BY <1>1, <1>2, <1>3, <1>5, <1>6 DEF GuidedInv, RowStands, MadeFromWhatWasSaid

LEMMA GuidedSteps ==
    ASSUME GuidedInv, [GuidedNext]_guidedVars
    PROVE  GuidedInv'
<1>1. CASE UNCHANGED guidedVars
    <2>1. /\ UNCHANGED <<session, created, visit, said, reuses, reuseCount, mingled>>
        BY <1>1 DEF guidedVars
    <2> QED BY <2>1 DEF GuidedInv, RowStands, VisitStands, UpToDate, Lone, Underway,
                        MadeFromWhatWasSaid, ReuseIsNotForgotten
<1>2. ASSUME NEW v \in Visits, NEW q \in 1 .. QuestionCount, NEW a \in Replies, BeginAnswer(v, q, a)
      PROVE  GuidedInv'
    <2> DEFINE next == [at |-> "answering", row |-> session, question |-> q, reply |-> a, count |-> 0]
    <2>1. /\ session.status = "active" /\ session.index < QuestionCount /\ q = session.index + 1
          /\ VisitStep(v, "idle", next) /\ UNCHANGED <<session, created, said, reuses, reuseCount>>
        BY <1>2 DEF BeginAnswer, Enter
    <2>2. /\ next \in VisitState /\ next.at = "answering" /\ next.row = session
          /\ next.question = q /\ next.reply = a
        BY DEF GuidedInv, VisitState
    <2> HIDE DEF next
    <2> QED BY <2>1, <2>2, VisitsBegin
<1>3. ASSUME NEW v \in Visits, NEW q \in 1 .. QuestionCount, NEW a \in Replies, BeginRewrite(v, q, a)
      PROVE  GuidedInv'
    <2> DEFINE next == [at |-> "editing", row |-> session, question |-> q, reply |-> a, count |-> 0]
    <2>1. /\ session.status = "awaiting_confirmation" /\ q \in 1 .. Len(session.answers)
          /\ VisitStep(v, "idle", next) /\ UNCHANGED <<session, created, said, reuses, reuseCount>>
        BY <1>3 DEF BeginRewrite, Enter, Editable, GuidedInv, Row
    <2>2. /\ next \in VisitState /\ next.at = "editing" /\ next.row = session
          /\ next.question = q /\ next.reply = a
        BY DEF GuidedInv, VisitState
    <2> HIDE DEF next
    <2> QED BY <2>1, <2>2, VisitsBegin
<1>4. ASSUME NEW v \in Visits, BeginConfirm(v)
      PROVE  GuidedInv'
    <2> DEFINE next == [at |-> "confirming", row |-> session, question |-> 1, reply |-> NoReply, count |-> 0]
    <2>1. /\ session.status = "awaiting_confirmation"
          /\ VisitStep(v, "idle", next) /\ UNCHANGED <<session, created, said, reuses, reuseCount>>
        BY <1>4 DEF BeginConfirm, Enter
    <2>2. next \in VisitState /\ next.at = "confirming" /\ next.row = session
        BY DEF GuidedInv, VisitState
    <2> HIDE DEF next
    <2> QED BY <2>1, <2>2, VisitsBegin
<1>5. ASSUME NEW v \in Visits, BeginReuse(v)
      PROVE  GuidedInv'
    <2> DEFINE next == [at |-> "reusing", row |-> NewSession, question |-> 1,
                        reply |-> NoReply, count |-> reuseCount]
    <2>1. VisitStep(v, "idle", next) /\ UNCHANGED <<session, created, said, reuses, reuseCount>>
        BY <1>5 DEF BeginReuse
    <2>2. next \in VisitState /\ next.at = "reusing" /\ next.row = NewSession /\ next.count = reuseCount
        BY NewSessionStands DEF GuidedInv, VisitState
    <2> HIDE DEF next
    <2> QED BY <2>1, <2>2, VisitsBegin
<1>6. ASSUME NEW v \in Visits, FailInSession(v)
      PROVE  GuidedInv'
    <2>1. /\ visit[v].at \notin {"idle", "done"} /\ Leave(v, visit[v].at)
          /\ UNCHANGED <<session, created, said, reuses, reuseCount>>
        BY <1>6 DEF FailInSession, Underway
    <2>2. Cardinality(reuses) \in Nat
        BY ReusesAreCounted
    <2>3. /\ visit' \in [Visits -> VisitState] /\ \A w \in Visits : VisitStands(w)'
          /\ ~mingled' => Lone /\ Underway' = {}
        BY <2>1, <2>2, VisitsEnd
    <2>4. ~mingled' => Lone'
        BY <2>1, <2>3 DEF Lone
    <2> QED BY <2>1, <2>3, <2>4 DEF GuidedInv, RowStands, MadeFromWhatWasSaid, ReuseIsNotForgotten
<1> QED BY <1>1, <1>2, <1>3, <1>4, <1>5, <1>6, AnswerSaved, EditSaved, ConfirmSaved, ReuseSaved
        DEF GuidedNext

(***************************************************************************)
(* For any number of requests, questions and replies: what a session made  *)
(* was said in it, whole where requests took turns, and no reuse forgotten.*)
(***************************************************************************)
THEOREM SessionsStayFaithful == GuidedSpec => []SessionsAreFaithful
<1>1. GuidedInit => GuidedInv
    BY GuidedBegins
<1>2. GuidedInv /\ [GuidedNext]_guidedVars => GuidedInv'
    BY GuidedSteps
<1> QED BY <1>1, <1>2, GuidedInvIsFaithful, PTL DEF GuidedSpec

\* The bounds of a guided session.

RowTyped(r) == r.index <= QuestionCount /\ r.listed \subseteq GuidedObject

GuidedBounds ==
    /\ RowTyped(session) /\ created \subseteq GuidedObject
    /\ \A v \in Visits :
        /\ RowTyped(visit[v].row)
        /\ visit[v].question \in 1 .. QuestionCount
        /\ visit[v].count <= Cardinality(Visits)
    /\ said \subseteq (1 .. QuestionCount) \X Replies
    /\ reuses \subseteq Visits
    /\ mingled \in BOOLEAN

LEMMA ShortAnswersAreBounded ==
    ASSUME NEW S, NEW n \in Nat, NEW x \in Seq(S), Len(x) <= n
    PROVE  x \in BoundedSeq(S, n)
<1>1. x \in [1 .. Len(x) -> S] /\ Len(x) \in 0 .. n
    OBVIOUS
<1> QED BY <1>1 DEF BoundedSeq, SeqOf

LEMMA RowsAreTyped ==
    ASSUME NEW r \in Row, Len(r.answers) <= QuestionCount, RowTyped(r)
    PROVE  r \in SessionRow
<1>1. r.answers \in BoundedSeq(Replies, QuestionCount)
    BY ShortAnswersAreBounded, GuidedAssumption DEF Row
<1>2. r.index \in 0 .. QuestionCount
    BY GuidedAssumption DEF Row, RowTyped
<1> QED BY <1>1, <1>2 DEF Row, RowTyped, SessionRow

LEMMA GuidedTyped == IsFiniteSet(Visits) /\ GuidedInv /\ GuidedBounds => GuidedTypes
<1> SUFFICES ASSUME IsFiniteSet(Visits), GuidedInv, GuidedBounds PROVE GuidedTypes
    OBVIOUS
<1>0. Cardinality(Visits) \in Nat
    BY FS_CardinalityType
<1>1. session \in SessionRow
    BY RowsAreTyped DEF GuidedInv, RowStands, GuidedBounds
<1>2. ASSUME NEW v \in Visits
      PROVE  /\ visit[v].at \in {"idle", "answering", "editing", "confirming", "reusing", "done"}
             /\ visit[v].row \in SessionRow
             /\ visit[v].question \in 1 .. QuestionCount
             /\ visit[v].reply \in Replies \cup {NoReply}
             /\ visit[v].count \in 0 .. Cardinality(Visits)
    <2>1. visit[v] \in VisitState /\ RowStands(visit[v].row) /\ RowTyped(visit[v].row)
        BY DEF GuidedInv, VisitStands, GuidedBounds
    <2>2. visit[v].row \in SessionRow
        BY <2>1, RowsAreTyped DEF VisitState, RowStands
    <2> QED BY <1>0, <2>1, <2>2 DEF VisitState, GuidedBounds
<1>3. reuseCount \in 0 .. Cardinality(Visits)
    <2>1. Cardinality(reuses) \in Nat /\ Cardinality(reuses) <= Cardinality(Visits)
        BY FS_Subset, FS_CardinalityType DEF GuidedBounds
    <2> QED BY <1>0, <2>1 DEF GuidedInv, ReuseIsNotForgotten
<1> QED BY <1>1, <1>2, <1>3 DEF GuidedTypes, GuidedBounds

LEMMA NewSessionTyped == RowTyped(NewSession)
BY GuidedAssumption DEF RowTyped, NewSession

LEMMA GuidedBoundsBegin == IsFiniteSet(Visits) /\ GuidedInit => GuidedBounds
<1> SUFFICES ASSUME IsFiniteSet(Visits), GuidedInit PROVE GuidedBounds
    OBVIOUS
<1>1. Cardinality(Visits) \in Nat /\ 1 \in 1 .. QuestionCount
    BY FS_CardinalityType, GuidedAssumption
<1>2. NoVisit.row = NewSession /\ NoVisit.question = 1 /\ NoVisit.count = 0
    BY DEF NoVisit
<1>3. \A v \in Visits : visit[v] = NoVisit
    BY DEF GuidedInit
<1>4. ASSUME NEW v \in Visits
      PROVE  /\ RowTyped(visit[v].row) /\ visit[v].question \in 1 .. QuestionCount
             /\ visit[v].count <= Cardinality(Visits)
    <2>1. visit[v].row = NewSession /\ visit[v].question = 1 /\ visit[v].count = 0
        BY <1>2, <1>3
    <2> QED BY <1>1, <2>1, NewSessionTyped
<1>5. session = NewSession /\ created = {} /\ said = {} /\ reuses = {} /\ mingled = FALSE
    BY DEF GuidedInit
<1> QED BY <1>4, <1>5, NewSessionTyped DEF GuidedBounds

\* A visit goes on within the bounds.
LEMMA VisitsStayBounded ==
    ASSUME GuidedInv, GuidedBounds, NEW v \in Visits, NEW from, NEW next \in VisitState,
           VisitStep(v, from, next), RowTyped(next.row),
           next.question \in 1 .. QuestionCount, next.count <= Cardinality(Visits)
    PROVE  /\ \A w \in Visits :
                /\ RowTyped(visit'[w].row)
                /\ visit'[w].question \in 1 .. QuestionCount
                /\ visit'[w].count <= Cardinality(Visits)
           /\ mingled' \in BOOLEAN
<1>1. visit'[v] = next /\ \A w \in Visits \ {v} : visit'[w] = visit[w]
    BY VisitsMove
<1>2. mingled' \in BOOLEAN
    BY DEF VisitStep
<1> QED BY <1>1, <1>2 DEF GuidedBounds

LEMMA LeavingStaysBounded ==
    ASSUME IsFiniteSet(Visits), GuidedInv, GuidedBounds, NEW v \in Visits, NEW from, Leave(v, from)
    PROVE  /\ \A w \in Visits :
                /\ RowTyped(visit'[w].row)
                /\ visit'[w].question \in 1 .. QuestionCount
                /\ visit'[w].count <= Cardinality(Visits)
           /\ mingled' \in BOOLEAN
<1> DEFINE over == [NoVisit EXCEPT !.at = "done"]
<1>1. over \in VisitState /\ over.row = NewSession /\ VisitStep(v, from, over)
    BY VisitEnds DEF Leave
<1>2. over.question = 1 /\ over.count = 0
    BY DEF NoVisit
<1>3. Cardinality(Visits) \in Nat /\ 1 \in 1 .. QuestionCount
    BY FS_CardinalityType, GuidedAssumption
<1> HIDE DEF over
<1> QED BY <1>1, <1>2, <1>3, NewSessionTyped, VisitsStayBounded

\* A request that begins holds the row as it is, and a count there was.
LEMMA BeginningStaysBounded ==
    ASSUME IsFiniteSet(Visits), GuidedInv, GuidedBounds, NEW v \in Visits, NEW at,
           NEW row \in {session, NewSession}, NEW q \in 1 .. QuestionCount,
           NEW reply, NEW count \in {0, reuseCount},
           VisitStep(v, "idle", [at |-> at, row |-> row, question |-> q, reply |-> reply,
                                 count |-> count]),
           at \in {"answering", "editing", "confirming", "reusing"},
           reply \in Replies \cup {NoReply},
           UNCHANGED <<session, created, said, reuses, reuseCount>>
    PROVE  GuidedBounds'
<1> DEFINE next == [at |-> at, row |-> row, question |-> q, reply |-> reply, count |-> count]
<1>1. next \in VisitState /\ next.row = row /\ next.question = q /\ next.count = count
    BY NewSessionStands, GuidedAssumption DEF VisitState, GuidedInv
<1>2. RowTyped(row)
    BY NewSessionTyped DEF GuidedBounds
<1>3. count <= Cardinality(Visits)
    <2>1. Cardinality(reuses) \in Nat /\ Cardinality(reuses) <= Cardinality(Visits)
          /\ Cardinality(Visits) \in Nat
        BY FS_Subset, FS_CardinalityType DEF GuidedBounds
    <2> QED BY <2>1 DEF GuidedInv, ReuseIsNotForgotten
<1> HIDE DEF next
<1>4. /\ \A w \in Visits :
            /\ RowTyped(visit'[w].row)
            /\ visit'[w].question \in 1 .. QuestionCount
            /\ visit'[w].count <= Cardinality(Visits)
      /\ mingled' \in BOOLEAN
    <2>1. VisitStep(v, "idle", next)
        BY DEF next
    <2> QED BY <1>1, <1>2, <1>3, <2>1, VisitsStayBounded
<1> QED BY <1>4 DEF GuidedBounds, RowTyped

LEMMA AnswerKeepsBounds ==
    ASSUME IsFiniteSet(Visits), GuidedInv, GuidedBounds, NEW v \in Visits, SaveAnswer(v)
    PROVE  GuidedBounds'
<1> DEFINE row == visit[v].row
<1>1. /\ Leave(v, "answering") /\ UNCHANGED <<created, reuses, reuseCount>>
      /\ said' = said \cup {<<visit[v].question, visit[v].reply>>}
      /\ session'.index = row.index + 1 /\ session'.listed = row.listed
      /\ visit[v].at = "answering"
    BY DEF SaveAnswer, IndexAfter, Leave, VisitStep
<1>2. /\ row.index < QuestionCount /\ row.index \in Nat /\ QuestionCount \in Nat
      /\ RowTyped(row) /\ visit[v].question \in 1 .. QuestionCount /\ visit[v].reply \in Replies
    BY <1>1, GuidedAssumption DEF GuidedInv, GuidedBounds, VisitStands, VisitState, Row
<1> HIDE DEF row
<1>3. RowTyped(session')
    BY <1>1, <1>2 DEF RowTyped
<1>4. said' \subseteq (1 .. QuestionCount) \X Replies
    BY <1>1, <1>2 DEF GuidedBounds
<1> QED BY <1>1, <1>3, <1>4, LeavingStaysBounded DEF GuidedBounds, RowTyped

LEMMA EditKeepsBounds ==
    ASSUME IsFiniteSet(Visits), GuidedInv, GuidedBounds, NEW v \in Visits, SaveEdit(v)
    PROVE  GuidedBounds'
<1> DEFINE row == visit[v].row
<1>1. /\ Leave(v, "editing") /\ UNCHANGED <<created, reuses, reuseCount>>
      /\ said' = said \cup {<<visit[v].question, visit[v].reply>>}
      /\ session'.index = session.index /\ session'.listed = row.listed
      /\ visit[v].at = "editing"
    BY DEF SaveEdit, Leave, VisitStep
<1>2. /\ RowTyped(row) /\ visit[v].question \in 1 .. QuestionCount /\ visit[v].reply \in Replies
    BY <1>1 DEF GuidedInv, GuidedBounds, VisitStands
<1> HIDE DEF row
<1>3. RowTyped(session')
    BY <1>1, <1>2 DEF RowTyped, GuidedBounds
<1>4. said' \subseteq (1 .. QuestionCount) \X Replies
    BY <1>1, <1>2 DEF GuidedBounds
<1> QED BY <1>1, <1>3, <1>4, LeavingStaysBounded DEF GuidedBounds, RowTyped

LEMMA ConfirmKeepsBounds ==
    ASSUME IsFiniteSet(Visits), GuidedInv, GuidedBounds, NEW v \in Visits, SaveConfirm(v)
    PROVE  GuidedBounds'
<1> DEFINE row == visit[v].row
<1>1. /\ Leave(v, "confirming") /\ UNCHANGED <<said, reuses, reuseCount>>
      /\ created' = created \cup FreshVisit(v)
      /\ session'.index = session.index
      /\ session'.listed = IF row.listed # {} THEN row.listed ELSE FreshVisit(v)
    BY DEF SaveConfirm
<1>2. RowTyped(row) /\ RowTyped(session) /\ created \subseteq GuidedObject
    BY DEF GuidedBounds
<1>3. FreshVisit(v) \subseteq GuidedObject
    <2>1. row.answers \in Seq(Replies) /\ Len(row.answers) <= QuestionCount
        BY DEF GuidedInv, VisitStands, RowStands, VisitState, Row
    <2>2. row.answers \in BoundedSeq(Replies, QuestionCount)
        BY <2>1, ShortAnswersAreBounded, GuidedAssumption
    <2> QED BY <2>2 DEF FreshVisit, GuidedObject
<1> HIDE DEF row
<1>4. RowTyped(session') /\ created' \subseteq GuidedObject
    BY <1>1, <1>2, <1>3 DEF RowTyped
<1> QED BY <1>1, <1>4, LeavingStaysBounded DEF GuidedBounds, RowTyped

LEMMA GuidedBoundsStep ==
    ASSUME IsFiniteSet(Visits), GuidedInv, GuidedBounds, [GuidedNext]_guidedVars
    PROVE  GuidedBounds'
<1>1. CASE UNCHANGED guidedVars
    BY <1>1 DEF guidedVars, GuidedBounds, RowTyped
<1>2. ASSUME NEW v \in Visits, NEW q \in 1 .. QuestionCount, NEW a \in Replies,
             BeginAnswer(v, q, a) \/ BeginRewrite(v, q, a)
      PROVE  GuidedBounds'
    BY <1>2, BeginningStaysBounded DEF BeginAnswer, BeginRewrite, Enter
<1>3. ASSUME NEW v \in Visits, BeginConfirm(v) PROVE GuidedBounds'
    <2>1. 1 \in 1 .. QuestionCount
        BY GuidedAssumption
    <2> QED BY <1>3, <2>1, BeginningStaysBounded DEF BeginConfirm, Enter
<1>4. ASSUME NEW v \in Visits, BeginReuse(v) PROVE GuidedBounds'
    <2>1. 1 \in 1 .. QuestionCount
        BY GuidedAssumption
    <2> QED BY <1>4, <2>1, BeginningStaysBounded DEF BeginReuse
<1>5. ASSUME NEW v \in Visits, SaveReuse(v) PROVE GuidedBounds'
    BY <1>5, LeavingStaysBounded DEF SaveReuse, GuidedBounds, RowTyped
<1>6. ASSUME NEW v \in Visits, FailInSession(v) PROVE GuidedBounds'
    BY <1>6, LeavingStaysBounded DEF FailInSession, GuidedBounds, RowTyped
<1> QED BY <1>1, <1>2, <1>3, <1>4, <1>5, <1>6, AnswerKeepsBounds, EditKeepsBounds,
           ConfirmKeepsBounds DEF GuidedNext

\* Whatever requests overlap, the index never passes the last question, no
\* answer is one too many and no more reuses are counted than there are requests.
THEOREM SessionsKeepTheirTypes == IsFiniteSet(Visits) /\ GuidedSpec => []GuidedTypes
<1> SUFFICES ASSUME IsFiniteSet(Visits) PROVE GuidedSpec => []GuidedTypes
    OBVIOUS
<1>1. GuidedInit => GuidedInv /\ GuidedBounds
    BY GuidedBegins, GuidedBoundsBegin
<1>2. GuidedInv /\ GuidedBounds /\ [GuidedNext]_guidedVars => GuidedInv' /\ GuidedBounds'
    BY GuidedSteps, GuidedBoundsStep
<1>3. GuidedInv /\ GuidedBounds => GuidedTypes
    BY GuidedTyped
<1> QED BY <1>1, <1>2, <1>3, PTL DEF GuidedSpec

-----------------------------------------------------------------------------
(***************************************************************************)
(* The workflow.  Whatever requests overlap, what is approved, to be       *)
(* written or written was ticked; where they take turns, what is made and  *)
(* what is still to be made are together what was approved.                *)
(***************************************************************************)

Approvals == UNION { [D -> Verdicts] : D \in SUBSET Candidates }

TaskState ==
    [at : {"idle", "reviewing", "deciding", "materializing", "writing", "done"},
     ticks : SUBSET Candidates, loaded : Approvals, shown : {"absent", "review_required"},
     todo : SUBSET Candidates, made : SUBSET Asset]

About(made) == { a.candidate : a \in made }

SeenInv ==
    /\ approval \in Approvals
    /\ Approved \subseteq endorsed
    /\ task \in [Workers -> TaskState]
    /\ \A r \in Workers : task[r].todo \cup About(task[r].made) \subseteq endorsed
    /\ files = [c \in Candidates |-> files[c]]
    /\ NothingUnseenIsKept

LEMMA NoWorkIsATask == NoWork \in TaskState /\ NoWork.todo = {} /\ NoWork.made = {}
<1>1. <<>> \in [{} -> Verdicts]
    OBVIOUS
<1>2. <<>> \in Approvals
    BY <1>1 DEF Approvals
<1> QED BY <1>2 DEF NoWork, TaskState

LEMMA DoneIsATask ==
    LET over == [NoWork EXCEPT !.at = "done"]
    IN  over \in TaskState /\ over.todo = {} /\ over.made = {} /\ over.at = "done"
BY NoWorkIsATask DEF TaskState

\* The tasks after a step of one worker.
LEMMA TasksMove ==
    ASSUME NEW r \in Workers, NEW from, NEW next \in TaskState, Take(r, from, next),
           task \in [Workers -> TaskState]
    PROVE  /\ task' \in [Workers -> TaskState] /\ task[r].at = from /\ task'[r] = next
           /\ \A s \in Workers \ {r} : task'[s] = task[s]
BY DEF Take

\* A worker goes on with no more to make or made than was ticked.
LEMMA TasksStand ==
    ASSUME SeenInv, NEW r \in Workers, NEW from, NEW next \in TaskState, Take(r, from, next),
           next.todo \cup About(next.made) \subseteq endorsed,
           UNCHANGED <<approval, objects, files, endorsed>>
    PROVE  SeenInv'
<1>1. /\ task' \in [Workers -> TaskState] /\ task'[r] = next
      /\ \A s \in Workers \ {r} : task'[s] = task[s]
    BY TasksMove DEF SeenInv
<1> QED BY <1>1 DEF SeenInv, Approved, NothingUnseenIsKept

\* What each step that a worker takes in hand leaves it with.
LEMMA ReviewBegun ==
    ASSUME NEW ticks \in SUBSET Candidates, workflow = "review_required"
    PROVE  LET x == [NoWork EXCEPT !.at = "reviewing", !.ticks = ticks, !.shown = workflow]
           IN  /\ x \in TaskState /\ x.at = "reviewing" /\ x.ticks = ticks /\ x.shown = workflow
               /\ x.todo = {} /\ x.made = {}
<1> DEFINE a == [NoWork EXCEPT !.at = "reviewing"]
           b == [a EXCEPT !.ticks = ticks]
           x == [NoWork EXCEPT !.at = "reviewing", !.ticks = ticks, !.shown = workflow]
<1>1. a \in TaskState
    BY NoWorkIsATask DEF TaskState
<1>2. x = [b EXCEPT !.shown = workflow]
    OBVIOUS
<1>3. /\ x.at = "reviewing" /\ x.ticks = ticks /\ x.shown = workflow
      /\ x.todo = {} /\ x.made = {}
    BY DEF NoWork
<1> HIDE DEF a
<1>4. b \in TaskState
    BY <1>1 DEF TaskState
<1> HIDE DEF b
<1>5. [b EXCEPT !.shown = workflow] \in TaskState
    BY <1>4 DEF TaskState
<1> QED BY <1>2, <1>3, <1>5

LEMMA ReviewLoaded ==
    ASSUME NEW t \in TaskState, NEW loaded \in Approvals
    PROVE  LET x == [t EXCEPT !.at = "deciding", !.loaded = loaded]
           IN  /\ x \in TaskState /\ x.at = "deciding" /\ x.loaded = loaded /\ x.shown = t.shown
               /\ x.ticks = t.ticks /\ x.todo = t.todo /\ x.made = t.made
<1> DEFINE a == [t EXCEPT !.at = "deciding"]
           x == [t EXCEPT !.at = "deciding", !.loaded = loaded]
<1>1. a \in TaskState
    BY DEF TaskState
<1>2. x = [a EXCEPT !.loaded = loaded]
    OBVIOUS
<1>3. /\ x.at = "deciding" /\ x.loaded = loaded /\ x.shown = t.shown
      /\ x.ticks = t.ticks /\ x.todo = t.todo /\ x.made = t.made
    BY DEF TaskState
<1> HIDE DEF a
<1>4. [a EXCEPT !.loaded = loaded] \in TaskState
    BY <1>1 DEF TaskState
<1> QED BY <1>2, <1>3, <1>4

LEMMA MakingLoaded ==
    ASSUME NEW t \in TaskState, NEW todo \in SUBSET Candidates
    PROVE  LET x == [t EXCEPT !.at = "writing", !.todo = todo]
           IN  /\ x \in TaskState /\ x.at = "writing" /\ x.todo = todo /\ x.made = t.made
<1> DEFINE a == [t EXCEPT !.at = "writing"]
           x == [t EXCEPT !.at = "writing", !.todo = todo]
<1>1. a \in TaskState
    BY DEF TaskState
<1>2. x = [a EXCEPT !.todo = todo]
    OBVIOUS
<1>3. x.at = "writing" /\ x.todo = todo /\ x.made = t.made
    BY DEF TaskState
<1> HIDE DEF a
<1>4. [a EXCEPT !.todo = todo] \in TaskState
    BY <1>1 DEF TaskState
<1> QED BY <1>2, <1>3, <1>4

Making(t, c, a) == [t EXCEPT !.todo = @ \ {c}, !.made = @ \cup {a}]

LEMMA AssetWritten ==
    ASSUME NEW t \in TaskState, NEW c \in Candidates, NEW a \in Asset
    PROVE  LET x == Making(t, c, a)
           IN  /\ x \in TaskState /\ x.at = t.at
               /\ x.todo = t.todo \ {c} /\ x.made = t.made \cup {a}
<1> DEFINE b == [t EXCEPT !.todo = t.todo \ {c}]
           x == Making(t, c, a)
<1>1. b \in TaskState
    BY DEF TaskState
<1>2. t.made \cup {a} \in SUBSET Asset
    BY DEF TaskState
<1>3. x = [b EXCEPT !.made = t.made \cup {a}]
    BY DEF Making
<1>4. x.at = t.at /\ x.todo = t.todo \ {c} /\ x.made = t.made \cup {a}
    BY DEF TaskState, Making
<1> HIDE DEF b
<1>5. [b EXCEPT !.made = t.made \cup {a}] \in TaskState
    BY <1>1, <1>2 DEF TaskState
<1> QED BY <1>3, <1>4, <1>5

LEMMA SeenBegins == WorkflowInit => SeenInv
<1> SUFFICES ASSUME WorkflowInit PROVE SeenInv
    OBVIOUS
<1>1. <<>> \in [{} -> Verdicts] /\ DOMAIN <<>> = {}
    OBVIOUS
<1>2. approval \in Approvals /\ Approved = {}
    BY <1>1 DEF WorkflowInit, Approvals, Approved
<1>3. /\ task \in [Workers -> TaskState]
      /\ \A r \in Workers : task[r].todo = {} /\ task[r].made = {}
    BY NoWorkIsATask DEF WorkflowInit
<1>4. NothingUnseenIsKept /\ files = [c \in Candidates |-> files[c]]
    BY DEF WorkflowInit, NothingUnseenIsKept
<1> QED BY <1>2, <1>3, <1>4 DEF SeenInv, About, WorkflowInit

\* A worker that has nothing in hand any more leaves the rest as it is.
LEMMA WorkEnds ==
    ASSUME SeenInv, NEW r \in Workers, NEW from, Take(r, from, [NoWork EXCEPT !.at = "done"])
    PROVE  /\ task' \in [Workers -> TaskState] /\ task[r] \in TaskState /\ task[r].at = from
           /\ task'[r].at = "done" /\ task'[r].todo = {} /\ task'[r].made = {}
           /\ \A s \in Workers \ {r} : task'[s] = task[s]
<1> DEFINE over == [NoWork EXCEPT !.at = "done"]
<1>1. over \in TaskState /\ over.todo = {} /\ over.made = {} /\ over.at = "done"
    BY DoneIsATask
<1>2. Take(r, from, over)
    OBVIOUS
<1> HIDE DEF over
<1> QED BY <1>1, <1>2, TasksMove DEF SeenInv

LEMMA SeenWhenSaved ==
    ASSUME SeenInv, NEW r \in Workers, SaveReview(r)
    PROVE  SeenInv'
<1>1. /\ task' \in [Workers -> TaskState] /\ task[r] \in TaskState
      /\ task'[r].todo = {} /\ task'[r].made = {} /\ \A s \in Workers \ {r} : task'[s] = task[s]
    BY WorkEnds DEF SaveReview
<1>2. /\ approval' = [c \in DOMAIN approval |->
            IF Verdict(r, c) # task[r].loaded[c] THEN Verdict(r, c) ELSE approval[c]]
      /\ endorsed' = endorsed \cup (task[r].ticks \cap DOMAIN approval)
      /\ UNCHANGED <<objects, files>>
    BY DEF SaveReview
<1>3. PICK D \in SUBSET Candidates : approval \in [D -> Verdicts]
    BY DEF SeenInv, Approvals
<1>4. \A c : Verdict(r, c) \in Verdicts /\ (Verdict(r, c) = "true" => c \in task[r].ticks)
    BY DEF Verdict, Verdicts
<1>5. approval' \in [D -> Verdicts]
    BY <1>2, <1>3, <1>4
<1>6. approval' \in Approvals
    BY <1>5 DEF Approvals
<1>7. Approved' \subseteq endorsed'
    BY <1>2, <1>3, <1>4, <1>5 DEF Approved, SeenInv
<1> QED BY <1>1, <1>2, <1>6, <1>7 DEF SeenInv, About, NothingUnseenIsKept

LEMMA SeenWhenWritten ==
    ASSUME SeenInv, NEW r \in Workers, NEW c \in Candidates, WriteAsset(r, c)
    PROVE  SeenInv'
<1> DEFINE a == [candidate |-> c, by |-> r]
           next == Making(task[r], c, a)
<1>1. /\ c \in task[r].todo /\ Take(r, "writing", next) /\ files' = [files EXCEPT ![c] = a]
      /\ UNCHANGED <<approval, objects, endorsed>>
    BY DEF WriteAsset, Written, Making
<1>2. a \in Asset /\ a.candidate = c
    BY DEF Asset
<1>3. task[r] \in TaskState
    BY DEF SeenInv
<1> HIDE DEF a
<1>4. next \in TaskState /\ next.todo = task[r].todo \ {c} /\ next.made = task[r].made \cup {a}
    BY <1>2, <1>3, AssetWritten
<1> HIDE DEF next
<1>5. /\ task' \in [Workers -> TaskState] /\ task'[r] = next
      /\ \A s \in Workers \ {r} : task'[s] = task[s]
    BY <1>1, <1>4, TasksMove DEF SeenInv
<1>6. task[r].todo \cup About(task[r].made) \subseteq endorsed
    BY DEF SeenInv
<1>7. next.todo \cup About(next.made) \subseteq endorsed
    BY <1>1, <1>2, <1>4, <1>6 DEF About
<1>8. NothingUnseenIsKept' /\ files' = [d \in Candidates |-> files'[d]]
    BY <1>1, <1>6 DEF SeenInv, NothingUnseenIsKept
<1> QED BY <1>1, <1>5, <1>7, <1>8 DEF SeenInv, Approved

LEMMA SeenSteps ==
    ASSUME SeenInv, [WorkflowNext]_workflowVars
    PROVE  SeenInv'
<1>1. CASE UNCHANGED workflowVars
    BY <1>1 DEF workflowVars, SeenInv, Approved, NothingUnseenIsKept
<1>2. ASSUME NEW r \in Workers, NEW cs \in SUBSET Candidates, CreateWorkflow(r, cs)
      PROVE  SeenInv'
    <2>1. /\ task' \in [Workers -> TaskState] /\ task'[r].todo = {} /\ task'[r].made = {}
          /\ \A s \in Workers \ {r} : task'[s] = task[s]
        BY <1>2, WorkEnds DEF CreateWorkflow
    <2>2. approval' = [c \in cs |-> "null"] /\ UNCHANGED <<objects, files, endorsed>>
        BY <1>2 DEF CreateWorkflow
    <2>3. approval' \in [cs -> Verdicts] /\ Approved' = {}
        BY <2>2 DEF Verdicts, Approved
    <2>4. approval' \in Approvals
        BY <2>3 DEF Approvals
    <2> QED BY <2>1, <2>2, <2>3, <2>4 DEF SeenInv, About, NothingUnseenIsKept
<1>3. ASSUME NEW r \in Workers, NEW cs \in SUBSET Candidates, BeginReview(r, cs)
      PROVE  SeenInv'
    <2> DEFINE next == [NoWork EXCEPT !.at = "reviewing", !.ticks = cs, !.shown = workflow]
    <2>1. /\ workflow = "review_required" /\ Take(r, "idle", next)
          /\ UNCHANGED <<approval, objects, files, endorsed>>
        BY <1>3 DEF BeginReview, Reviewable
    <2>2. next \in TaskState /\ next.todo = {} /\ next.made = {}
        BY <2>1, ReviewBegun
    <2> HIDE DEF next
    <2>3. next.todo \cup About(next.made) \subseteq endorsed
        BY <2>2 DEF About
    <2> QED BY <2>1, <2>2, <2>3, TasksStand
<1>4. ASSUME NEW r \in Workers, LoadForReview(r)
      PROVE  SeenInv'
    <2> DEFINE next == [task[r] EXCEPT !.at = "deciding", !.loaded = approval]
    <2>1. Take(r, "reviewing", next) /\ UNCHANGED <<approval, objects, files, endorsed>>
        BY <1>4 DEF LoadForReview
    <2>2. next \in TaskState /\ next.todo = task[r].todo /\ next.made = task[r].made
        BY ReviewLoaded DEF SeenInv
    <2> HIDE DEF next
    <2> QED BY <2>1, <2>2, TasksStand DEF SeenInv
<1>5. ASSUME NEW r \in Workers, BeginMaterialize(r)
      PROVE  SeenInv'
    <2> DEFINE next == [NoWork EXCEPT !.at = "materializing"]
    <2>1. Take(r, "idle", next) /\ UNCHANGED <<approval, objects, files, endorsed>>
        BY <1>5 DEF BeginMaterialize
    <2>2. next \in TaskState /\ next.todo = {} /\ next.made = {}
        BY NoWorkIsATask DEF TaskState
    <2> HIDE DEF next
    <2>3. next.todo \cup About(next.made) \subseteq endorsed
        BY <2>2 DEF About
    <2> QED BY <2>1, <2>2, <2>3, TasksStand
<1>6. ASSUME NEW r \in Workers, LoadForMaterialize(r)
      PROVE  SeenInv'
    <2> DEFINE todo == { c \in DOMAIN approval : approval[c] = "true" }
               next == [task[r] EXCEPT !.at = "writing", !.todo = todo]
    <2>1. Take(r, "materializing", next) /\ UNCHANGED <<approval, objects, files, endorsed>>
        BY <1>6 DEF LoadForMaterialize
    <2>2. todo \subseteq Candidates /\ todo \subseteq endorsed
        BY DEF SeenInv, Approvals, Approved
    <2> HIDE DEF todo
    <2>3. next \in TaskState /\ next.todo = todo /\ next.made = task[r].made
        BY <2>2, MakingLoaded DEF SeenInv
    <2> HIDE DEF next
    <2> QED BY <2>1, <2>2, <2>3, TasksStand DEF SeenInv
<1>7. ASSUME NEW r \in Workers, Propose(r)
      PROVE  SeenInv'
    <2>1. /\ task' \in [Workers -> TaskState] /\ task'[r].todo = {} /\ task'[r].made = {}
          /\ \A s \in Workers \ {r} : task'[s] = task[s]
        BY <1>7, WorkEnds DEF Propose
    <2>2. objects' = objects \cup task[r].made /\ UNCHANGED <<approval, files, endorsed>>
        BY <1>7 DEF Propose
    <2>3. \A a \in task[r].made : a.candidate \in endorsed
        BY DEF SeenInv, About
    <2> QED BY <2>1, <2>2, <2>3 DEF SeenInv, About, Approved, NothingUnseenIsKept
<1>8. ASSUME NEW r \in Workers, FailInWorkflow(r)
      PROVE  SeenInv'
    <2>1. /\ task' \in [Workers -> TaskState] /\ task'[r].todo = {} /\ task'[r].made = {}
          /\ \A s \in Workers \ {r} : task'[s] = task[s]
        BY <1>8, WorkEnds DEF FailInWorkflow
    <2>2. UNCHANGED <<approval, objects, files, endorsed>>
        BY <1>8 DEF FailInWorkflow
    <2> QED BY <2>1, <2>2 DEF SeenInv, About, Approved, NothingUnseenIsKept
<1> QED BY <1>1, <1>2, <1>3, <1>4, <1>5, <1>6, <1>7, <1>8, SeenWhenSaved, SeenWhenWritten
        DEF WorkflowNext

-----------------------------------------------------------------------------
\* The workflow of requests that take turns.

Lifecycle ==
    {"received", "normalized", "classified", "review_required", "approved", "rejected",
     "materialized", "indexed", "analyzed", "commit_proposed"}

Path(p) == p \in Seq(Lifecycle \X Lifecycle) /\ \A i \in 1 .. Len(p) - 1 : p[i][2] = p[i + 1][1]

\* What a worker that has met no other knows of the workflow.
WorkStands(r) ==
    /\ task[r].at \in {"reviewing", "deciding"} =>
            workflow = "review_required" /\ task[r].shown = workflow
    /\ task[r].at = "deciding" => task[r].loaded = approval
    /\ task[r].at \in {"materializing", "writing"} => workflow = "approved"
    /\ task[r].at = "materializing" => task[r].made = {}
    /\ task[r].at = "writing" =>
        /\ task[r].todo \cup About(task[r].made) = Approved
        /\ task[r].todo \cap About(task[r].made) = {}
        /\ \A a \in task[r].made : files[a.candidate] = a

Delivered ==
    \E x \in changes :
        /\ changes = {x} /\ x.proposes = objects
        /\ objects = { files[c] : c \in Approved } /\ About(objects) = Approved

TrailStands ==
    /\ Path(trail) /\ (trail = <<>> <=> workflow = "absent")
    /\ trail # <<>> => trail[1][1] = "received" /\ trail[Len(trail)][2] = workflow

AssetsStand ==
    /\ workflow = "approved" => Approved # {}
    /\ workflow \in {"rejected", "review_required"} => Approved = {}
    /\ workflow # "commit_proposed" => objects = {} /\ changes = {}
    /\ workflow = "commit_proposed" => Delivered

TurnsInv ==
    /\ SeenInv
    /\ crowded \/ /\ TrailStands /\ AssetsStand
                  /\ \A r \in AtWork : WorkStands(r)

LEMMA TurnsInvIsWhole == TurnsInv => AssetsAreWhatWasReviewed
<1> SUFFICES ASSUME TurnsInv PROVE AssetsAreWhatWasReviewed
    OBVIOUS
<1>1. NothingUnseenIsKept
    BY DEF TurnsInv, SeenInv
<1>2. ASSUME ~crowded PROVE IsPath
    BY <1>2 DEF TurnsInv, TrailStands, Path, IsPath
<1>3. ASSUME ~crowded, workflow = "commit_proposed"
      PROVE  /\ Cardinality(changes) = 1 /\ objects = Proposed
             /\ objects = { files[c] : c \in Approved } /\ { a.candidate : a \in objects } = Approved
    <2>1. PICK x \in changes :
            /\ changes = {x} /\ x.proposes = objects
            /\ objects = { files[c] : c \in Approved } /\ About(objects) = Approved
        BY <1>3 DEF TurnsInv, AssetsStand, Delivered
    <2>2. Cardinality(changes) = 1
        BY <2>1, FS_Singleton
    <2>3. Proposed = objects
        BY <2>1 DEF Proposed
    <2> QED BY <2>1, <2>2, <2>3 DEF About
<1>4. LoneWorkIsWhole
    BY <1>2, <1>3 DEF TurnsInv, AssetsStand, LoneWorkIsWhole
<1> QED BY <1>1, <1>4 DEF AssetsAreWhatWasReviewed

\* Paths that meet join.
LEMMA PathsJoin ==
    ASSUME NEW p, NEW q, Path(p), Path(q), p # <<>>, q # <<>>, p[Len(p)][2] = q[1][1]
    PROVE  /\ Path(p \o q) /\ p \o q # <<>> /\ (p \o q)[1] = p[1]
           /\ (p \o q)[Len(p \o q)] = q[Len(q)]
<1> DEFINE Pairs == Lifecycle \X Lifecycle
<1>1. p \in Seq(Pairs) /\ q \in Seq(Pairs) /\ Len(p) \in Nat \ {0} /\ Len(q) \in Nat \ {0}
    BY DEF Path
<1>2. /\ \A i \in 1 .. Len(p) - 1 : p[i][2] = p[i + 1][1]
      /\ \A i \in 1 .. Len(q) - 1 : q[i][2] = q[i + 1][1]
    BY DEF Path
<1> HIDE DEF Pairs
<1>3. /\ p \o q \in Seq(Pairs) /\ Len(p \o q) = Len(p) + Len(q)
      /\ \A i \in 1 .. Len(p) + Len(q) :
            (p \o q)[i] = IF i <= Len(p) THEN p[i] ELSE q[i - Len(p)]
    BY <1>1
<1>4. ASSUME NEW i \in 1 .. Len(p) + Len(q) - 1
      PROVE  (p \o q)[i][2] = (p \o q)[i + 1][1]
    <2>1. CASE i < Len(p)
        BY <1>1, <1>2, <1>3, <2>1
    <2>2. CASE i = Len(p)
        BY <1>1, <1>3, <2>2
    <2>3. CASE i > Len(p)
        <3>1. i - Len(p) \in 1 .. Len(q) - 1 /\ (i + 1) - Len(p) = (i - Len(p)) + 1
            BY <1>1, <2>3
        <3>2. (p \o q)[i] = q[i - Len(p)] /\ (p \o q)[i + 1] = q[(i - Len(p)) + 1]
            BY <1>1, <1>3, <2>3, <3>1
        <3> QED BY <1>2, <3>1, <3>2
    <2> QED BY <1>1, <2>1, <2>2, <2>3
<1>5. Path(p \o q)
    BY <1>3, <1>4 DEF Path, Pairs
<1>6. (p \o q)[1] = p[1] /\ (p \o q)[Len(p \o q)] = q[Len(q)] /\ p \o q # <<>>
    BY <1>1, <1>3
<1> QED BY <1>5, <1>6

LEMMA IntakeIsAPath ==
    Path(Intake) /\ Intake # <<>> /\ Intake[1][1] = "received" /\ Intake[Len(Intake)][2] = "review_required"
BY DEF Intake, Path, Lifecycle

LEMMA DeliveryIsAPath ==
    /\ Path(Delivery) /\ Delivery # <<>> /\ Delivery[1][1] = "approved"
    /\ Delivery[Len(Delivery)][2] = "commit_proposed"
BY DEF Delivery, Path, Lifecycle

LEMMA AppendJoins ==
    ASSUME NEW S, NEW p \in Seq(S), NEW e \in S
    PROVE  Append(p, e) = p \o <<e>>
OBVIOUS

LEMMA StepIsAPath ==
    ASSUME NEW a \in Lifecycle, NEW b \in Lifecycle
    PROVE  /\ Path(<< <<a, b>> >>) /\ << <<a, b>> >> # <<>>
           /\ << <<a, b>> >>[1][1] = a /\ << <<a, b>> >>[Len(<< <<a, b>> >>)][2] = b
BY DEF Path

\* A worker alone is the only one at work, before its step and after.
LEMMA WorkAlone ==
    ASSUME TurnsInv, NEW r \in Workers, NEW from, from \notin {"done"}, NEW next, Take(r, from, next), ~crowded'
    PROVE  /\ TrailStands /\ AssetsStand
           /\ task[r].at = from /\ (from # "idle" => WorkStands(r))
           /\ \A s \in AtWork' : s = r /\ task'[s] = next
<1>1. /\ task[r].at = from /\ task' = [task EXCEPT ![r] = next] /\ ~crowded /\ AtWork \ {r} = {}
    BY DEF Take
<1>2. from # "idle" => r \in AtWork
    BY <1>1 DEF AtWork
<1>3. \A s \in AtWork' : s = r /\ task'[s] = next
    BY <1>1 DEF AtWork, TurnsInv, SeenInv
<1> QED BY <1>1, <1>2, <1>3 DEF TurnsInv

LoneTurns == TrailStands /\ AssetsStand /\ \A r \in AtWork : WorkStands(r)

\* A worker alone that leaves the tables as they are.
LEMMA WorkBegins ==
    ASSUME TurnsInv, NEW r \in Workers, NEW from, from # "done", NEW next, Take(r, from, next), ~crowded',
           UNCHANGED <<workflow, approval, trail, objects, files, changes>>,
           WorkStands(r)'
    PROVE  LoneTurns'
<1>1. TrailStands /\ AssetsStand /\ \A s \in AtWork' : s = r
    BY WorkAlone
<1> QED BY <1>1 DEF LoneTurns, TrailStands, AssetsStand, Delivered, Approved

LEMMA LoneWhenCreated ==
    ASSUME TurnsInv, NEW r \in Workers, NEW cs \in SUBSET Candidates, CreateWorkflow(r, cs), ~crowded'
    PROVE  LoneTurns'
<1> DEFINE over == [NoWork EXCEPT !.at = "done"]
<1>1. /\ workflow = "absent" /\ Take(r, "idle", over) /\ workflow' = "review_required"
      /\ approval' = [c \in cs |-> "null"] /\ trail' = trail \o Intake
      /\ UNCHANGED <<objects, files, changes>>
    BY DEF CreateWorkflow
<1>2. over.at = "done"
    BY DoneIsATask
<1> HIDE DEF over
<1>3. TrailStands /\ AssetsStand /\ \A s \in AtWork' : task'[s].at = "done"
    BY <1>1, <1>2, WorkAlone
<1>4. AtWork' = {}
    BY <1>3 DEF AtWork
<1>5. trail' = Intake
    BY <1>1, <1>3 DEF TrailStands, Intake
<1>6. TrailStands'
    BY <1>1, <1>5, IntakeIsAPath DEF TrailStands
<1>7. AssetsStand'
    BY <1>1, <1>3 DEF AssetsStand, Approved
<1> QED BY <1>4, <1>6, <1>7 DEF LoneTurns

LEMMA LoneWhenReviewed ==
    ASSUME TurnsInv, NEW r \in Workers, SaveReview(r), ~crowded'
    PROVE  LoneTurns'
<1> DEFINE over == [NoWork EXCEPT !.at = "done"]
<1>1. /\ Take(r, "deciding", over) /\ workflow' = Outcome(r)
      /\ approval' = [c \in DOMAIN approval |->
            IF Verdict(r, c) # task[r].loaded[c] THEN Verdict(r, c) ELSE approval[c]]
      /\ trail' = Append(trail, <<task[r].shown, Outcome(r)>>)
      /\ UNCHANGED <<objects, files, changes>>
    BY DEF SaveReview
<1>2. over.at = "done"
    BY DoneIsATask
<1> HIDE DEF over
<1>3. /\ TrailStands /\ AssetsStand /\ task[r].at = "deciding" /\ WorkStands(r)
      /\ \A s \in AtWork' : task'[s].at = "done"
    BY <1>1, <1>2, WorkAlone
<1>4. AtWork' = {}
    BY <1>3 DEF AtWork
<1>5. workflow = "review_required" /\ task[r].shown = workflow /\ task[r].loaded = approval
    BY <1>3 DEF WorkStands
<1>6. Outcome(r) \in {"approved", "rejected"}
    BY DEF Outcome
<1>7. TrailStands'
    <2> DEFINE move == <<"review_required", Outcome(r)>>
               step == <<move>>
    <2>4. /\ trail # <<>> /\ Path(trail) /\ trail[Len(trail)][2] = "review_required"
          /\ trail \in Seq(Lifecycle \X Lifecycle)
        BY <1>3, <1>5 DEF TrailStands, Path
    <2>5. "review_required" \in Lifecycle /\ Outcome(r) \in Lifecycle
        BY <1>6 DEF Lifecycle
    <2>2. /\ Path(step) /\ step # <<>> /\ step[1][1] = "review_required"
          /\ step[Len(step)][2] = Outcome(r)
        BY <2>5, StepIsAPath
    <2>6. move \in Lifecycle \X Lifecycle /\ trail' = Append(trail, move)
        BY <1>1, <1>5, <2>5
    <2> HIDE DEF move
    <2>1. trail' = trail \o step
        BY <2>4, <2>6, AppendJoins
    <2> HIDE DEF step
    <2>3. /\ Path(trail') /\ trail' # <<>> /\ trail'[1] = trail[1]
          /\ trail'[Len(trail')] = step[Len(step)]
        BY <2>1, <2>2, <2>4, PathsJoin
    <2> QED BY <1>1, <1>3, <1>6, <2>2, <2>3, <2>4 DEF TrailStands
<1>8. approval' = [c \in DOMAIN approval |-> Verdict(r, c)]
    BY <1>1, <1>5
<1>9. /\ workflow' = "approved" => Approved' # {}
      /\ workflow' = "rejected" => Approved' = {}
    BY <1>1, <1>5, <1>8 DEF Outcome, Approved
<1>10. AssetsStand'
    BY <1>1, <1>3, <1>5, <1>6, <1>9 DEF AssetsStand
<1> QED BY <1>4, <1>7, <1>10 DEF LoneTurns

LEMMA LoneWhenLoaded ==
    ASSUME TurnsInv, NEW r \in Workers, LoadForMaterialize(r), ~crowded'
    PROVE  LoneTurns'
<1> DEFINE todo == { c \in DOMAIN approval : approval[c] = "true" }
           next == [task[r] EXCEPT !.at = "writing", !.todo = todo]
<1>1. /\ Take(r, "materializing", next)
      /\ UNCHANGED <<workflow, approval, trail, objects, files, changes>>
    BY DEF LoadForMaterialize
<1>2. todo \subseteq Candidates /\ todo = Approved /\ task[r] \in TaskState
    BY DEF TurnsInv, SeenInv, Approvals, Approved
<1>7. todo \in SUBSET Candidates
    BY <1>2
<1> HIDE DEF todo
<1>3. next \in TaskState /\ next.at = "writing" /\ next.todo = todo /\ next.made = task[r].made
    BY <1>2, <1>7, MakingLoaded
<1> HIDE DEF next
<1>8. task[r].at = "materializing" /\ WorkStands(r)
    BY <1>1, WorkAlone
<1>4. task[r].at = "materializing" /\ WorkStands(r) /\ task'[r] = next
    BY <1>1, <1>3, <1>8, TasksMove DEF TurnsInv, SeenInv
<1>5. workflow = "approved" /\ task[r].made = {}
    BY <1>4 DEF WorkStands
<1>6. WorkStands(r)'
    BY <1>1, <1>2, <1>3, <1>4, <1>5 DEF WorkStands, Approved, About
<1> QED BY <1>1, <1>6, WorkBegins

LEMMA LoneWhenWritten ==
    ASSUME TurnsInv, NEW r \in Workers, NEW c \in Candidates, WriteAsset(r, c), ~crowded'
    PROVE  LoneTurns'
<1> DEFINE a == [candidate |-> c, by |-> r]
           next == Making(task[r], c, a)
<1>1. /\ c \in task[r].todo /\ Take(r, "writing", next) /\ files' = [files EXCEPT ![c] = a]
      /\ UNCHANGED <<workflow, approval, trail, objects, changes>>
    BY DEF WriteAsset, Written, Making
<1>2. a \in Asset /\ a.candidate = c /\ task[r] \in TaskState
    BY DEF Asset, TurnsInv, SeenInv
<1> HIDE DEF a
<1>3. /\ next \in TaskState /\ next.at = task[r].at
      /\ next.todo = task[r].todo \ {c} /\ next.made = task[r].made \cup {a}
    BY <1>2, AssetWritten
<1> HIDE DEF next
<1>4. /\ TrailStands /\ AssetsStand /\ task[r].at = "writing" /\ WorkStands(r)
      /\ \A s \in AtWork' : s = r
    BY <1>1, WorkAlone
<1>5. task'[r] = next
    BY <1>1, <1>3, TasksMove DEF TurnsInv, SeenInv
<1>6. /\ workflow = "approved" /\ task[r].todo \cup About(task[r].made) = Approved
      /\ task[r].todo \cap About(task[r].made) = {}
      /\ \A b \in task[r].made : files[b.candidate] = b
    BY <1>4 DEF WorkStands
<1>7. Approved' = Approved /\ About(next.made) = About(task[r].made) \cup {c}
    BY <1>1, <1>2, <1>3 DEF Approved, About
<1>8. \A b \in next.made : files'[b.candidate] = b
    <2>1. files = [d \in Candidates |-> files[d]] /\ \A b \in task[r].made : b.candidate \in Candidates
        BY <1>2 DEF TurnsInv, SeenInv, TaskState, Asset
    <2>2. \A b \in task[r].made : b.candidate # c
        BY <1>1, <1>6 DEF About
    <2> QED BY <1>1, <1>2, <1>3, <1>6, <2>1, <2>2
<1>9. WorkStands(r)'
    BY <1>1, <1>3, <1>4, <1>5, <1>6, <1>7, <1>8 DEF WorkStands
<1>10. AssetsStand'
    BY <1>1, <1>4, <1>6, <1>7 DEF AssetsStand
<1> QED BY <1>1, <1>4, <1>9, <1>10 DEF LoneTurns, TrailStands

LEMMA LoneWhenProposed ==
    ASSUME TurnsInv, NEW r \in Workers, Propose(r), ~crowded'
    PROVE  LoneTurns'
<1> DEFINE over == [NoWork EXCEPT !.at = "done"]
           x == [by |-> r, proposes |-> task[r].made]
<1>1. /\ task[r].todo = {} /\ Take(r, "writing", over)
      /\ objects' = objects \cup task[r].made /\ workflow' = "commit_proposed"
      /\ trail' = trail \o Delivery /\ changes' = changes \cup {x}
      /\ UNCHANGED <<approval, files>>
    BY DEF Propose
<1>2. over.at = "done" /\ x.proposes = task[r].made
    BY DoneIsATask
<1>11. Take(r, "writing", over)
    BY <1>1
<1> HIDE DEF over, x
<1>3. /\ TrailStands /\ AssetsStand /\ task[r].at = "writing" /\ WorkStands(r)
      /\ \A s \in AtWork' : task'[s].at = "done"
    BY <1>2, <1>11, WorkAlone
<1>4. AtWork' = {}
    BY <1>3 DEF AtWork
<1>5. /\ workflow = "approved" /\ About(task[r].made) = Approved
      /\ \A a \in task[r].made : files[a.candidate] = a
    BY <1>1, <1>3 DEF WorkStands
<1>6. TrailStands'
    <2>1. trail # <<>> /\ Path(trail) /\ trail[1][1] = "received" /\ trail[Len(trail)][2] = "approved"
        BY <1>3, <1>5 DEF TrailStands
    <2>2. /\ Path(trail') /\ trail' # <<>> /\ trail'[1] = trail[1]
          /\ trail'[Len(trail')] = Delivery[Len(Delivery)]
        BY <1>1, <2>1, DeliveryIsAPath, PathsJoin
    <2> QED BY <1>1, <2>1, <2>2, DeliveryIsAPath DEF TrailStands
<1>7. objects' = task[r].made /\ changes' = {x} /\ Approved' = Approved
    BY <1>1, <1>3, <1>5 DEF AssetsStand, Approved
<1>8. task[r].made = { files[c] : c \in Approved }
    BY <1>5 DEF About
<1>9. Delivered'
    <2>1. x \in changes' /\ changes' = {x} /\ x.proposes = objects'
        BY <1>2, <1>7
    <2>2. About(objects') = Approved'
        BY <1>5, <1>7
    <2>3. objects' = { files'[c] : c \in Approved' }
        BY <1>1, <1>7, <1>8
    <2> QED BY <2>1, <2>2, <2>3 DEF Delivered, About
<1>10. AssetsStand'
    BY <1>1, <1>9 DEF AssetsStand
<1> QED BY <1>4, <1>6, <1>10 DEF LoneTurns

LEMMA TurnsSteps ==
    ASSUME TurnsInv, [WorkflowNext]_workflowVars
    PROVE  TurnsInv'
<1>0. SeenInv'
    BY SeenSteps DEF TurnsInv
<1> SUFFICES ASSUME ~crowded' PROVE LoneTurns'
    BY <1>0 DEF TurnsInv, LoneTurns
<1>1. CASE UNCHANGED workflowVars
    BY <1>1 DEF workflowVars, TurnsInv, LoneTurns, TrailStands, AssetsStand, Delivered, Approved,
                AtWork, WorkStands
<1>2. ASSUME NEW r \in Workers, NEW cs \in SUBSET Candidates, BeginReview(r, cs)
      PROVE  LoneTurns'
    <2> DEFINE next == [NoWork EXCEPT !.at = "reviewing", !.ticks = cs, !.shown = workflow]
    <2>1. /\ workflow = "review_required" /\ Take(r, "idle", next)
          /\ UNCHANGED <<workflow, approval, trail, objects, files, changes>>
        BY <1>2 DEF BeginReview, Reviewable
    <2>2. next \in TaskState /\ next.at = "reviewing" /\ next.shown = workflow
        BY <2>1, ReviewBegun
    <2> HIDE DEF next
    <2>3. task'[r] = next
        BY <2>1, <2>2, TasksMove DEF TurnsInv, SeenInv
    <2>4. WorkStands(r)'
        BY <2>1, <2>2, <2>3 DEF WorkStands
    <2> QED BY <2>1, <2>4, WorkBegins
<1>3. ASSUME NEW r \in Workers, LoadForReview(r)
      PROVE  LoneTurns'
    <2> DEFINE next == [task[r] EXCEPT !.at = "deciding", !.loaded = approval]
    <2>1. Take(r, "reviewing", next) /\ UNCHANGED <<workflow, approval, trail, objects, files, changes>>
        BY <1>3 DEF LoadForReview
    <2>2. /\ next \in TaskState /\ next.at = "deciding" /\ next.loaded = approval
          /\ next.shown = task[r].shown
        BY ReviewLoaded DEF TurnsInv, SeenInv
    <2> HIDE DEF next
    <2>3. task'[r] = next
        BY <2>1, <2>2, TasksMove DEF TurnsInv, SeenInv
    <2>4. task[r].at = "reviewing" /\ WorkStands(r)
        BY <2>1, WorkAlone
    <2>5. WorkStands(r)'
        BY <2>1, <2>2, <2>3, <2>4 DEF WorkStands
    <2> QED BY <2>1, <2>5, WorkBegins
<1>4. ASSUME NEW r \in Workers, BeginMaterialize(r)
      PROVE  LoneTurns'
    <2> DEFINE next == [NoWork EXCEPT !.at = "materializing"]
    <2>1. /\ workflow = "approved" /\ Take(r, "idle", next)
          /\ UNCHANGED <<workflow, approval, trail, objects, files, changes>>
        BY <1>4 DEF BeginMaterialize
    <2>2. next \in TaskState /\ next.at = "materializing" /\ next.made = {}
        BY NoWorkIsATask DEF TaskState
    <2> HIDE DEF next
    <2>3. task'[r] = next
        BY <2>1, <2>2, TasksMove DEF TurnsInv, SeenInv
    <2>4. WorkStands(r)'
        BY <2>1, <2>2, <2>3 DEF WorkStands
    <2> QED BY <2>1, <2>4, WorkBegins
<1>5. ASSUME NEW r \in Workers, FailInWorkflow(r)
      PROVE  LoneTurns'
    <2> DEFINE over == [NoWork EXCEPT !.at = "done"]
    <2>1. /\ task[r].at # "done" /\ Take(r, task[r].at, over)
          /\ UNCHANGED <<workflow, approval, trail, objects, files, changes>>
        BY <1>5 DEF FailInWorkflow, AtWork
    <2>2. over \in TaskState /\ over.at = "done"
        BY DoneIsATask
    <2> HIDE DEF over
    <2>3. task'[r] = over
        BY <2>1, <2>2, TasksMove DEF TurnsInv, SeenInv
    <2>4. WorkStands(r)'
        BY <2>2, <2>3 DEF WorkStands
    <2> QED BY <2>1, <2>4, WorkBegins
<1> QED BY <1>1, <1>2, <1>3, <1>4, <1>5, LoneWhenCreated, LoneWhenReviewed, LoneWhenLoaded,
           LoneWhenWritten, LoneWhenProposed DEF WorkflowNext

(***************************************************************************)
(* For any candidates and workers: nothing reaches the repository that     *)
(* nobody ticked, and, where requests take turns, all of it does, once.    *)
(***************************************************************************)
THEOREM AssetsStayReviewed == WorkflowSpec => []AssetsAreWhatWasReviewed
<1>1. ASSUME WorkflowInit PROVE TurnsInv
    <2>1. SeenInv /\ Approved = {}
        BY <1>1, SeenBegins DEF SeenInv, Approved, WorkflowInit
    <2>2. TrailStands
        BY <1>1 DEF WorkflowInit, TrailStands, Path
    <2>3. AssetsStand
        BY <1>1, <2>1 DEF WorkflowInit, AssetsStand
    <2>4. AtWork = {}
        BY <1>1, NoWorkIsATask DEF WorkflowInit, AtWork, NoWork
    <2> QED BY <2>1, <2>2, <2>3, <2>4 DEF TurnsInv
<1>2. TurnsInv /\ [WorkflowNext]_workflowVars => TurnsInv'
    BY TurnsSteps
<1> QED BY <1>1, <1>2, TurnsInvIsWhole, PTL DEF WorkflowSpec

\* The types of the workflow: a review that is under way was begun when one was
\* due, so that the history records steps of the lifecycle only.

WorkBounds ==
    /\ workflow \in {"absent", "review_required", "approved", "rejected", "commit_proposed"}
    /\ trail \in Seq(Steps)
    /\ objects \subseteq Asset
    /\ files \in [Candidates -> Asset \cup {NoAsset}]
    /\ changes \subseteq [by : Workers, proposes : SUBSET Asset]
    /\ endorsed \subseteq Candidates
    /\ crowded \in BOOLEAN
    /\ \A r \in Workers :
        task[r].at \in {"reviewing", "deciding"} => task[r].shown = "review_required"

LEMMA WorkTyped == SeenInv /\ WorkBounds => WorkflowTypes
<1> SUFFICES ASSUME SeenInv, WorkBounds PROVE WorkflowTypes
    OBVIOUS
<1>1. PICK D \in SUBSET Candidates : approval \in [D -> Verdicts]
    BY DEF SeenInv, Approvals
<1>2. DOMAIN approval \subseteq Candidates /\ \A c \in DOMAIN approval : approval[c] \in Verdicts
    BY <1>1
<1>3. \A i \in DOMAIN trail : trail[i] \in Steps
    BY DEF WorkBounds
<1>4. task \in [Workers -> TaskState]
    BY DEF SeenInv
<1> QED BY <1>2, <1>3, <1>4 DEF WorkflowTypes, WorkBounds, TaskState, Approvals

LEMMA LegsAreSteps ==
    /\ Intake \in Seq(Steps) /\ Delivery \in Seq(Steps)
    /\ <<"review_required", "approved">> \in Steps
    /\ <<"review_required", "rejected">> \in Steps
<1>1. Intake \in Seq({ Intake[i] : i \in DOMAIN Intake })
    BY DEF Intake
<1>2. Delivery \in Seq({ Delivery[i] : i \in DOMAIN Delivery })
    BY DEF Delivery
<1>3. \A S, T, s : S \subseteq T /\ s \in Seq(S) => s \in Seq(T)
    OBVIOUS
<1>4. /\ { Intake[i] : i \in DOMAIN Intake } \subseteq Steps
      /\ { Delivery[i] : i \in DOMAIN Delivery } \subseteq Steps
    BY DEF Steps
<1>5. /\ <<"review_required", "approved">> \in Steps
      /\ <<"review_required", "rejected">> \in Steps
    BY DEF Steps
<1> QED BY <1>1, <1>2, <1>3, <1>4, <1>5

LEMMA WorkBoundsBegin == WorkflowInit => WorkBounds
<1> SUFFICES ASSUME WorkflowInit PROVE WorkBounds
    OBVIOUS
<1>1. NoWork.at = "idle"
    BY DEF NoWork
<1>2. \A r \in Workers : task[r].at = "idle"
    BY <1>1 DEF WorkflowInit
<1>3. trail \in Seq(Steps)
    <2>1. <<>> \in Seq(Steps)
        OBVIOUS
    <2> QED BY <2>1 DEF WorkflowInit
<1>4. files \in [Candidates -> Asset \cup {NoAsset}]
    BY DEF WorkflowInit
<1> QED BY <1>2, <1>3, <1>4 DEF WorkflowInit, WorkBounds

\* The requests after one of them took a step.
LEMMA ShownStays ==
    ASSUME SeenInv, WorkBounds, NEW r \in Workers, NEW from, NEW next \in TaskState,
           Take(r, from, next),
           next.at \in {"reviewing", "deciding"} => next.shown = "review_required"
    PROVE  /\ \A s \in Workers : task'[s].at \in {"reviewing", "deciding"} =>
                    task'[s].shown = "review_required"
           /\ crowded' \in BOOLEAN
<1>1. task'[r] = next /\ \A s \in Workers \ {r} : task'[s] = task[s]
    BY TasksMove DEF SeenInv
<1>2. crowded' \in BOOLEAN
    BY DEF Take
<1> QED BY <1>1, <1>2 DEF WorkBounds

LEMMA DoneShowsNothing ==
    ASSUME SeenInv, WorkBounds, NEW r \in Workers, NEW from,
           Take(r, from, [NoWork EXCEPT !.at = "done"])
    PROVE  /\ \A s \in Workers : task'[s].at \in {"reviewing", "deciding"} =>
                    task'[s].shown = "review_required"
           /\ crowded' \in BOOLEAN
<1> DEFINE over == [NoWork EXCEPT !.at = "done"]
<1>1. over \in TaskState /\ over.at = "done" /\ Take(r, from, over)
    BY DoneIsATask
<1> HIDE DEF over
<1> QED BY <1>1, ShownStays

LEMMA WorkBoundsStep ==
    ASSUME SeenInv, WorkBounds, [WorkflowNext]_workflowVars
    PROVE  WorkBounds'
<1>1. CASE UNCHANGED workflowVars
    BY <1>1 DEF workflowVars, WorkBounds
<1>2. ASSUME NEW r \in Workers, NEW cs \in SUBSET Candidates, CreateWorkflow(r, cs)
      PROVE  WorkBounds'
    <2>1. trail' = trail \o Intake /\ trail \in Seq(Steps)
        BY <1>2 DEF CreateWorkflow, WorkBounds
    <2>2. trail' \in Seq(Steps)
        BY <2>1, LegsAreSteps
    <2> QED BY <1>2, <2>2, DoneShowsNothing DEF CreateWorkflow, WorkBounds
<1>3. ASSUME NEW r \in Workers, NEW cs \in SUBSET Candidates, BeginReview(r, cs)
      PROVE  WorkBounds'
    <2> DEFINE next == [NoWork EXCEPT !.at = "reviewing", !.ticks = cs, !.shown = workflow]
    <2>1. /\ workflow = "review_required" /\ Take(r, "idle", next)
          /\ UNCHANGED <<workflow, trail, objects, files, changes, endorsed>>
        BY <1>3 DEF BeginReview, Reviewable
    <2>2. next \in TaskState /\ next.shown = workflow
        BY <2>1, ReviewBegun
    <2> HIDE DEF next
    <2> QED BY <2>1, <2>2, ShownStays DEF WorkBounds
<1>4. ASSUME NEW r \in Workers, LoadForReview(r)
      PROVE  WorkBounds'
    <2> DEFINE next == [task[r] EXCEPT !.at = "deciding", !.loaded = approval]
    <2>1. /\ Take(r, "reviewing", next)
          /\ UNCHANGED <<workflow, trail, objects, files, changes, endorsed>>
        BY <1>4 DEF LoadForReview
    <2>2. next \in TaskState /\ next.shown = task[r].shown
        BY ReviewLoaded DEF SeenInv
    <2>3. task[r].at = "reviewing"
        BY <2>1 DEF Take
    <2> HIDE DEF next
    <2> QED BY <2>1, <2>2, <2>3, ShownStays DEF WorkBounds
<1>5. ASSUME NEW r \in Workers, SaveReview(r)
      PROVE  WorkBounds'
    <2>1. /\ Take(r, "deciding", [NoWork EXCEPT !.at = "done"])
          /\ workflow' = Outcome(r) /\ trail' = Append(trail, <<task[r].shown, Outcome(r)>>)
          /\ endorsed' = endorsed \cup (task[r].ticks \cap DOMAIN approval)
          /\ UNCHANGED <<objects, files, changes>>
        BY <1>5 DEF SaveReview
    <2>2. Outcome(r) \in {"approved", "rejected"}
        BY DEF Outcome
    <2>3. task[r].shown = "review_required" /\ task[r].ticks \subseteq Candidates
        BY <2>1 DEF Take, WorkBounds, SeenInv, TaskState
    <2>4. <<task[r].shown, Outcome(r)>> \in Steps
        BY <2>2, <2>3, LegsAreSteps
    <2>5. trail' \in Seq(Steps)
        BY <2>1, <2>4 DEF WorkBounds
    <2> QED BY <2>1, <2>2, <2>3, <2>5, DoneShowsNothing DEF WorkBounds
<1>6. ASSUME NEW r \in Workers, BeginMaterialize(r)
      PROVE  WorkBounds'
    <2> DEFINE next == [NoWork EXCEPT !.at = "materializing"]
    <2>1. /\ Take(r, "idle", next)
          /\ UNCHANGED <<workflow, trail, objects, files, changes, endorsed>>
        BY <1>6 DEF BeginMaterialize
    <2>2. next \in TaskState /\ next.at = "materializing"
        BY NoWorkIsATask DEF TaskState
    <2> HIDE DEF next
    <2> QED BY <2>1, <2>2, ShownStays DEF WorkBounds
<1>7. ASSUME NEW r \in Workers, LoadForMaterialize(r)
      PROVE  WorkBounds'
    <2> DEFINE todo == { c \in DOMAIN approval : approval[c] = "true" }
               next == [task[r] EXCEPT !.at = "writing", !.todo = todo]
    <2>1. /\ Take(r, "materializing", next)
          /\ UNCHANGED <<workflow, trail, objects, files, changes, endorsed>>
        BY <1>7 DEF LoadForMaterialize
    <2>2. todo \subseteq Candidates
        BY DEF SeenInv, Approvals
    <2> HIDE DEF todo
    <2>3. next \in TaskState /\ next.at = "writing"
        BY <2>2, MakingLoaded DEF SeenInv
    <2> HIDE DEF next
    <2> QED BY <2>1, <2>3, ShownStays DEF WorkBounds
<1>8. ASSUME NEW r \in Workers, NEW c \in Candidates, WriteAsset(r, c)
      PROVE  WorkBounds'
    <2> DEFINE a == [candidate |-> c, by |-> r]
               next == Making(task[r], c, a)
    <2>1. /\ Take(r, "writing", next) /\ files' = [files EXCEPT ![c] = a]
          /\ UNCHANGED <<workflow, trail, objects, changes, endorsed>>
        BY <1>8 DEF WriteAsset, Written, Making
    <2>2. a \in Asset /\ task[r] \in TaskState /\ task[r].at = "writing"
        BY <2>1 DEF Asset, SeenInv, Take
    <2> HIDE DEF a
    <2>3. next \in TaskState /\ next.at = "writing"
        BY <2>2, AssetWritten
    <2> HIDE DEF next
    <2>4. files' \in [Candidates -> Asset \cup {NoAsset}]
        BY <2>1, <2>2 DEF WorkBounds
    <2> QED BY <2>1, <2>3, <2>4, ShownStays DEF WorkBounds
<1>9. ASSUME NEW r \in Workers, Propose(r)
      PROVE  WorkBounds'
    <2>1. /\ Take(r, "writing", [NoWork EXCEPT !.at = "done"])
          /\ objects' = objects \cup task[r].made /\ workflow' = "commit_proposed"
          /\ trail' = trail \o Delivery
          /\ changes' = changes \cup {[by |-> r, proposes |-> task[r].made]}
          /\ UNCHANGED <<files, endorsed>>
        BY <1>9 DEF Propose
    <2>2. task[r].made \subseteq Asset
        BY DEF SeenInv, TaskState
    <2>3. trail' \in Seq(Steps)
        BY <2>1, LegsAreSteps DEF WorkBounds
    <2>4. changes' \subseteq [by : Workers, proposes : SUBSET Asset]
        BY <2>1, <2>2 DEF WorkBounds
    <2> QED BY <2>1, <2>2, <2>3, <2>4, DoneShowsNothing DEF WorkBounds
<1>10. ASSUME NEW r \in Workers, FailInWorkflow(r)
       PROVE  WorkBounds'
    BY <1>10, DoneShowsNothing DEF FailInWorkflow, WorkBounds
<1> QED BY <1>1, <1>2, <1>3, <1>4, <1>5, <1>6, <1>7, <1>8, <1>9, <1>10 DEF WorkflowNext

\* Whatever two requests do to one workflow, its history records steps of the
\* lifecycle only.
THEOREM WorkflowKeepsItsTypes == WorkflowSpec => []WorkflowTypes
<1>1. WorkflowInit => SeenInv /\ WorkBounds
    BY SeenBegins, WorkBoundsBegin
<1>2. SeenInv /\ WorkBounds /\ [WorkflowNext]_workflowVars => SeenInv' /\ WorkBounds'
    BY SeenSteps, WorkBoundsStep
<1> QED BY <1>1, <1>2, WorkTyped, PTL DEF WorkflowSpec

-----------------------------------------------------------------------------
(***************************************************************************)
(* The organisation's memory.  A synchronisation that runs alone writes of *)
(* each record what the revision it read says of it: nobody else changes   *)
(* what an item says, so what it loaded is still there when it writes.     *)
(***************************************************************************)

MemoryDocument == [texts : [Names -> Nat], ties : SUBSET (Names \X ItemKeys)]

IsItem(item) == item = Item(item.text, item.revision, item.state, item.over)

\* An item of k is of a revision its mission has had, and says what it said.
Dated(k, item) == IsItem(item) /\ item.revision \in 1 .. Len(story[k[1]])
Shown(k, item) ==
    item.text = story[k[1]][item.revision].texts[k[2]] /\ item.text # 0

Named(k) == k \in ItemKeys

SyncColumns == {"at", "revision", "todo", "loaded", "wrote", "joins"}

IsSync(x) == x = [c \in SyncColumns |-> x[c]]

LEMMA SyncFields ==
    ASSUME NEW y, IsSync(y)
    PROVE  y = [at |-> y.at, revision |-> y.revision, todo |-> y.todo,
                loaded |-> y.loaded, wrote |-> y.wrote, joins |-> y.joins]
BY DEF IsSync, SyncColumns

\* The record a synchronisation is at.
Key(s) == Order[Place(s)]

SyncStands(s) ==
    /\ sync[s].at \in {"looking", "writing", "joined"}
    /\ \A m \in Sources : sync[s].revision[m] \in 1 .. Len(story[m])
    /\ sync[s].todo \subseteq DOMAIN Order
    /\ \A i \in sync[s].todo :
            ReadMission(s, Order[i][1]).texts[Order[i][2]] # 0
    /\ DOMAIN sync[s].wrote \subseteq ItemKeys
    /\ \A k \in DOMAIN sync[s].wrote : Dated(k, sync[s].wrote[k])
    /\ sync[s].at = "writing" =>
        /\ sync[s].todo # {}
        /\ IsItem(sync[s].loaded)
        /\ sync[s].loaded # NoItem => Key(s) \in DOMAIN items

Unmixed(s) ==
    /\ \A k \in DOMAIN sync[s].wrote : Shown(k, sync[s].wrote[k])
    /\ sync[s].at = "writing" /\ sync[s].loaded # NoItem =>
        /\ items[Key(s)].text = sync[s].loaded.text
        /\ items[Key(s)].revision = sync[s].loaded.revision

MemoryShape ==
    /\ story \in [Sources -> Seq(MemoryDocument)]
    /\ \A m \in Sources : Len(story[m]) >= 1
    /\ items = [k \in DOMAIN items |-> items[k]]
    /\ \A k \in DOMAIN items : IsItem(items[k])
    /\ sync = [s \in Syncs |-> sync[s]]
    /\ \A s \in Syncs : IsSync(sync[s])
    /\ work = [c \in Curators |-> work[c]]
    /\ \A c \in Curators :
        /\ work[c] = [at |-> work[c].at, of |-> work[c].of]
        /\ work[c].at = "superseding" => work[c].of \in DOMAIN items

MemoryInv ==
    /\ MemoryShape
    /\ MemoryTypes
    /\ \A s \in Syncs : sync[s] # Asleep => SyncStands(s)
    /\ ~overlapped =>
        /\ \A s, o \in Syncs : sync[s] # Asleep /\ sync[o] # Asleep => s = o
        /\ \A k \in ItemKeys \cap DOMAIN items : Shown(k, items[k])
        /\ \A s \in Syncs : sync[s] # Asleep => Unmixed(s)

LEMMA PlaceIsLeft ==
    ASSUME MemoryAssumption, NEW s, sync[s].todo \subseteq DOMAIN Order,
           sync[s].todo # {}
    PROVE  /\ Place(s) \in sync[s].todo
           /\ Key(s) \in ItemKeys
           /\ Key(s)[1] \in Sources /\ Key(s)[2] \in Names
<1>1. DOMAIN Order \subseteq Nat
    BY DEF MemoryAssumption
<1>2. \E i \in sync[s].todo : \A j \in sync[s].todo : i <= j
    BY <1>1, LeastNumber
<1>3. Place(s) \in sync[s].todo
    BY <1>2 DEF Place
<1>4. Key(s) \in ItemKeys
    BY <1>3 DEF Key, MemoryAssumption
<1> QED
    BY <1>3, <1>4 DEF ItemKeys

\* A reviewer's item is not a record's.
LEMMA SuccessorsAreNew ==
    ASSUME MemoryAssumption
    PROVE  ItemKeys \cap Successors = {}
    BY DEF MemoryAssumption, ItemKeys, Successors, Successor

LEMMA ItemKeysAre ==
    ASSUME NEW k \in ItemKeys
    PROVE  k[1] \in Sources /\ k[2] \in Names
    BY DEF ItemKeys

\* A step of one synchronisation that leaves the index alone.
LEMMA OneSync ==
    ASSUME MemoryAssumption, MemoryInv, NEW s \in Syncs, NEW x, IsSync(x),
           sync' = [sync EXCEPT ![s] = x],
           UNCHANGED <<story, items, work, overlapped>>,
           sync[s] # Asleep,
           x = Asleep \/ SyncStands(s)',
           ~overlapped /\ x # Asleep => Unmixed(s)'
    PROVE  MemoryInv'
<1>1. sync'[s] = x /\ \A o \in Syncs \ {s} : sync'[o] = sync[o]
    BY DEF MemoryInv, MemoryShape
<1>2. MemoryShape'
    BY <1>1 DEF MemoryInv, MemoryShape
<1>3. MemoryTypes'
    BY DEF MemoryInv, MemoryTypes
<1>4. ASSUME NEW o \in Syncs, sync'[o] # Asleep PROVE SyncStands(o)'
    <2>1. CASE o = s
        BY <1>1, <1>4, <2>1
    <2>2. CASE o # s
        <3>1. sync'[o] = sync[o] /\ SyncStands(o)
            BY <1>1, <1>4, <2>2 DEF MemoryInv
        <3> QED
            BY <3>1 DEF SyncStands, ReadMission, Key, Place, Dated
    <2> QED BY <2>1, <2>2
<1>5. ASSUME ~overlapped' PROVE
        /\ \A a, o \in Syncs : sync'[a] # Asleep /\ sync'[o] # Asleep => a = o
        /\ \A k \in ItemKeys \cap DOMAIN items' : Shown(k, items[k])'
        /\ \A o \in Syncs : sync'[o] # Asleep => Unmixed(o)'
    <2>1. \A a, o \in Syncs : sync[a] # Asleep /\ sync[o] # Asleep => a = o
        BY <1>5 DEF MemoryInv
    <2>2. \A o \in Syncs \ {s} : sync'[o] = Asleep
        BY <1>1, <2>1
    <2>3. \A k \in ItemKeys \cap DOMAIN items' : Shown(k, items[k])'
        BY <1>5 DEF MemoryInv, Shown
    <2> QED
        BY <1>1, <1>5, <2>2, <2>3
<1> QED
    BY <1>2, <1>3, <1>4, <1>5 DEF MemoryInv

\* A mission's next document leaves the earlier ones as they were.
LEMMA SaveStep ==
    ASSUME MemoryAssumption, MemoryInv, NEW m \in Sources,
           NEW written \in MemoryDocument, Save(m, written)
    PROVE  MemoryInv'
<1>1. /\ story' = [story EXCEPT ![m] = Append(story[m], written)]
      /\ UNCHANGED <<items, sync, work, overlapped>>
    BY DEF Save
<1>2. \A x \in Sources : story[x] \in Seq(MemoryDocument) /\ Len(story[x]) >= 1
    BY DEF MemoryInv, MemoryShape
<1>3. ASSUME NEW x \in Sources PROVE
        /\ story'[x] \in Seq(MemoryDocument) /\ Len(story'[x]) >= 1
        /\ \A i \in 1 .. Len(story[x]) :
            i \in 1 .. Len(story'[x]) /\ story'[x][i] = story[x][i]
    <2>1. CASE x # m
        <3>1. story'[x] = story[x]
            BY <1>1, <2>1 DEF MemoryInv, MemoryShape
        <3> QED BY <1>2, <3>1
    <2>2. CASE x = m
        <3>1. story'[x] = Append(story[x], written)
            BY <1>1, <2>2 DEF MemoryInv, MemoryShape
        <3> QED BY <1>2, <3>1
    <2> QED BY <2>1, <2>2
<1>4. MemoryShape'
    <2>1. story' \in [Sources -> Seq(MemoryDocument)]
        BY <1>1, <1>3 DEF MemoryInv, MemoryShape
    <2> QED
        BY <1>1, <1>3, <2>1 DEF MemoryInv, MemoryShape
<1>5. MemoryTypes'
    BY <1>1, <1>3, ItemKeysAre DEF MemoryInv, MemoryTypes
<1>6. ASSUME NEW k \in ItemKeys, NEW item, Dated(k, item)
      PROVE  /\ item.revision \in 1 .. Len(story'[k[1]])
             /\ story'[k[1]][item.revision] = story[k[1]][item.revision]
    BY <1>3, <1>6, ItemKeysAre DEF Dated
<1>7. ASSUME NEW s \in Syncs, sync'[s] # Asleep PROVE SyncStands(s)'
    <2>1. SyncStands(s)
        BY <1>1, <1>7 DEF MemoryInv
    <2>2. \A k \in DOMAIN sync[s].wrote : Dated(k, sync[s].wrote[k])'
        BY <1>1, <1>6, <2>1 DEF SyncStands, Dated
    <2>3. \A x \in Sources :
            /\ sync[s].revision[x] \in 1 .. Len(story'[x])
            /\ ReadMission(s, x)' = ReadMission(s, x)
        BY <1>1, <1>3, <2>1 DEF SyncStands, ReadMission
    <2>4. \A i \in sync[s].todo : ReadMission(s, Order[i][1])' = ReadMission(s, Order[i][1])
        BY <2>1, <2>3, ItemKeysAre DEF SyncStands, MemoryAssumption
    <2>5. \A i \in sync[s].todo : ReadMission(s, Order[i][1])'.texts[Order[i][2]] # 0
        BY <2>1, <2>4 DEF SyncStands
    <2> QED
        BY <1>1, <2>1, <2>2, <2>3, <2>5 DEF SyncStands, Key, Place
<1>8. ASSUME ~overlapped, NEW k \in ItemKeys \cap DOMAIN items PROVE Shown(k, items[k])'
    <2>1. Dated(k, items[k]) /\ Shown(k, items[k])
        BY <1>8 DEF MemoryInv, MemoryShape, MemoryTypes, Dated
    <2> QED BY <1>1, <1>6, <2>1 DEF Shown
<1>9. ASSUME ~overlapped, NEW s \in Syncs, sync[s] # Asleep PROVE Unmixed(s)'
    <2>1. Unmixed(s) /\ SyncStands(s)
        BY <1>9 DEF MemoryInv
    <2>2. ASSUME NEW k \in DOMAIN sync[s].wrote PROVE Shown(k, sync[s].wrote[k])'
        <3>1. /\ k \in ItemKeys /\ Dated(k, sync[s].wrote[k])
              /\ Shown(k, sync[s].wrote[k])
            BY <2>1 DEF SyncStands, Unmixed
        <3>2. story'[k[1]][sync[s].wrote[k].revision]
                = story[k[1]][sync[s].wrote[k].revision]
            BY <1>6, <3>1
        <3> QED BY <1>1, <3>1, <3>2 DEF Shown
    <2> QED
        BY <1>1, <2>1, <2>2 DEF Unmixed, Key, Place
<1> QED
    BY <1>1, <1>4, <1>5, <1>7, <1>8, <1>9 DEF MemoryInv

LEMMA BeginMemorySyncStep ==
    ASSUME MemoryAssumption, MemoryInv, NEW s \in Syncs, BeginMemorySync(s)
    PROVE  MemoryInv'
<1> DEFINE lengths == [m \in Sources |-> Len(story[m])]
           left == { i \in DOMAIN Order : Order[i][2] \in Present(Latest(Order[i][1])) }
           x == [at |-> "looking", revision |-> lengths, todo |-> left,
                 loaded |-> NoItem, wrote |-> Restrained(<<>>, {}), joins |-> {}]
<1>1. /\ sync' = [sync EXCEPT ![s] = x]
      /\ overlapped' = (overlapped \/ \E o \in Syncs : sync[o] # Asleep)
      /\ UNCHANGED <<story, items, work>>
    <2>1. x = [Asleep EXCEPT !.at = "looking", !.revision = lengths, !.todo = left]
        <3>1. /\ IsSync(Asleep) /\ Asleep.loaded = NoItem /\ Asleep.joins = {}
              /\ Asleep.wrote = Restrained(<<>>, {})
            BY DEF IsSync, SyncColumns, Asleep
        <3> DEFINE y == [Asleep EXCEPT !.at = "looking", !.revision = lengths,
                                       !.todo = left]
        <3> HIDE DEF lengths, left
        <3>2. IsSync(y)
            BY <3>1 DEF IsSync, SyncColumns
        <3>3. /\ y.at = "looking" /\ y.revision = lengths /\ y.todo = left
              /\ y.loaded = NoItem /\ y.wrote = Restrained(<<>>, {}) /\ y.joins = {}
            BY <3>1 DEF IsSync, SyncColumns
        <3>4. y = x
            <4> HIDE DEF y
            <4> QED BY <3>2, <3>3, SyncFields
        <3> QED BY <3>4
    <2> QED BY <2>1 DEF BeginMemorySync
<1>2. sync'[s] = x /\ \A o \in Syncs \ {s} : sync'[o] = sync[o]
    BY <1>1 DEF MemoryInv, MemoryShape
<1>3. MemoryShape'
    <2>1. IsSync(x)
        BY DEF IsSync, SyncColumns
    <2> HIDE DEF x
    <2> QED BY <1>1, <1>2, <2>1 DEF MemoryInv, MemoryShape
<1>4. MemoryTypes'
    BY <1>1 DEF MemoryInv, MemoryTypes
<1>5. /\ sync'[s].at = "looking" /\ sync'[s].todo \subseteq DOMAIN Order
      /\ sync'[s].revision = [m \in Sources |-> Len(story[m])]
      /\ sync'[s].wrote = Restrained(<<>>, {})
      /\ \A i \in sync'[s].todo : Order[i][2] \in Present(Latest(Order[i][1]))
    BY <1>2
<1> HIDE DEF x
<1>6. DOMAIN sync'[s].wrote = {}
    BY <1>5 DEF Restrained
<1>7. SyncStands(s)'
    <2>1. \A m \in Sources : story[m] \in Seq(MemoryDocument) /\ Len(story[m]) >= 1
        BY DEF MemoryInv, MemoryShape
    <2>2. \A m \in Sources :
            /\ sync'[s].revision[m] \in 1 .. Len(story'[m])
            /\ ReadMission(s, m)' = Latest(m)
        BY <1>1, <1>5, <2>1 DEF ReadMission, Latest
    <2>3. \A i \in sync'[s].todo : Order[i] \in ItemKeys
        BY <1>5 DEF MemoryAssumption
    <2>4. \A i \in sync'[s].todo : ReadMission(s, Order[i][1])'.texts[Order[i][2]] # 0
        BY <1>5, <2>2, <2>3, ItemKeysAre DEF Present
    <2> QED
        BY <1>5, <1>6, <2>2, <2>4 DEF SyncStands
<1>8. ASSUME NEW o \in Syncs, sync'[o] # Asleep PROVE SyncStands(o)'
    <2>1. CASE o = s
        BY <1>7, <2>1
    <2>2. CASE o # s
        <3>1. sync'[o] = sync[o] /\ SyncStands(o)
            BY <1>2, <1>8, <2>2 DEF MemoryInv
        <3> QED
            BY <1>1, <3>1 DEF SyncStands, ReadMission, Key, Place, Dated
    <2> QED BY <2>1, <2>2
<1>9. ASSUME ~overlapped' PROVE
        /\ \A a, o \in Syncs : sync'[a] # Asleep /\ sync'[o] # Asleep => a = o
        /\ \A k \in ItemKeys \cap DOMAIN items' : Shown(k, items[k])'
        /\ \A o \in Syncs : sync'[o] # Asleep => Unmixed(o)'
    <2>1. ~overlapped /\ \A o \in Syncs : sync[o] = Asleep
        BY <1>1, <1>9
    <2>2. \A o \in Syncs \ {s} : sync'[o] = Asleep
        BY <1>2, <2>1
    <2>3. \A k \in ItemKeys \cap DOMAIN items' : Shown(k, items[k])'
        BY <1>1, <2>1 DEF MemoryInv, Shown
    <2>4. Unmixed(s)'
        BY <1>5, <1>6 DEF Unmixed
    <2> QED
        BY <2>2, <2>3, <2>4
<1> QED
    BY <1>3, <1>4, <1>8, <1>9 DEF MemoryInv

LEMMA LookStep ==
    ASSUME MemoryAssumption, MemoryInv, NEW s \in Syncs, Look(s)
    PROVE  MemoryInv'
<1> DEFINE found == IF Key(s) \in DOMAIN items THEN items[Key(s)] ELSE NoItem
           current == found.revision = sync[s].revision[Key(s)[1]]
           left == IF current THEN sync[s].todo \ {Place(s)} ELSE sync[s].todo
           stage == IF current THEN "looking" ELSE "writing"
           x == [at |-> stage, revision |-> sync[s].revision, todo |-> left,
                 loaded |-> found, wrote |-> sync[s].wrote, joins |-> sync[s].joins]
<1>1. /\ sync[s].at = "looking" /\ sync[s].todo # {}
      /\ sync' = [sync EXCEPT ![s].loaded = found, ![s].todo = left, ![s].at = stage]
      /\ UNCHANGED <<story, items, work, overlapped>>
    BY DEF Look, Key
<1>2. sync[s] # Asleep /\ SyncStands(s) /\ IsSync(sync[s])
    BY <1>1 DEF MemoryInv, MemoryShape, Asleep
<1>3. sync' = [sync EXCEPT ![s] = x]
    <2> DEFINE y == [sync[s] EXCEPT !.loaded = found, !.todo = left, !.at = stage]
    <2>1. sync' = [sync EXCEPT ![s] = y]
        BY <1>1 DEF MemoryInv, MemoryShape
    <2>2. x = y
        <3> HIDE DEF found, current, left, stage
        <3>1. IsSync(y)
            BY <1>2 DEF IsSync, SyncColumns
        <3>2. /\ y.at = stage /\ y.revision = sync[s].revision /\ y.todo = left
              /\ y.loaded = found /\ y.wrote = sync[s].wrote /\ y.joins = sync[s].joins
            BY <1>2 DEF IsSync, SyncColumns
        <3> HIDE DEF y
        <3> QED BY <3>1, <3>2, SyncFields
    <2> QED BY <2>1, <2>2
<1>4. Place(s) \in sync[s].todo
    BY <1>1, <1>2, PlaceIsLeft DEF SyncStands
<1>5. sync'[s] = x
    BY <1>3 DEF MemoryInv, MemoryShape
<1>6. /\ sync'[s].at = stage /\ sync'[s].revision = sync[s].revision
      /\ sync'[s].todo = left /\ sync'[s].loaded = found
      /\ sync'[s].wrote = sync[s].wrote
    BY <1>5
<1>7. stage = "writing" => left = sync[s].todo
    OBVIOUS
<1>8. left \subseteq sync[s].todo /\ stage \in {"looking", "writing"}
    OBVIOUS
<1>9. IsItem(found) /\ (found # NoItem => Key(s) \in DOMAIN items)
    BY DEF MemoryInv, MemoryShape, NoItem, Item, IsItem
<1>10. IsSync(x)
    BY DEF IsSync, SyncColumns
<1>11. stage = "writing" => Key(s)' = Key(s)
    BY <1>6, <1>7 DEF Key, Place
<1>12. found # NoItem => found = items[Key(s)]
    OBVIOUS
<1> HIDE DEF x, found, current, left, stage
<1>13. SyncStands(s)'
    <2>1. \A m \in Sources : ReadMission(s, m)' = ReadMission(s, m)
        BY <1>1, <1>6 DEF ReadMission
    <2>2. \A i \in sync'[s].todo : ReadMission(s, Order[i][1])'.texts[Order[i][2]] # 0
        BY <1>1, <1>2, <1>6, <1>8 DEF SyncStands, ReadMission
    <2>3. sync'[s].at = "writing" =>
            /\ sync'[s].todo # {} /\ IsItem(sync'[s].loaded)
            /\ sync'[s].loaded # NoItem => Key(s)' \in DOMAIN items'
        BY <1>1, <1>6, <1>7, <1>9, <1>11
    <2> QED
        BY <1>1, <1>2, <1>6, <1>8, <2>2, <2>3 DEF SyncStands, Dated
<1>14. ~overlapped => Unmixed(s)'
    <2> SUFFICES ASSUME ~overlapped PROVE Unmixed(s)'
        OBVIOUS
    <2>1. Unmixed(s)
        BY <1>2 DEF MemoryInv
    <2> QED
        BY <1>1, <1>6, <1>11, <1>12, <2>1 DEF Unmixed, Shown
<1> QED
    BY <1>1, <1>2, <1>3, <1>10, <1>13, <1>14, OneSync

\* What a write leaves of the row it meets.
LEMMA MergedItem ==
    ASSUME NEW row, IsItem(row), NEW loaded, NEW new
    PROVE  /\ IsItem(Merged(row, loaded, new))
           /\ Merged(row, loaded, new).text \in {new.text, row.text}
           /\ Merged(row, loaded, new).revision \in {new.revision, row.revision}
           /\ loaded.text = row.text => Merged(row, loaded, new).text = new.text
           /\ loaded.revision = row.revision =>
                Merged(row, loaded, new).revision = new.revision
<1>1. DOMAIN row = {"text", "revision", "state", "over"}
    BY DEF IsItem, Item
<1>2. Merged(row, loaded, new) =
        [c \in {"text", "revision", "state", "over"} |->
            IF new[c] # loaded[c] THEN new[c] ELSE row[c]]
    BY <1>1 DEF Merged
<1>3. /\ Merged(row, loaded, new).text =
            (IF new.text # loaded.text THEN new.text ELSE row.text)
      /\ Merged(row, loaded, new).revision =
            (IF new.revision # loaded.revision THEN new.revision ELSE row.revision)
    BY <1>2
<1>4. IsItem(Merged(row, loaded, new))
    BY <1>2 DEF IsItem, Item
<1> QED
    BY <1>3, <1>4

LEMMA PutStep ==
    ASSUME MemoryAssumption, MemoryInv, NEW s \in Syncs, Put(s)
    PROVE  MemoryInv'
<1> DEFINE loaded == sync[s].loaded
           date == sync[s].revision[Key(s)[1]]
           new == Refreshed(loaded, ReadMission(s, Key(s)[1]).texts[Key(s)[2]], date)
           row == IF loaded = NoItem THEN new ELSE Merged(items[Key(s)], loaded, new)
           wrote == With(sync[s].wrote, Key(s), row)
           left == sync[s].todo \ {Place(s)}
           x == [at |-> "looking", revision |-> sync[s].revision, todo |-> left,
                 loaded |-> NoItem, wrote |-> wrote, joins |-> sync[s].joins]
<1>1. /\ sync[s].at = "writing"
      /\ sync' = [sync EXCEPT ![s].wrote = wrote, ![s].todo = left,
                              ![s].loaded = NoItem, ![s].at = "looking"]
      /\ UNCHANGED <<story, items, work, overlapped>>
    BY DEF Put, Key
<1>2. sync[s] # Asleep /\ SyncStands(s) /\ IsSync(sync[s])
    BY <1>1 DEF MemoryInv, MemoryShape, Asleep
<1>3. sync' = [sync EXCEPT ![s] = x]
    <2> DEFINE y == [sync[s] EXCEPT !.wrote = wrote, !.todo = left,
                                    !.loaded = NoItem, !.at = "looking"]
    <2>1. sync' = [sync EXCEPT ![s] = y]
        BY <1>1 DEF MemoryInv, MemoryShape
    <2>2. x = y
        <3> HIDE DEF wrote, left
        <3>1. IsSync(y)
            BY <1>2 DEF IsSync, SyncColumns
        <3>2. /\ y.at = "looking" /\ y.revision = sync[s].revision /\ y.todo = left
              /\ y.loaded = NoItem /\ y.wrote = wrote /\ y.joins = sync[s].joins
            BY <1>2 DEF IsSync, SyncColumns
        <3> HIDE DEF y
        <3> QED BY <3>1, <3>2, SyncFields
    <2> QED BY <2>1, <2>2
<1>4. /\ Place(s) \in sync[s].todo
      /\ Key(s) \in ItemKeys /\ Key(s)[1] \in Sources /\ Key(s)[2] \in Names
    BY <1>1, <1>2, PlaceIsLeft DEF SyncStands
<1>5. sync'[s] = x
    BY <1>3 DEF MemoryInv, MemoryShape
<1>6. /\ sync'[s].at = "looking" /\ sync'[s].revision = sync[s].revision
      /\ sync'[s].todo = left /\ sync'[s].wrote = wrote
    BY <1>5
<1>7. left \subseteq sync[s].todo
    OBVIOUS
<1>8. IsSync(x)
    BY DEF IsSync, SyncColumns
<1>9. /\ IsItem(new) /\ new.revision = date
      /\ new.text = story[Key(s)[1]][date].texts[Key(s)[2]]
      /\ new.text # 0
      /\ date \in 1 .. Len(story[Key(s)[1]])
    <2>1. ReadMission(s, Key(s)[1]).texts[Key(s)[2]] # 0
        BY <1>2, <1>4 DEF SyncStands, Key
    <2> QED
        BY <1>2, <1>4, <2>1 DEF SyncStands, Refreshed, Item, IsItem, ReadMission
<1>10. loaded # NoItem =>
        /\ Key(s) \in DOMAIN items /\ IsItem(items[Key(s)])
        /\ items[Key(s)].revision \in 1 .. Len(story[Key(s)[1]])
    BY <1>1, <1>2, <1>4 DEF SyncStands, MemoryInv, MemoryShape, MemoryTypes
<1>11. Dated(Key(s), row)
    <2>1. CASE loaded = NoItem
        BY <1>9, <2>1 DEF Dated
    <2>2. CASE loaded # NoItem
        <3> HIDE DEF new, loaded, date
        <3>1. row = Merged(items[Key(s)], loaded, new)
            BY <2>2
        <3> QED
            BY <1>9, <1>10, <2>2, <3>1, MergedItem DEF Dated
    <2> QED BY <2>1, <2>2
<1>12. ~overlapped => Shown(Key(s), row)
    <2> SUFFICES ASSUME ~overlapped PROVE Shown(Key(s), row)
        OBVIOUS
    <2>1. CASE loaded = NoItem
        <3>1. row = new
            BY <2>1
        <3> HIDE DEF row, new
        <3> QED BY <1>9, <3>1 DEF Shown
    <2>2. CASE loaded # NoItem
        <3>1. loaded.text = items[Key(s)].text /\ loaded.revision = items[Key(s)].revision
            BY <1>1, <1>2, <2>2 DEF MemoryInv, Unmixed
        <3> HIDE DEF new, loaded, date
        <3>2. row = Merged(items[Key(s)], loaded, new)
            BY <2>2
        <3>3. row.text = new.text /\ row.revision = new.revision
            BY <1>10, <2>2, <3>1, <3>2, MergedItem
        <3> HIDE DEF row
        <3> QED
            BY <1>9, <3>3 DEF Shown
    <2> QED BY <2>1, <2>2
<1> HIDE DEF x, row, new, left, date, loaded
<1>13. /\ DOMAIN wrote = DOMAIN sync[s].wrote \cup {Key(s)}
       /\ \A k \in DOMAIN wrote :
            wrote[k] = IF k = Key(s) THEN row ELSE sync[s].wrote[k]
    BY DEF With
<1> HIDE DEF wrote
<1>14. SyncStands(s)'
    <2>1. \A i \in sync'[s].todo : ReadMission(s, Order[i][1])'.texts[Order[i][2]] # 0
        BY <1>1, <1>2, <1>6, <1>7 DEF SyncStands, ReadMission
    <2>2. \A k \in DOMAIN wrote : Dated(k, wrote[k])
        BY <1>2, <1>11, <1>13 DEF SyncStands
    <2>3. \A k \in DOMAIN sync'[s].wrote : Dated(k, sync[s].wrote[k])'
        BY <1>1, <1>6, <2>2 DEF Dated
    <2>4. DOMAIN sync'[s].wrote \subseteq ItemKeys
        BY <1>2, <1>4, <1>6, <1>13 DEF SyncStands
    <2> QED
        BY <1>1, <1>2, <1>6, <1>7, <2>1, <2>3, <2>4 DEF SyncStands
<1>15. ~overlapped => Unmixed(s)'
    <2> SUFFICES ASSUME ~overlapped PROVE Unmixed(s)'
        OBVIOUS
    <2>1. Unmixed(s)
        BY <1>2 DEF MemoryInv
    <2>2. \A k \in DOMAIN wrote : Shown(k, wrote[k])
        BY <1>12, <1>13, <2>1 DEF Unmixed
    <2> QED
        BY <1>1, <1>6, <2>2 DEF Unmixed, Shown
<1> QED
    BY <1>1, <1>2, <1>3, <1>8, <1>14, <1>15, OneSync

LEMMA JoinStep ==
    ASSUME MemoryAssumption, MemoryInv, NEW s \in Syncs, Join(s)
    PROVE  MemoryInv'
<1> DEFINE joins == Indexed(s) \ links
           x == [at |-> "joined", revision |-> sync[s].revision, todo |-> sync[s].todo,
                 loaded |-> sync[s].loaded, wrote |-> sync[s].wrote, joins |-> joins]
<1>1. /\ sync[s].at = "looking"
      /\ sync' = [sync EXCEPT ![s].joins = joins, ![s].at = "joined"]
      /\ UNCHANGED <<story, items, work, overlapped>>
    BY DEF Join
<1>2. sync[s] # Asleep /\ SyncStands(s) /\ IsSync(sync[s])
    BY <1>1 DEF MemoryInv, MemoryShape, Asleep
<1>3. sync' = [sync EXCEPT ![s] = x]
    <2> DEFINE y == [sync[s] EXCEPT !.joins = joins, !.at = "joined"]
    <2>1. sync' = [sync EXCEPT ![s] = y]
        BY <1>1 DEF MemoryInv, MemoryShape
    <2>2. x = y
        <3> HIDE DEF joins
        <3>1. IsSync(y)
            BY <1>2 DEF IsSync, SyncColumns
        <3>2. /\ y.at = "joined" /\ y.revision = sync[s].revision /\ y.todo = sync[s].todo
              /\ y.loaded = sync[s].loaded /\ y.wrote = sync[s].wrote /\ y.joins = joins
            BY <1>2 DEF IsSync, SyncColumns
        <3> HIDE DEF y
        <3> QED BY <3>1, <3>2, SyncFields
    <2> QED BY <2>1, <2>2
<1>4. sync'[s] = x
    BY <1>3 DEF MemoryInv, MemoryShape
<1>5. /\ sync'[s].at = "joined" /\ sync'[s].revision = sync[s].revision
      /\ sync'[s].todo = sync[s].todo /\ sync'[s].wrote = sync[s].wrote
    BY <1>4
<1>6. IsSync(x)
    BY DEF IsSync, SyncColumns
<1> HIDE DEF x
<1>7. SyncStands(s)'
    BY <1>1, <1>2, <1>5 DEF SyncStands, ReadMission, Dated
<1>8. ~overlapped => Unmixed(s)'
    BY <1>1, <1>2, <1>5 DEF Unmixed, Shown, MemoryInv
<1> QED
    BY <1>1, <1>2, <1>3, <1>6, <1>7, <1>8, OneSync

LEMMA BreakStep ==
    ASSUME MemoryAssumption, MemoryInv, NEW s \in Syncs, Break(s)
    PROVE  MemoryInv'
<1>1. IsSync(Asleep)
    BY DEF IsSync, SyncColumns, Asleep
<1>2. /\ sync[s] # Asleep /\ sync' = [sync EXCEPT ![s] = Asleep]
      /\ UNCHANGED <<story, items, work, overlapped>>
    BY DEF Break
<1> QED
    BY <1>1, <1>2, OneSync

\* The index takes over what a synchronisation has written.
LEMMA EndSyncStep ==
    ASSUME MemoryAssumption, MemoryInv, NEW s \in Syncs, EndSync(s)
    PROVE  MemoryInv'
<1> DEFINE wrote == sync[s].wrote
<1>1. /\ sync[s].at = "joined"
      /\ items' = [k \in DOMAIN items \cup DOMAIN wrote |->
                        IF k \in DOMAIN wrote THEN wrote[k] ELSE items[k]]
      /\ sync' = [sync EXCEPT ![s] = Asleep]
      /\ UNCHANGED <<story, work, overlapped>>
    BY DEF EndSync
<1>2. sync[s] # Asleep /\ SyncStands(s)
    BY <1>1 DEF MemoryInv, Asleep
<1>3. sync'[s] = Asleep /\ \A o \in Syncs \ {s} : sync'[o] = sync[o]
    BY <1>1 DEF MemoryInv, MemoryShape
<1>4. /\ DOMAIN wrote \subseteq ItemKeys
      /\ \A k \in DOMAIN wrote : Dated(k, wrote[k])
    BY <1>2 DEF SyncStands
<1> HIDE DEF wrote
<1>5. /\ DOMAIN items' = DOMAIN items \cup DOMAIN wrote
      /\ \A k \in DOMAIN wrote : items'[k] = wrote[k]
      /\ \A k \in DOMAIN items \ DOMAIN wrote : items'[k] = items[k]
      /\ items' = [k \in DOMAIN items' |-> items'[k]]
    BY <1>1
<1>6. MemoryShape'
    <2>1. \A k \in DOMAIN items' : IsItem(items'[k])
        BY <1>4, <1>5 DEF MemoryInv, MemoryShape, Dated
    <2>2. IsSync(Asleep)
        BY DEF IsSync, SyncColumns, Asleep
    <2> QED
        BY <1>1, <1>3, <1>5, <2>1, <2>2 DEF MemoryInv, MemoryShape
<1>7. MemoryTypes'
    <2>1. DOMAIN items' \subseteq ItemKeys \cup Successors
        BY <1>4, <1>5 DEF MemoryInv, MemoryTypes
    <2>2. \A k \in ItemKeys \cap DOMAIN items' :
                items'[k].revision \in 1 .. Len(story'[k[1]])
        BY <1>1, <1>4, <1>5 DEF MemoryInv, MemoryTypes, Dated
    <2>3. \A x \in Successors \cap DOMAIN items' : items'[x].over \in DOMAIN items' \ {x}
        BY <1>4, <1>5, SuccessorsAreNew DEF MemoryInv, MemoryTypes
    <2> QED BY <2>1, <2>2, <2>3 DEF MemoryTypes
<1>8. ASSUME NEW o \in Syncs, sync'[o] # Asleep PROVE SyncStands(o)'
    <2>1. o # s /\ sync'[o] = sync[o] /\ SyncStands(o)
        BY <1>3, <1>8 DEF MemoryInv
    <2> QED
        BY <1>1, <1>5, <2>1 DEF SyncStands, ReadMission, Key, Place, Dated
<1>9. ASSUME ~overlapped' PROVE
        /\ \A a, o \in Syncs : sync'[a] # Asleep /\ sync'[o] # Asleep => a = o
        /\ \A k \in ItemKeys \cap DOMAIN items' : Shown(k, items[k])'
        /\ \A o \in Syncs : sync'[o] # Asleep => Unmixed(o)'
    <2>1. \A a, o \in Syncs : sync[a] # Asleep /\ sync[o] # Asleep => a = o
        BY <1>1, <1>9 DEF MemoryInv
    <2>2. \A o \in Syncs : sync'[o] = Asleep
        BY <1>2, <1>3, <2>1
    <2>3. \A k \in DOMAIN wrote : Shown(k, wrote[k])
        BY <1>1, <1>2, <1>9 DEF MemoryInv, Unmixed, wrote
    <2>4. \A k \in ItemKeys \cap DOMAIN items : Shown(k, items[k])
        BY <1>1, <1>9 DEF MemoryInv
    <2>5. \A k \in ItemKeys \cap DOMAIN items' : Shown(k, items[k])'
        BY <1>1, <1>5, <2>3, <2>4 DEF Shown
    <2> QED BY <2>2, <2>5
<1> QED
    BY <1>6, <1>7, <1>8, <1>9 DEF MemoryInv

\* Steps of curators other than a supersession.
LEMMA CurationStep ==
    ASSUME MemoryAssumption, MemoryInv, NEW c \in Curators, NEW x,
           x = [at |-> x.at, of |-> x.of],
           x.at = "superseding" => x.of \in DOMAIN items,
           work' = [work EXCEPT ![c] = x],
           UNCHANGED <<story, items, sync, overlapped>>
    PROVE  MemoryInv'
<1>1. work'[c] = x /\ \A o \in Curators \ {c} : work'[o] = work[o]
    BY DEF MemoryInv, MemoryShape
<1>2. MemoryShape'
    BY <1>1 DEF MemoryInv, MemoryShape
<1>3. MemoryTypes'
    BY DEF MemoryInv, MemoryTypes
<1>4. ASSUME NEW s \in Syncs, sync'[s] # Asleep PROVE SyncStands(s)'
    <2>1. SyncStands(s)
        BY <1>4 DEF MemoryInv
    <2> QED
        BY <2>1 DEF SyncStands, ReadMission, Key, Place, Dated
<1>5. ASSUME ~overlapped PROVE
        /\ \A k \in ItemKeys \cap DOMAIN items : Shown(k, items[k])'
        /\ \A s \in Syncs : sync[s] # Asleep => Unmixed(s)'
    BY <1>5 DEF MemoryInv, Shown, Unmixed, Key, Place
<1> QED
    BY <1>2, <1>3, <1>4, <1>5 DEF MemoryInv

LEMMA SupersedeStep ==
    ASSUME MemoryAssumption, MemoryInv, NEW c \in Curators, Supersede(c)
    PROVE  MemoryInv'
<1>1. /\ work[c].at = "superseding"
      /\ work' = [work EXCEPT ![c] = Unoccupied]
      /\ UNCHANGED <<story, sync, overlapped>>
    BY DEF Supersede
<1>2. PICK k \in 1 .. MaxSuccessors :
        /\ Successor(k) \notin DOMAIN items
        /\ items' = With([items EXCEPT ![work[c].of].state = "superseded"],
                         Successor(k), Item(0, 0, "active", work[c].of))
    BY DEF Supersede
<1> DEFINE new == Successor(k)
           old == work[c].of
           row == Item(0, 0, "active", old)
           struck == [items EXCEPT ![old].state = "superseded"]
<1>3. old \in DOMAIN items /\ new \notin DOMAIN items /\ new \in Successors
    BY <1>1, <1>2 DEF MemoryInv, MemoryShape, Successors
<1>4. /\ DOMAIN struck = DOMAIN items
      /\ \A i \in DOMAIN items \ {old} : struck[i] = items[i]
      /\ struck[old] = [items[old] EXCEPT !.state = "superseded"]
    BY <1>3 DEF MemoryInv, MemoryShape
<1>5. \A i \in DOMAIN items :
        /\ IsItem(struck[i])
        /\ struck[i].text = items[i].text /\ struck[i].revision = items[i].revision
        /\ struck[i].over = items[i].over
    <2> TAKE i \in DOMAIN items
    <2>1. IsItem(items[i])
        BY DEF MemoryInv, MemoryShape
    <2>2. CASE i # old
        BY <1>4, <2>1, <2>2
    <2>3. CASE i = old
        <3> DEFINE y == [items[old] EXCEPT !.state = "superseded"]
        <3>1. struck[i] = y
            BY <1>4, <2>3
        <3>2. DOMAIN items[old] = {"text", "revision", "state", "over"}
            BY <2>1, <2>3 DEF IsItem, Item
        <3>3. /\ y.text = items[old].text /\ y.revision = items[old].revision
              /\ y.over = items[old].over /\ y.state = "superseded"
              /\ y = [f \in {"text", "revision", "state", "over"} |-> y[f]]
            BY <3>2
        <3>4. IsItem(y)
            <4> HIDE DEF y
            <4> QED BY <3>3 DEF IsItem, Item
        <3> HIDE DEF y, struck
        <3> QED BY <2>3, <3>1, <3>3, <3>4
    <2> QED BY <2>2, <2>3
<1>6. items' = With(struck, new, row)
    BY <1>2
<1> HIDE DEF struck, row
<1>7. /\ DOMAIN items' = DOMAIN items \cup {new}
      /\ items' = [i \in DOMAIN items' |-> items'[i]]
      /\ items'[new] = row
      /\ \A i \in DOMAIN items : items'[i] = struck[i]
    BY <1>3, <1>4, <1>6 DEF With
<1>8. IsItem(row) /\ row.over = old
    BY DEF row, Item, IsItem
<1>9. new \notin ItemKeys
    BY <1>3, SuccessorsAreNew
<1> HIDE DEF new
<1>10. MemoryShape'
    <2>1. \A i \in DOMAIN items' : IsItem(items'[i])
        BY <1>5, <1>7, <1>8
    <2>2. /\ work' = [a \in Curators |-> work'[a]]
          /\ \A a \in Curators : work'[a] = work[a] \/ work'[a] = Unoccupied
        BY <1>1 DEF MemoryInv, MemoryShape
    <2>3. \A a \in Curators :
            /\ work'[a] = [at |-> work'[a].at, of |-> work'[a].of]
            /\ work'[a].at = "superseding" => work'[a].of \in DOMAIN items'
        BY <1>7, <2>2 DEF MemoryInv, MemoryShape, Unoccupied
    <2> QED
        BY <1>1, <1>7, <2>1, <2>2, <2>3 DEF MemoryInv, MemoryShape
<1>11. MemoryTypes'
    <2>1. DOMAIN items' \subseteq ItemKeys \cup Successors
        BY <1>3, <1>7 DEF MemoryInv, MemoryTypes
    <2>2. \A i \in ItemKeys \cap DOMAIN items' :
                items'[i].revision \in 1 .. Len(story'[i[1]])
        BY <1>1, <1>5, <1>7, <1>9 DEF MemoryInv, MemoryTypes
    <2>3. \A x \in Successors \cap DOMAIN items' : items'[x].over \in DOMAIN items' \ {x}
        BY <1>3, <1>5, <1>7, <1>8 DEF MemoryInv, MemoryTypes
    <2> QED BY <2>1, <2>2, <2>3 DEF MemoryTypes
<1>12. ASSUME NEW s \in Syncs, sync'[s] # Asleep PROVE SyncStands(s)'
    <2>1. SyncStands(s)
        BY <1>1, <1>12 DEF MemoryInv
    <2> QED
        BY <1>1, <1>7, <2>1 DEF SyncStands, ReadMission, Key, Place, Dated
<1>13. ASSUME ~overlapped, NEW i \in ItemKeys \cap DOMAIN items' PROVE Shown(i, items[i])'
    <2>1. i \in DOMAIN items /\ Shown(i, items[i])
        BY <1>7, <1>9, <1>13 DEF MemoryInv
    <2> QED
        BY <1>1, <1>5, <1>7, <2>1 DEF Shown
<1>14. ASSUME ~overlapped, NEW s \in Syncs, sync[s] # Asleep PROVE Unmixed(s)'
    <2>1. Unmixed(s) /\ SyncStands(s)
        BY <1>14 DEF MemoryInv
    <2>2. \A i \in DOMAIN sync[s].wrote : Shown(i, sync[s].wrote[i])'
        BY <1>1, <2>1 DEF Unmixed, Shown
    <2>3. ASSUME sync[s].at = "writing", sync[s].loaded # NoItem PROVE
            /\ items'[Key(s)].text = sync[s].loaded.text
            /\ items'[Key(s)].revision = sync[s].loaded.revision
        BY <1>5, <1>7, <2>1, <2>3 DEF Unmixed, SyncStands
    <2>4. Key(s)' = Key(s)
        BY <1>1 DEF Key, Place
    <2> QED
        BY <1>1, <2>2, <2>3, <2>4 DEF Unmixed
<1> QED
    BY <1>1, <1>10, <1>11, <1>12, <1>13, <1>14 DEF MemoryInv

\* The documents that follow the present one.
LEMMA NextDocuments ==
    ASSUME MemoryInv, NEW m \in Sources, NEW n \in Names, NEW k \in ItemKeys
    PROVE  /\ [Latest(m) EXCEPT !.texts[n] = Len(story[m]) + 1] \in MemoryDocument
           /\ [texts |-> [Latest(m).texts EXCEPT ![n] = 0],
               ties |-> { t \in Latest(m).ties : n # t[1] /\ <<m, n>> # t[2] }]
                \in MemoryDocument
           /\ [Latest(m) EXCEPT !.ties = @ \cup {<<n, k>>}] \in MemoryDocument
<1>1. story[m] \in Seq(MemoryDocument) /\ Len(story[m]) >= 1
    BY DEF MemoryInv, MemoryShape
<1>2. Latest(m) \in MemoryDocument /\ Len(story[m]) + 1 \in Nat
    BY <1>1 DEF Latest
<1> QED
    BY <1>2 DEF MemoryDocument

LEMMA MemoryInitInv ==
    ASSUME MemoryAssumption, MemoryInit
    PROVE  MemoryInv
<1>1. NewDocument \in MemoryDocument
    BY DEF NewDocument, MemoryDocument
<1>2. IsSync(Asleep)
    BY DEF IsSync, SyncColumns, Asleep
<1>3. DOMAIN items = {}
    BY DEF MemoryInit, Restrained
<1>4. /\ story = [m \in Sources |-> <<NewDocument>>]
      /\ items = Restrained(<<>>, {})
      /\ sync = [s \in Syncs |-> Asleep]
      /\ work = [c \in Curators |-> Unoccupied]
    BY DEF MemoryInit
<1>5. MemoryShape
    BY <1>1, <1>2, <1>3, <1>4 DEF MemoryShape, Restrained, Unoccupied
<1> QED
    BY <1>3, <1>4, <1>5 DEF MemoryInv, MemoryTypes

LEMMA MemoryStep ==
    ASSUME MemoryAssumption, MemoryInv, [MemoryNext]_memoryVars
    PROVE  MemoryInv'
<1>1. ASSUME NEW m \in Sources, NEW n \in Names,
             WriteRecord(m, n) \/ RemoveRecord(m, n) \/ \E k \in ItemKeys : Relate(m, n, k)
      PROVE  MemoryInv'
    <2>1. CASE WriteRecord(m, n)
        <3>1. <<m, n>> \in ItemKeys
            BY DEF ItemKeys
        <3> QED BY <2>1, <3>1, NextDocuments, SaveStep DEF WriteRecord
    <2>2. CASE RemoveRecord(m, n)
        <3>1. <<m, n>> \in ItemKeys
            BY DEF ItemKeys
        <3> QED BY <2>2, <3>1, NextDocuments, SaveStep DEF RemoveRecord
    <2>3. CASE \E k \in ItemKeys : Relate(m, n, k)
        BY <2>3, NextDocuments, SaveStep DEF Relate
    <2> QED BY <1>1, <2>1, <2>2, <2>3
<1>2. ASSUME NEW s \in Syncs,
             BeginMemorySync(s) \/ Look(s) \/ Put(s) \/ Join(s) \/ EndSync(s) \/ Break(s)
      PROVE  MemoryInv'
    BY <1>2, BeginMemorySyncStep, LookStep, PutStep, JoinStep, EndSyncStep, BreakStep
<1>3. ASSUME NEW c \in Curators, NEW id \in DOMAIN items, BeginSupersede(c, id)
      PROVE  MemoryInv'
    <2> DEFINE x == [at |-> "superseding", of |-> id]
    <2>1. x = [at |-> x.at, of |-> x.of] /\ x.of \in DOMAIN items
        OBVIOUS
    <2>2. work' = [work EXCEPT ![c] = x] /\ UNCHANGED <<story, items, sync, overlapped>>
        BY <1>3 DEF BeginSupersede
    <2> HIDE DEF x
    <2> QED BY <2>1, <2>2, CurationStep
<1>4. ASSUME NEW c \in Curators, NEW hash \in Hashes, BeginRegisterAsset(c, hash)
      PROVE  MemoryInv'
    <2> DEFINE x == [at |-> "registering", of |-> <<hash>>]
    <2>1. x = [at |-> x.at, of |-> x.of] /\ x.at # "superseding"
        OBVIOUS
    <2>2. work' = [work EXCEPT ![c] = x] /\ UNCHANGED <<story, items, sync, overlapped>>
        BY <1>4 DEF BeginRegisterAsset
    <2> HIDE DEF x
    <2> QED BY <2>1, <2>2, CurationStep
<1>5. ASSUME NEW c \in Curators, RegisterAsset(c) \/ GiveUpCuration(c) PROVE MemoryInv'
    <2>1. /\ Unoccupied = [at |-> Unoccupied.at, of |-> Unoccupied.of]
          /\ Unoccupied.at # "superseding"
        BY DEF Unoccupied
    <2>2. /\ work' = [work EXCEPT ![c] = Unoccupied]
          /\ UNCHANGED <<story, items, sync, overlapped>>
        BY <1>5 DEF RegisterAsset, GiveUpCuration
    <2> QED BY <2>1, <2>2, CurationStep
<1>6. CASE UNCHANGED memoryVars
    <2>1. UNCHANGED <<story, items, sync, work, overlapped>>
        BY <1>6 DEF memoryVars
    <2>2. MemoryShape' /\ MemoryTypes'
        BY <2>1 DEF MemoryInv, MemoryShape, MemoryTypes
    <2>3. ASSUME NEW s \in Syncs, sync'[s] # Asleep PROVE SyncStands(s)'
        <3>1. SyncStands(s)
            BY <2>1, <2>3 DEF MemoryInv
        <3> QED
            BY <2>1, <3>1 DEF SyncStands, ReadMission, Key, Place, Dated
    <2>4. ASSUME ~overlapped PROVE
            /\ \A k \in ItemKeys \cap DOMAIN items : Shown(k, items[k])'
            /\ \A s \in Syncs : sync[s] # Asleep => Unmixed(s)'
        BY <2>1, <2>4 DEF MemoryInv, Shown, Unmixed, Key, Place
    <2> QED BY <2>1, <2>2, <2>3, <2>4 DEF MemoryInv
<1> QED
    BY <1>1, <1>2, <1>3, <1>4, <1>5, <1>6, SupersedeStep DEF MemoryNext

\* What an item of the memory says is what the document of the revision it
\* names said, as long as no two synchronisations ran at once.
THEOREM MemoryShowsItsRevisions == MemorySpec => []ItemsShowTheirRevision
<1>1. MemoryInit => MemoryInv
    BY MemoryAssumption, MemoryInitInv
<1>2. MemoryInv /\ [MemoryNext]_memoryVars => MemoryInv'
    BY MemoryAssumption, MemoryStep
<1>3. MemoryInv => ItemsShowTheirRevision
    BY DEF MemoryInv, ItemsShowTheirRevision, Shown
<1> QED
    BY <1>1, <1>2, <1>3, PTL DEF MemorySpec

\* Items name revisions their missions have had, and a successor the item it
\* takes the place of, whatever runs at once.
THEOREM MemoryKeepsItsTypes == MemorySpec => []MemoryTypes
<1>1. MemoryInit => MemoryInv
    BY MemoryAssumption, MemoryInitInv
<1>2. MemoryInv /\ [MemoryNext]_memoryVars => MemoryInv'
    BY MemoryAssumption, MemoryStep
<1>3. MemoryInv => MemoryTypes
    BY DEF MemoryInv
<1> QED
    BY <1>1, <1>2, <1>3, PTL DEF MemorySpec

-----------------------------------------------------------------------------
(***************************************************************************)
(* Reports.  A refutation is followed breadth first; what is queued is one *)
(* distance or the next from the refutation, so whatever is within the     *)
(* distance of the head has been found, and nothing was found by a path    *)
(* longer than the shortest.                                               *)
(***************************************************************************)

\* What a record of S may touch, and what is found by so many relations.
Touched(d, S) ==
    {j \in DOMAIN d.records : \E i \in S : <<i, j>> \in d.relations}

Spreads(g, d, n) ==
    /\ g[0] = Refuted(d)
    /\ \A k \in 1 .. n : g[k] = g[k - 1] \cup Touched(d, g[k - 1])

SpreadBy(g, d) ==
    g = [n \in 0 .. ReviewDepth |->
           IF n = 0 THEN Refuted(d) ELSE g[n - 1] \cup Touched(d, g[n - 1])]
Spread(d) == CHOOSE g : SpreadBy(g, d)

LEMMA DownstreamIsSpread ==
    ASSUME NEW d
    PROVE  Downstream(d) = Spread(d)[ReviewDepth]
BY DEF Downstream, Spread, SpreadBy, Touched

LEMMA RefutedAreRecords ==
    ASSUME NEW d
    PROVE  Refuted(d) \subseteq DOMAIN d.records
BY DEF Refuted, In, Of

LEMMA SpreadExists ==
    ASSUME NEW d, NEW N \in Nat
    PROVE  \E g \in [0 .. N -> SUBSET DOMAIN d.records] : Spreads(g, d, N)
<1> DEFINE S == SUBSET DOMAIN d.records
           SpreadsIn(m) == \E g \in [0 .. m -> S] : Spreads(g, d, m)
           T == {m \in 0 .. N : ~ SpreadsIn(m)}
<1>0. N \in 0 .. N /\ Refuted(d) \in S
    BY RefutedAreRecords
<1>1. SUFFICES ASSUME T # {} PROVE FALSE
    <2>1. T = {} => SpreadsIn(N)
        BY <1>0
    <2> QED BY <2>1
<1>2. PICK m \in T : \A x \in T : m <= x
    <2>1. T \subseteq Nat
        OBVIOUS
    <2> HIDE DEF T
    <2> QED BY <1>1, <2>1, LeastNumber
<1>3. CASE m = 0
    <2> DEFINE g == [i \in 0 .. 0 |-> Refuted(d)]
    <2>1. g \in [0 .. 0 -> S] /\ g[0] = Refuted(d) /\ 1 .. 0 = {}
        BY <1>0
    <2>2. SpreadsIn(0)
        <3> HIDE DEF g, S
        <3> QED BY <2>1 DEF Spreads
    <2> QED BY <1>2, <1>3, <2>2
<1>4. CASE m # 0
    <2>1. m \in 1 .. N /\ m - 1 \in 0 .. N /\ ~ (m <= m - 1)
        BY <1>2, <1>4
    <2>2. SpreadsIn(m - 1)
        BY <1>2, <2>1
    <2>3. PICK g \in [0 .. m - 1 -> S] : Spreads(g, d, m - 1)
        BY <2>2
    <2> DEFINE more == g[m - 1] \cup Touched(d, g[m - 1])
               h == [i \in 0 .. m |-> IF i = m THEN more ELSE g[i]]
    <2>4. g[m - 1] \in S /\ more \in S
        <3>1. g[m - 1] \in S
            BY <2>1, <2>3
        <3>2. Touched(d, g[m - 1]) \in S
            BY DEF Touched
        <3> QED BY <3>1, <3>2
    <2>5. h \in [0 .. m -> S]
        <3> HIDE DEF more, S
        <3> QED BY <2>1, <2>3, <2>4
    <2>6. /\ h[m] = more /\ h[m - 1] = g[m - 1] /\ h[0] = g[0]
          /\ \A k \in 1 .. m - 1 : h[k] = g[k] /\ h[k - 1] = g[k - 1]
        <3> HIDE DEF more
        <3> QED BY <2>1
    <2>7. \A k \in 1 .. m : k \in 1 .. m - 1 \/ k = m
        BY <2>1
    <2>8. Spreads(h, d, m)
        <3> HIDE DEF h, S
        <3> QED BY <2>3, <2>6, <2>7 DEF Spreads
    <2>9. SpreadsIn(m)
        <3> HIDE DEF h, S
        <3> QED BY <2>5, <2>8
    <2> QED BY <1>2, <2>9
<1> QED BY <1>3, <1>4

LEMMA SpreadSteps ==
    ASSUME NEW d
    PROVE  /\ Spreads(Spread(d), d, ReviewDepth)
           /\ \A n \in 0 .. ReviewDepth : Spread(d)[n] \subseteq DOMAIN d.records
<1> DEFINE N == ReviewDepth
           W == Spread(d)
<1>1. N \in Nat
    BY ReportAssumption
<1>2. PICK g \in [0 .. N -> SUBSET DOMAIN d.records] : Spreads(g, d, N)
    BY <1>1, SpreadExists
<1>3. SpreadBy(g, d)
    <2>1. g = [n \in 0 .. N |-> g[n]]
        BY <1>2
    <2>2. \A n \in 0 .. N : g[n] = IF n = 0 THEN Refuted(d)
                                   ELSE g[n - 1] \cup Touched(d, g[n - 1])
        <3>1. \A n \in 0 .. N : n = 0 \/ n \in 1 .. N
            BY <1>1
        <3> QED BY <1>1, <1>2, <3>1 DEF Spreads
    <2> QED BY <2>1, <2>2 DEF SpreadBy
<1>4. SpreadBy(W, d)
    BY Zenon, <1>3 DEF Spread
<1> HIDE DEF W, N
<1>5. \A n \in 0 .. N : W[n] = IF n = 0 THEN Refuted(d)
                               ELSE W[n - 1] \cup Touched(d, W[n - 1])
    BY <1>4 DEF SpreadBy, N
<1>6. Spreads(W, d, N)
    <2>1. 0 \in 0 .. N /\ \A n \in 1 .. N : n \in 0 .. N /\ n # 0
        BY <1>1
    <2> QED BY <1>5, <2>1 DEF Spreads
<1>7. ASSUME NEW n \in 0 .. N PROVE W[n] \subseteq DOMAIN d.records
    <2> DEFINE T == {m \in 0 .. N : ~ (W[m] \subseteq DOMAIN d.records)}
    <2>1. SUFFICES ASSUME T # {} PROVE FALSE
        OBVIOUS
    <2>2. PICK m \in T : \A x \in T : m <= x
        <3>1. T \subseteq Nat
            BY <1>1
        <3> HIDE DEF T
        <3> QED BY <2>1, <3>1, LeastNumber
    <2>3. CASE m = 0
        BY <1>6, <2>2, <2>3, RefutedAreRecords DEF Spreads
    <2>4. CASE m # 0
        <3>1. m \in 1 .. N /\ m - 1 \in 0 .. N /\ ~ (m <= m - 1)
            BY <1>1, <2>2, <2>4
        <3>2. W[m - 1] \subseteq DOMAIN d.records
            BY <2>2, <3>1
        <3>3. W[m] = W[m - 1] \cup Touched(d, W[m - 1])
            BY <1>6, <3>1 DEF Spreads
        <3>4. Touched(d, W[m - 1]) \subseteq DOMAIN d.records
            BY DEF Touched
        <3> QED BY <2>2, <3>2, <3>3, <3>4
    <2> QED BY <2>3, <2>4
<1> QED BY <1>6, <1>7 DEF W, N

\* Farther is more, and what contains the refuted and all it touches contains
\* whatever is reached.
LEMMA SpreadGrows ==
    ASSUME NEW d, NEW m \in 0 .. ReviewDepth
    PROVE  Spread(d)[m] \subseteq Spread(d)[ReviewDepth]
<1> DEFINE N == ReviewDepth
           W == Spread(d)
           T == {n \in Nat : n >= m /\ n <= N /\ ~ (W[m] \subseteq W[n])}
<1>1. N \in Nat /\ Spreads(W, d, N)
    BY ReportAssumption, SpreadSteps
<1> HIDE DEF W, N
<1>2. m \in Nat /\ m <= N
    BY <1>1 DEF N
<1>3. T = {}
    <2> SUFFICES ASSUME T # {} PROVE FALSE
        OBVIOUS
    <2>1. PICK n \in T : \A x \in T : n <= x
        <3>1. T \subseteq Nat
            OBVIOUS
        <3> HIDE DEF T
        <3> QED BY <3>1, LeastNumber
    <2>2. n # m
        BY <2>1
    <2>3. n \in 1 .. N /\ n - 1 \in Nat /\ n - 1 >= m /\ n - 1 <= N /\ ~ (n <= n - 1)
        BY <1>1, <1>2, <2>1, <2>2
    <2>4. W[m] \subseteq W[n - 1]
        BY <2>1, <2>3
    <2>5. W[n - 1] \subseteq W[n]
        BY <1>1, <2>3 DEF Spreads
    <2> QED BY <2>1, <2>4, <2>5
<1>4. W[m] \subseteq W[N]
    BY <1>1, <1>2, <1>3
<1> QED BY <1>4 DEF W, N

LEMMA ClosedHoldsSpread ==
    ASSUME NEW d, NEW V, Refuted(d) \subseteq V, Touched(d, V) \subseteq V,
           NEW n \in 0 .. ReviewDepth
    PROVE  Spread(d)[n] \subseteq V
<1> DEFINE N == ReviewDepth
           W == Spread(d)
           T == {m \in 0 .. N : ~ (W[m] \subseteq V)}
<1>1. N \in Nat /\ Spreads(W, d, N)
    BY ReportAssumption, SpreadSteps
<1> HIDE DEF W, N
<1>2. T = {}
    <2> SUFFICES ASSUME T # {} PROVE FALSE
        OBVIOUS
    <2>1. PICK m \in T : \A x \in T : m <= x
        <3>1. T \subseteq Nat
            BY <1>1
        <3> HIDE DEF T
        <3> QED BY <3>1, LeastNumber
    <2>2. CASE m = 0
        BY <1>1, <2>1, <2>2 DEF Spreads
    <2>3. CASE m # 0
        <3>1. m \in 1 .. N /\ m - 1 \in 0 .. N /\ ~ (m <= m - 1)
            BY <1>1, <2>1, <2>3
        <3>2. W[m - 1] \subseteq V
            BY <2>1, <3>1
        <3>3. W[m] = W[m - 1] \cup Touched(d, W[m - 1])
            BY <1>1, <3>1 DEF Spreads
        <3>4. Touched(d, W[m - 1]) \subseteq Touched(d, V)
            BY <3>2 DEF Touched
        <3> QED BY <2>1, <3>2, <3>3, <3>4
    <2> QED BY <2>2, <2>3
<1>3. W[n] \subseteq V
    BY <1>2 DEF N
<1> QED BY <1>3 DEF W

LEMMA OrdersAreWhole ==
    ASSUME NEW S, IsFiniteSet(S), NEW order \in SetToSeqs(S)
    PROVE  /\ order \in Seq(S)
           /\ DOMAIN order = 1 .. Len(order)
           /\ \A s \in S : \E i \in DOMAIN order : order[i] = s
<1> DEFINE n == Cardinality(S)
<1>1. n \in Nat
    BY FS_CardinalityType
<1>2. /\ order \in [1 .. n -> S]
      /\ \A i, j \in 1 .. n : i # j => order[i] # order[j]
    BY DEF SetToSeqs
<1>3. IsFiniteSet(1 .. n) /\ Cardinality(1 .. n) = n
    <2>1. 1 \in Int /\ n \in Int
        BY <1>1
    <2>2. /\ IsFiniteSet(1 .. n)
          /\ Cardinality(1 .. n) = IF 1 > n THEN 0 ELSE n - 1 + 1
        <3> HIDE DEF n
        <3> QED BY <2>1, FS_Interval
    <2> QED BY <1>1, <2>2
<1>4. order \in Injection(1 .. n, S)
    <2> HIDE DEF n
    <2> QED BY <1>2 DEF Injection, IsInjective
<1>5. order \in Surjection(1 .. n, S)
    BY <1>3, <1>4, FS_Injection
<1> HIDE DEF n
<1> QED BY <1>1, <1>2, <1>5 DEF Surjection

Places(d) == [id : DOMAIN d.records, depth : 0 .. ReviewDepth]
Queued == {queue[q].id : q \in DOMAIN queue}

\* The search, as long as there is something to visit: what is queued is at
\* the head's distance or, behind that, at the next; what is within the head's
\* distance has been found; and what was visited has been followed.
Searching(d, q, found) ==
    LET W == Spread(d)
        level == q[1].depth
    IN  /\ \A i \in DOMAIN q : q[i].depth \in {level, level + 1}
        /\ \A i, j \in DOMAIN q : i < j /\ q[j].depth = level => q[i].depth = level
        /\ W[level] \subseteq found
        /\ \A i \in DOMAIN q : q[i].id \in W[q[i].depth]
        /\ \A i \in DOMAIN q : q[i].depth = level + 1 => q[i].id \notin W[level]
        /\ level < ReviewDepth =>
              \A r \in found : \/ Touched(d, {r}) \subseteq found
                               \/ \E i \in DOMAIN q : q[i].id = r

SearchInv(d, q, found) ==
    /\ q \in Seq(Places(d))
    /\ \A i \in DOMAIN q : q[i].id \in found
    /\ found \subseteq Spread(d)[ReviewDepth]
    /\ Refuted(d) \subseteq found
    /\ q # << >> => Searching(d, q, found)
    /\ q = << >> => Spread(d)[ReviewDepth] \subseteq found

\* The search begins with the refuted themselves.
LEMMA SearchBegins ==
    ASSUME NEW d, IsFiniteSet(Refuted(d)), Refuted(d) # {},
           NEW order \in SetToSeqs(Refuted(d))
    PROVE  SearchInv(d, [i \in DOMAIN order |-> [id |-> order[i], depth |-> 0]],
                     Refuted(d))
<1> DEFINE q == [i \in DOMAIN order |-> [id |-> order[i], depth |-> 0]]
           W == Spread(d)
           n == Len(order)
<1>1. /\ order \in Seq(Refuted(d)) /\ DOMAIN order = 1 .. n /\ n \in Nat
      /\ \A s \in Refuted(d) : \E i \in DOMAIN order : order[i] = s
    BY OrdersAreWhole
<1>2. /\ ReviewDepth \in Nat /\ 0 \in 0 .. ReviewDepth /\ W[0] = Refuted(d)
      /\ Refuted(d) \subseteq DOMAIN d.records
    BY ReportAssumption, SpreadSteps, RefutedAreRecords DEF Spreads
<1> HIDE DEF W, n
<1>3. /\ DOMAIN q = 1 .. n
      /\ \A i \in 1 .. n : /\ q[i].id = order[i] /\ q[i].depth = 0
                           /\ q[i] \in Places(d) /\ q[i].id \in Refuted(d)
    <2>1. DOMAIN q = 1 .. n /\ \A i \in 1 .. n : q[i] = [id |-> order[i], depth |-> 0]
        BY <1>1
    <2>2. \A i \in 1 .. n : order[i] \in Refuted(d)
        BY <1>1 DEF n
    <2> HIDE DEF q
    <2> QED BY <1>2, <2>1, <2>2 DEF Places
<1>4. q \in Seq(Places(d)) /\ q # << >> /\ 1 \in 1 .. n
    <2>1. q \in [1 .. n -> Places(d)]
        <3>1. q = [i \in 1 .. n |-> q[i]]
            BY <1>1
        <3> HIDE DEF q
        <3> QED BY <1>3, <3>1
    <2>2. 1 .. n # {} /\ 1 \in 1 .. n
        <3>1. PICK s \in Refuted(d) : TRUE
            OBVIOUS
        <3>2. \E i \in 1 .. n : order[i] = s
            BY <1>1
        <3> QED BY <1>1, <3>2
    <2> HIDE DEF q
    <2> QED BY <1>1, <1>3, <2>1, <2>2
<1>5. Refuted(d) \subseteq W[ReviewDepth]
    BY <1>2, SpreadGrows DEF W
<1> HIDE DEF q
<1>6. Searching(d, q, Refuted(d))
    <2>1. q[1].depth = 0
        BY <1>3, <1>4
    <2>2. \A i \in DOMAIN q : q[i].id \in W[q[i].depth] /\ q[i].depth = 0
        BY <1>2, <1>3
    <2>3. \A r \in Refuted(d) : \E i \in DOMAIN q : q[i].id = r
        BY <1>1, <1>3
    <2> QED BY <1>2, <2>1, <2>2, <2>3 DEF Searching, W
<1>7. SearchInv(d, q, Refuted(d))
    BY <1>3, <1>4, <1>5, <1>6 DEF SearchInv, W
<1> QED BY <1>7 DEF q

LEMMA TailAndMore ==
    ASSUME NEW R, NEW q \in Seq(R), q # << >>, NEW added \in Seq(R)
    PROVE  LET p == Tail(q) \o added
               n == Len(q) - 1
           IN  /\ p \in Seq(R) /\ Len(p) = n + Len(added)
               /\ DOMAIN p = 1 .. n + Len(added)
               /\ \A i \in 1 .. n : p[i] = q[i + 1]
               /\ \A i \in 1 .. Len(added) : p[n + i] = added[i]
<1> DEFINE t == Tail(q)
           n == Len(q) - 1
           p == t \o added
<1>1. t \in Seq(R) /\ Len(t) = n /\ \A i \in 1 .. n : t[i] = q[i + 1]
    BY HeadTailProperties
<1>2. n \in Nat /\ Len(added) \in Nat
    BY <1>1
<1> HIDE DEF t, n
<1>3. /\ p \in Seq(R) /\ Len(p) = n + Len(added)
      /\ \A i \in 1 .. n + Len(added) : p[i] = IF i <= n THEN t[i] ELSE added[i - n]
    BY <1>1, ConcatProperties
<1> HIDE DEF p
<1>4. DOMAIN p = 1 .. n + Len(added)
    BY <1>3
<1>5. \A i \in 1 .. n : p[i] = q[i + 1]
    BY <1>1, <1>2, <1>3
<1>6. ASSUME NEW i \in 1 .. Len(added) PROVE p[n + i] = added[i]
    <2>1. n + i \in 1 .. n + Len(added) /\ ~ (n + i <= n) /\ (n + i) - n = i
        BY <1>2
    <2> QED BY <1>3, <2>1
<1> QED BY <1>3, <1>4, <1>5, <1>6 DEF p, t, n

LEMMA TouchedByOne ==
    ASSUME NEW d, NEW S
    PROVE  /\ \A j : j \in Touched(d, S) <=> \E r \in S : j \in Touched(d, {r})
           /\ Touched(d, S) \subseteq DOMAIN d.records
BY DEF Touched

LEMMA TouchedTogether ==
    ASSUME NEW d, NEW S, NEW V, \A r \in S : Touched(d, {r}) \subseteq V
    PROVE  Touched(d, S) \subseteq V
<1>1. ASSUME NEW j \in Touched(d, S) PROVE j \in V
    <2>1. PICK r \in S : j \in Touched(d, {r})
        BY TouchedByOne
    <2> QED BY <2>1
<1> QED BY <1>1

\* A visit takes the head away and, within the distance, queues behind the rest
\* what it touches and nobody has found.
LEMMA SearchMoves ==
    ASSUME NEW d, NEW q, NEW found, SearchInv(d, q, found), q # << >>,
           NEW new, new \subseteq Touched(d, {q[1].id}) \ found,
           NEW added \in Seq([id : new, depth : {q[1].depth + 1}]),
           \A r \in new : \E i \in DOMAIN added : added[i].id = r,
           \/ q[1].depth < ReviewDepth /\ Touched(d, {q[1].id}) \subseteq found \cup new
           \/ q[1].depth = ReviewDepth /\ new = {}
    PROVE  SearchInv(d, Tail(q) \o added, found \cup new)
<1> DEFINE W == Spread(d)
           N == ReviewDepth
           level == q[1].depth
           head == q[1].id
           after == found \cup new
           p == Tail(q) \o added
           m == Len(q)
           k == Len(added)
<1>1. /\ N \in Nat /\ Spreads(W, d, N)
      /\ \A n \in 0 .. N : W[n] \subseteq DOMAIN d.records
    BY ReportAssumption, SpreadSteps
<1>2. /\ q \in Seq(Places(d)) /\ m \in Nat /\ m >= 1 /\ DOMAIN q = 1 .. m
      /\ 1 \in DOMAIN q
    BY DEF SearchInv
<1>3. \A i \in 1 .. m : q[i].id \in DOMAIN d.records /\ q[i].depth \in 0 .. N
    <2>1. \A i \in 1 .. m : q[i] \in Places(d)
        BY <1>2
    <2> QED BY <2>1 DEF Places
<1>4. level \in 0 .. N /\ level \in Nat /\ Searching(d, q, found)
    BY <1>1, <1>2, <1>3 DEF SearchInv
<1>5. k \in Nat /\ DOMAIN added = 1 .. k
      /\ \A i \in 1 .. k : /\ added[i] \in [id : new, depth : {level + 1}]
                           /\ added[i].id \in new /\ added[i].depth = level + 1
    <2> DEFINE A == [id : new, depth : {level + 1}]
    <2>1. \A a \in A : a.id \in new /\ a.depth = level + 1
        OBVIOUS
    <2>2. added \in Seq(A)
        OBVIOUS
    <2> HIDE DEF A
    <2>3. k \in Nat /\ DOMAIN added = 1 .. k /\ \A i \in 1 .. k : added[i] \in A
        BY <2>2
    <2> QED BY <2>1, <2>3 DEF A
<1> HIDE DEF W, N, k, m, level, head
<1>6. /\ p \in Seq(Places(d) \cup [id : new, depth : {level + 1}])
      /\ Len(p) = m - 1 + k /\ DOMAIN p = 1 .. m - 1 + k
      /\ \A i \in 1 .. m - 1 : p[i] = q[i + 1]
      /\ \A i \in 1 .. k : p[m - 1 + i] = added[i]
    <2> DEFINE A == [id : new, depth : {level + 1}]
               R == Places(d) \cup A
    <2>1. added \in Seq(A)
        BY DEF level
    <2> HIDE DEF A
    <2>2. q \in Seq(R) /\ added \in Seq(R)
        BY <1>2, <2>1
    <2> HIDE DEF R
    <2>3. p \in Seq(R) /\ Len(p) = (m - 1) + k
        BY <2>2, TailAndMore DEF m, k
    <2>4. /\ DOMAIN p = 1 .. (m - 1) + k
          /\ \A i \in 1 .. m - 1 : p[i] = q[i + 1]
          /\ \A i \in 1 .. k : p[(m - 1) + i] = added[i]
        BY <2>2, TailAndMore DEF m, k
    <2> QED BY <2>3, <2>4 DEF R, A
<1> HIDE DEF p
<1>7. ASSUME NEW i \in DOMAIN p
      PROVE  \/ i \in 1 .. m - 1 /\ i + 1 \in DOMAIN q /\ p[i] = q[i + 1]
             \/ \E j \in 1 .. k : i = m - 1 + j /\ p[i] = added[j]
    <2>1. CASE i <= m - 1
        BY <1>2, <1>6, <2>1
    <2>2. CASE ~ (i <= m - 1)
        <3>1. i - (m - 1) \in 1 .. k /\ i = m - 1 + (i - (m - 1))
            BY <1>2, <1>5, <1>6, <2>2
        <3> QED BY <1>6, <3>1
    <2> QED BY <2>1, <2>2
<1>8. \A i \in DOMAIN q : i = 1 \/ (i - 1 \in 1 .. m - 1 /\ i - 1 \in DOMAIN p /\ p[i - 1] = q[i])
    BY <1>2, <1>5, <1>6
<1>9. /\ Touched(d, {head}) \subseteq DOMAIN d.records
      /\ new \subseteq Touched(d, {head}) \ found
      /\ \/ level < N /\ Touched(d, {head}) \subseteq after
         \/ level = N /\ new = {}
    BY TouchedByOne DEF head, level, N
<1>10. ASSUME NEW i \in DOMAIN p
       PROVE  p[i] \in Places(d) /\ p[i].id \in after
    <2>1. CASE i + 1 \in DOMAIN q /\ p[i] = q[i + 1]
        BY <1>2, <2>1 DEF SearchInv
    <2>2. CASE \E j \in 1 .. k : p[i] = added[j]
        <3>1. PICK j \in 1 .. k : p[i] = added[j]
            BY <2>2
        <3>2. added[j].id \in new /\ added[j] \in [id : new, depth : {level + 1}]
            BY <1>5
        <3>3. new \subseteq DOMAIN d.records /\ level < N
            BY <1>9, <3>2
        <3>4. level + 1 \in 0 .. N
            BY <1>1, <1>4, <3>3
        <3>5. added[j] \in Places(d)
            BY <3>2, <3>3, <3>4 DEF Places, N
        <3> QED BY <3>1, <3>2, <3>5
    <2> QED BY <1>7, <2>1, <2>2
<1>11. p \in Seq(Places(d))
    <2>1. p \in [1 .. m - 1 + k -> Places(d)]
        BY <1>6, <1>10
    <2>2. m - 1 + k \in Nat
        BY <1>2, <1>5
    <2> QED BY <2>1, <2>2
<1>12. head \in W[level] /\ W[level] \subseteq found
    BY <1>2, <1>4 DEF Searching, head, level, W
<1>13. level < N => /\ W[level + 1] = W[level] \cup Touched(d, W[level])
                   /\ Touched(d, {head}) \subseteq W[level + 1]
                   /\ W[level + 1] \subseteq W[N]
    <2> SUFFICES ASSUME level < N
                 PROVE  /\ W[level + 1] = W[level] \cup Touched(d, W[level])
                        /\ Touched(d, {head}) \subseteq W[level + 1]
                        /\ W[level + 1] \subseteq W[N]
        OBVIOUS
    <2>1. level + 1 \in 1 .. N /\ level + 1 \in 0 .. N /\ (level + 1) - 1 = level
        BY <1>1, <1>4
    <2>2. W[level + 1] = W[level] \cup Touched(d, W[level])
        BY <1>1, <2>1 DEF Spreads
    <2>3. Touched(d, {head}) \subseteq Touched(d, W[level])
        BY <1>12, TouchedByOne
    <2>4. W[level + 1] \subseteq W[N]
        BY <2>1, SpreadGrows DEF W, N
    <2> QED BY <2>2, <2>3, <2>4
<1>14. after \subseteq W[N] /\ Refuted(d) \subseteq after
    BY <1>9, <1>13 DEF SearchInv, W, N
<1>15. \A i \in DOMAIN q : q[i].depth \in {level, level + 1}
    BY <1>4 DEF Searching, level
<1>16. CASE level = N
    <2>1. new = {} /\ after = found /\ k = 0
        <3>1. new = {}
            BY <1>4, <1>9, <1>16
        <3>2. k = 0
            <4>1. k # 0 => 1 \in 1 .. k
                BY <1>5
            <4> QED BY <1>5, <3>1, <4>1
        <3> QED BY <3>1, <3>2
    <2>2. p = << >> => W[N] \subseteq after
        BY <1>12, <1>16, <2>1
    <2>3. p # << >> => Searching(d, p, after)
        <3> SUFFICES ASSUME p # << >> PROVE Searching(d, p, after)
            OBVIOUS
        <3>1. ASSUME NEW i \in DOMAIN p
              PROVE  p[i].depth = N /\ p[i].id \in W[N]
            <4>1. i + 1 \in DOMAIN q /\ p[i] = q[i + 1]
                BY <1>7, <2>1
            <4>2. p[i].depth \in {N, N + 1} /\ p[i].depth \in 0 .. N
                BY <1>2, <1>3, <1>15, <1>16, <4>1
            <4>3. p[i].depth = N
                BY <1>1, <4>2
            <4>4. p[i].id \in W[p[i].depth]
                BY <1>4, <4>1 DEF Searching, W
            <4> QED BY <4>3, <4>4
        <3>2. 1 \in DOMAIN p
            BY <1>11
        <3>3. p[1].depth = N
            BY <3>1, <3>2
        <3>4. ~ (N < N) /\ N # N + 1
            BY <1>1
        <3>5. W[N] \subseteq after
            BY <1>12, <1>16
        <3> QED BY <3>1, <3>3, <3>4, <3>5 DEF Searching, W, N
    <2>4. SearchInv(d, p, after)
        BY <1>10, <1>11, <1>14, <2>2, <2>3 DEF SearchInv, W, N
    <2> QED BY <2>4 DEF p
<1>17. CASE level < N
    <2>1. Touched(d, {head}) \subseteq after
        <3>1. level # N
            BY <1>1, <1>4, <1>17
        <3> QED BY <1>9, <3>1
    <2>2. ASSUME NEW r \in after
          PROVE  \/ Touched(d, {r}) \subseteq after
                 \/ \E i \in DOMAIN p : p[i].id = r
        <3>1. CASE r \in new
            <4>1. PICK j \in 1 .. k : added[j].id = r
                BY <1>5, <3>1
            <4>2. m - 1 + j \in DOMAIN p /\ p[m - 1 + j] = added[j]
                BY <1>2, <1>5, <1>6
            <4> QED BY <4>1, <4>2
        <3>2. CASE r \in found
            <4>1. \/ Touched(d, {r}) \subseteq found
                  \/ \E i \in DOMAIN q : q[i].id = r
                BY <1>4, <1>17, <3>2 DEF Searching, level, N
            <4>2. ASSUME NEW i \in DOMAIN q, q[i].id = r
                  PROVE  \/ Touched(d, {r}) \subseteq after
                         \/ \E j \in DOMAIN p : p[j].id = r
                BY <1>8, <2>1, <4>2 DEF head
            <4> QED BY <4>1, <4>2
        <3> QED BY <3>1, <3>2
    <2>3. p = << >> => W[N] \subseteq after
        <3> SUFFICES ASSUME p = << >> PROVE W[N] \subseteq after
            OBVIOUS
        <3>1. Touched(d, after) \subseteq after
            <4>1. DOMAIN p = {}
                OBVIOUS
            <4> HIDE DEF after
            <4>2. \A r \in after : Touched(d, {r}) \subseteq after
                BY <2>2, <4>1
            <4> QED BY <4>2, TouchedTogether
        <3>2. N \in 0 .. N
            BY <1>1
        <3> QED BY <1>14, <3>1, <3>2, ClosedHoldsSpread DEF W, N
    <2>4. ASSUME NEW i \in DOMAIN p
          PROVE  /\ p[i].depth \in {level, level + 1}
                 /\ p[i].id \in W[p[i].depth]
                 /\ p[i].depth = level + 1 => p[i].id \notin W[level]
        <3>1. CASE i + 1 \in DOMAIN q /\ p[i] = q[i + 1]
            BY <1>4, <3>1 DEF Searching, W, level
        <3>2. CASE \E j \in 1 .. k : p[i] = added[j]
            <4>1. PICK j \in 1 .. k : p[i] = added[j]
                BY <3>2
            <4>2. p[i].id \in new /\ p[i].depth = level + 1
                BY <1>5, <4>1
            <4>3. p[i].id \in W[level + 1]
                BY <1>9, <1>13, <1>17, <4>2
            <4>4. p[i].id \notin W[level]
                BY <1>9, <1>12, <4>2
            <4> QED BY <4>2, <4>3, <4>4
        <3> QED BY <1>7, <3>1, <3>2
    <2>5. ASSUME NEW i \in DOMAIN p, NEW j \in DOMAIN p, i < j, p[j].depth = level
          PROVE  p[i].depth = level
        <3>1. j \in 1 .. m - 1 /\ j + 1 \in DOMAIN q /\ p[j] = q[j + 1]
            <4>1. level # level + 1
                BY <1>4
            <4> QED BY <1>5, <1>7, <2>5, <4>1
        <3>2. i \in 1 .. m - 1 /\ i + 1 \in DOMAIN q /\ i + 1 < j + 1 /\ p[i] = q[i + 1]
            BY <1>2, <1>6, <2>5, <3>1
        <3> QED BY <1>4, <2>5, <3>1, <3>2 DEF Searching, level
    <2>6. p # << >> => Searching(d, p, after)
        <3> SUFFICES ASSUME p # << >> PROVE Searching(d, p, after)
            OBVIOUS
        <3>1. 1 \in DOMAIN p /\ DOMAIN p \subseteq Nat /\ \A i \in DOMAIN p : i # 1 => 1 < i
            BY <1>11
        <3>2. CASE p[1].depth = level
            <4>1. W[level] \subseteq after
                BY <1>12
            <4> QED BY <2>2, <2>4, <2>5, <3>2, <4>1 DEF Searching, W, N
        <3>3. CASE p[1].depth = level + 1
            <4>1. level # level + 1 /\ level + 1 # level + 1 + 1
                BY <1>4
            <4>2. \A i \in DOMAIN p : p[i].depth = level + 1
                BY <2>4, <2>5, <3>1, <3>3, <4>1
            <4>3. \A r \in W[level] : Touched(d, {r}) \subseteq after
                <5> TAKE r \in W[level]
                <5>1. r \in after
                    BY <1>12
                <5>2. \A i \in DOMAIN p : p[i].id # r
                    BY <2>4, <4>2
                <5> QED BY <2>2, <5>1, <5>2
            <4>4. W[level + 1] \subseteq after
                <5>1. W[level] \subseteq after
                    BY <1>12
                <5> HIDE DEF after
                <5>2. Touched(d, W[level]) \subseteq after
                    BY <4>3, TouchedTogether
                <5> QED BY <1>13, <1>17, <5>1, <5>2
            <4> HIDE DEF after
            <4> QED BY <2>2, <2>4, <3>3, <4>1, <4>2, <4>4 DEF Searching, W, N
        <3> QED BY <2>4, <3>1, <3>2, <3>3
    <2>7. SearchInv(d, p, after)
        BY <1>10, <1>11, <1>14, <2>3, <2>6 DEF SearchInv, W, N
    <2> QED BY <2>7 DEF p
<1>18. level = N \/ level < N
    BY <1>1, <1>4
<1> QED BY <1>16, <1>17, <1>18

-----------------------------------------------------------------------------
\* The documents under analysis

Kinds == {"observation", "evidence", "assumption", "constraint", "alternative",
          "decision", "outcome", "learning"}
States == {"declared", "unresolved", "resolved", "refuted", "violated", "open",
           "rejected", "selected", "observed"}
Recorded == [kind : Kinds, state : States, audited : BOOLEAN]
Analysed == [records : Seq(Recorded), relations : SUBSET Links,
             baseline : {"not_applicable", "required"}, measured : BOOLEAN,
             dossier : {"none", "invalid", "preliminary", "in_review", "reviewed"},
             lacking : BOOLEAN, research : BOOLEAN, staged : BOOLEAN]

LEMMA EntriesAreRecorded ==
    ASSUME NEW k \in Kinds, NEW s \in States, NEW a \in BOOLEAN
    PROVE  Entry(k, s, a) \in Recorded
BY DEF Entry, Recorded

LEMMA TheEntries == \A i \in DOMAIN Entries : Entries[i] \in Recorded
<1>1. /\ Entry("observation", "declared", TRUE) \in Recorded
      /\ Entry("observation", "declared", FALSE) \in Recorded
      /\ Entry("evidence", "declared", TRUE) \in Recorded
      /\ Entry("evidence", "declared", FALSE) \in Recorded
      /\ Entry("assumption", "unresolved", FALSE) \in Recorded
      /\ Entry("assumption", "resolved", FALSE) \in Recorded
      /\ Entry("assumption", "refuted", FALSE) \in Recorded
      /\ Entry("constraint", "unresolved", FALSE) \in Recorded
      /\ Entry("constraint", "resolved", FALSE) \in Recorded
      /\ Entry("constraint", "violated", FALSE) \in Recorded
      /\ Entry("alternative", "open", FALSE) \in Recorded
      /\ Entry("alternative", "rejected", FALSE) \in Recorded
      /\ Entry("decision", "open", FALSE) \in Recorded
      /\ Entry("decision", "selected", FALSE) \in Recorded
      /\ Entry("outcome", "observed", FALSE) \in Recorded
      /\ Entry("learning", "declared", FALSE) \in Recorded
    BY EntriesAreRecorded DEF Kinds, States
<1>2. DOMAIN Entries = 1 .. 16
    BY DEF Entries
<1>3. \A i \in 1 .. 16 :
         \/ i = 1 \/ i = 2 \/ i = 3 \/ i = 4 \/ i = 5 \/ i = 6 \/ i = 7 \/ i = 8 \/ i = 9
         \/ i = 10 \/ i = 11 \/ i = 12 \/ i = 13 \/ i = 14 \/ i = 15 \/ i = 16
    OBVIOUS
<1>4. /\ Entries[1] \in Recorded /\ Entries[2] \in Recorded /\ Entries[3] \in Recorded
      /\ Entries[4] \in Recorded /\ Entries[5] \in Recorded /\ Entries[6] \in Recorded
    BY <1>1 DEF Entries
<1>5. /\ Entries[7] \in Recorded /\ Entries[8] \in Recorded /\ Entries[9] \in Recorded
      /\ Entries[10] \in Recorded /\ Entries[11] \in Recorded /\ Entries[12] \in Recorded
    BY <1>1 DEF Entries
<1>6. /\ Entries[13] \in Recorded /\ Entries[14] \in Recorded
      /\ Entries[15] \in Recorded /\ Entries[16] \in Recorded
    BY <1>1 DEF Entries
<1> QED BY Zenon, <1>2, <1>3, <1>4, <1>5, <1>6

LEMMA SheetsAreRecorded ==
    ASSUME NEW most, NEW r \in Sheets(most)
    PROVE  r \in Seq(Recorded)
<1> DEFINE Sorted(n) == {s \in [1 .. n -> DOMAIN Entries] :
                           \A i \in 1 .. n - 1 : s[i] <= s[i + 1]}
<1>1. PICK s \in UNION {Sorted(n) : n \in 0 .. most} :
         r = [i \in DOMAIN s |-> Entries[s[i]]]
    BY DEF Sheets
<1>2. PICK n \in 0 .. most : s \in Sorted(n)
    <2> HIDE DEF Sorted
    <2> QED OBVIOUS
<1>3. n \in Nat /\ s \in [1 .. n -> DOMAIN Entries]
    <2>1. s \in [1 .. n -> DOMAIN Entries]
        BY Zenon, <1>2
    <2> HIDE DEF Sorted
    <2>2. n \in Nat
        OBVIOUS
    <2> QED BY <2>1, <2>2
<1>4. \A i \in DOMAIN Entries : Entries[i] \in Recorded
    BY TheEntries
<1>5. r \in [1 .. n -> Recorded]
    BY <1>1, <1>3, <1>4
<1> QED BY <1>3, <1>5

LEMMA PlainIsAnalysed == Plain \in Analysed
<1>1. << >> \in Seq(Recorded)
    OBVIOUS
<1> QED BY <1>1 DEF Plain, Analysed

LEMMA OtherRecords ==
    ASSUME NEW d \in Analysed, NEW r \in Seq(Recorded)
    PROVE  [d EXCEPT !.records = r] \in Analysed
BY DEF Analysed

LEMMA DemandsAreAnalysed ==
    ASSUME NEW d \in Demands
    PROVE  d \in Analysed
<1>1. \/ d = Plain
      \/ d = [Plain EXCEPT !.staged = TRUE]
      \/ d = [Plain EXCEPT !.baseline = "required"]
      \/ d = [Plain EXCEPT !.baseline = "required", !.measured = TRUE]
      \/ d = [Plain EXCEPT !.dossier = "in_review"]
      \/ \E s \in {"none", "invalid", "preliminary", "reviewed"} :
            d = [Plain EXCEPT !.research = TRUE, !.dossier = s]
      \/ d = [Plain EXCEPT !.dossier = "reviewed", !.lacking = TRUE]
    BY DEF Demands
<1> QED BY <1>1, PlainIsAnalysed DEF Analysed

LEMMA ChainedIsAnalysed ==
    ASSUME NEW d \in Chained
    PROVE  d \in Analysed
<1> DEFINE r == <<Entry("assumption", "refuted", FALSE),
                  Entry("assumption", "refuted", FALSE),
                  Entry("decision", "open", FALSE),
                  Entry("decision", "open", FALSE),
                  Entry("decision", "open", FALSE)>>
<1>1. Entry("assumption", "refuted", FALSE) \in Recorded
      /\ Entry("decision", "open", FALSE) \in Recorded
    BY EntriesAreRecorded DEF Kinds, States
<1>2. r \in Seq(Recorded)
    <2>1. \A a, b \in Recorded : <<a, a, b, b, b>> \in Seq(Recorded)
        OBVIOUS
    <2> QED BY <1>1, <2>1
<1>3. PICK joined \in SUBSET Links : d = [Plain EXCEPT !.relations = joined, !.records = r]
    <2> HIDE DEF r
    <2> QED BY DEF Chained, r
<1> HIDE DEF r
<1> QED BY <1>2, <1>3, PlainIsAnalysed DEF Analysed

LEMMA DocumentsAreAnalysed ==
    ReportInit => document \in Analysed
<1> SUFFICES ASSUME ReportInit PROVE document \in Analysed
    OBVIOUS
<1>1. CASE document \in Chained
    BY <1>1, ChainedIsAnalysed
<1>2. CASE document \in {[Plain EXCEPT !.records = s] : s \in Sheets(MaxEntries)}
    <2>1. PICK s \in Sheets(MaxEntries) : document = [Plain EXCEPT !.records = s]
        BY <1>2
    <2> QED BY <2>1, SheetsAreRecorded, PlainIsAnalysed, OtherRecords
<1>3. CASE document \in {[d EXCEPT !.records = s] :
                            d \in Demands, s \in Sheets(MaxEntries - 1)}
    <2>1. PICK d \in Demands, s \in Sheets(MaxEntries - 1) :
             document = [d EXCEPT !.records = s]
        BY <1>3
    <2> QED BY <2>1, SheetsAreRecorded, DemandsAreAnalysed, OtherRecords
<1> QED BY <1>1, <1>2, <1>3 DEF ReportInit

-----------------------------------------------------------------------------
\* The analysis

FullReport(d) ==
    [status |-> Status(d), confidence |-> Confidence(d), factors |-> Factors(d),
     high |-> HighGaps(d), medium |-> MediumGaps(d), next |-> NextSteps(d),
     affected |-> Downstream(d)]

ReportInv ==
    /\ document \in Analysed
    /\ visited # {} => SearchInv(document, queue, visited)
    /\ visited = {} => queue = << >>
    /\ report # NoReport => /\ report = FullReport(document)
                            /\ queue = << >> /\ Refuted(document) \subseteq visited

LEMMA RecordsAreFinite ==
    ASSUME NEW d \in Analysed
    PROVE  /\ IsFiniteSet(DOMAIN d.records)
           /\ \A S \in SUBSET DOMAIN d.records : IsFiniteSet(S)
<1>1. d.records \in Seq(Recorded)
    BY DEF Analysed
<1>2. 1 \in Int /\ Len(d.records) \in Int /\ DOMAIN d.records = 1 .. Len(d.records)
    BY <1>1
<1>3. IsFiniteSet(1 .. Len(d.records))
    BY <1>2, FS_Interval
<1> QED BY <1>2, <1>3, FS_Subset

\* When nothing is queued any more, exactly what depends on the refuted is found.
LEMMA SearchEnds ==
    ASSUME ReportInv, queue = << >>, Refuted(document) \subseteq visited
    PROVE  visited = Downstream(document)
<1>1. CASE visited # {}
    BY <1>1, DownstreamIsSpread DEF ReportInv, SearchInv
<1>2. CASE visited = {}
    <2>1. Touched(document, {}) = {} /\ ReviewDepth \in 0 .. ReviewDepth
        BY ReportAssumption DEF Touched
    <2>2. Spread(document)[ReviewDepth] \subseteq {}
        BY <1>2, <2>1, ClosedHoldsSpread
    <2> QED BY <1>2, <2>2, DownstreamIsSpread
<1> QED BY <1>1, <1>2

LEMMA PropagateKeepsReportInv ==
    ASSUME ReportInv, Propagate
    PROVE  ReportInv'
<1>1. PICK order \in SetToSeqs(Refuted(document)) :
         queue' = [i \in DOMAIN order |-> [id |-> order[i], depth |-> 0]]
    BY DEF Propagate
<1>2. /\ Refuted(document) # {} /\ visited' = Refuted(document)
      /\ document' = document /\ report' = report /\ report = NoReport
    BY DEF Propagate
<1>3. IsFiniteSet(Refuted(document))
    BY RecordsAreFinite, RefutedAreRecords DEF ReportInv
<1>4. SearchInv(document, queue', visited')
    BY <1>1, <1>2, <1>3, SearchBegins
<1>5. document' \in Analysed
    BY <1>2 DEF ReportInv
<1>6. SearchInv(document', queue', visited')
    BY <1>2, <1>4
<1> QED BY <1>2, <1>5, <1>6 DEF ReportInv

LEMMA VisitKeepsReportInv ==
    ASSUME ReportInv, Visit
    PROVE  ReportInv'
<1> DEFINE d == document
           at == queue[1]
           new == Touched(d, {at.id}) \ visited
<1>1. /\ queue # << >> /\ document' = document /\ report' = report
      /\ report = NoReport /\ visited # {} /\ SearchInv(d, queue, visited)
    BY DEF Visit, ReportInv
<1>2. /\ queue \in Seq(Places(d)) /\ Head(queue) = at /\ at \in Places(d)
    BY <1>1 DEF SearchInv
<1>3. at.depth \in 0 .. ReviewDepth /\ ReviewDepth \in Nat
    BY <1>2, ReportAssumption DEF Places
<1>4. new = {j \in DOMAIN document.records :
                <<at.id, j>> \in document.relations /\ j \notin visited}
    BY DEF Touched
<1>5. CASE at.depth >= ReviewDepth
    <2>1. queue' = Tail(queue) /\ visited' = visited
        BY <1>2, <1>5 DEF Visit
    <2>2. at.depth = ReviewDepth
        BY <1>3, <1>5
    <2>3. << >> \in Seq([id : {}, depth : {at.depth + 1}]) /\ DOMAIN << >> = {}
        OBVIOUS
    <2>4. SearchInv(d, Tail(queue) \o << >>, visited \cup {})
        BY <1>1, <2>2, <2>3, SearchMoves
    <2>5. Tail(queue) \o << >> = Tail(queue) /\ visited \cup {} = visited
        BY <1>1, <1>2, HeadTailProperties, ConcatEmptySeq
    <2>6. SearchInv(document', queue', visited')
        BY <1>1, <2>1, <2>4, <2>5
    <2> QED BY <1>1, <2>1, <2>6 DEF ReportInv
<1>6. CASE ~ (at.depth >= ReviewDepth)
    <2>1. PICK order \in SetToSeqs(new) :
             queue' = Tail(queue) \o [i \in DOMAIN order |->
                                        [id |-> order[i], depth |-> at.depth + 1]]
        BY <1>2, <1>4, <1>6 DEF Visit
    <2>2. visited' = visited \cup new
        BY <1>2, <1>4, <1>6 DEF Visit
    <2> DEFINE added == [i \in DOMAIN order |-> [id |-> order[i], depth |-> at.depth + 1]]
    <2>3. IsFiniteSet(new)
        <3>1. new \in SUBSET DOMAIN document.records
            BY <1>4
        <3> HIDE DEF new
        <3> QED BY <3>1, RecordsAreFinite DEF ReportInv
    <2> HIDE DEF new
    <2>4. /\ order \in Seq(new) /\ DOMAIN order = 1 .. Len(order)
          /\ \A s \in new : \E i \in DOMAIN order : order[i] = s
        BY <2>3, OrdersAreWhole
    <2> DEFINE P == [id : new, depth : {at.depth + 1}]
    <2>5. added \in Seq(P)
        <3>1. added \in [1 .. Len(order) -> P]
            BY <2>4
        <3>2. Len(order) \in Nat
            BY <2>4
        <3> HIDE DEF added, P
        <3> QED BY <3>1, <3>2
    <2>6. \A r \in new : \E i \in DOMAIN added : added[i].id = r
        BY <2>4
    <2>7. /\ new \subseteq Touched(d, {at.id}) \ visited
          /\ at.depth < ReviewDepth /\ Touched(d, {at.id}) \subseteq visited \cup new
        BY <1>3, <1>6 DEF new
    <2> HIDE DEF added
    <2>8. SearchInv(d, Tail(queue) \o added, visited \cup new)
        BY <1>1, <2>5, <2>6, <2>7, SearchMoves
    <2>9. SearchInv(document', queue', visited')
        BY <1>1, <2>1, <2>2, <2>8 DEF added
    <2>10. visited' # {}
        BY <1>1, <2>2
    <2> QED BY <1>1, <2>9, <2>10 DEF ReportInv
<1> QED BY <1>5, <1>6

LEMMA ReportKeepsReportInv ==
    ASSUME ReportInv, Report
    PROVE  ReportInv'
<1>1. /\ queue = << >> /\ Refuted(document) \subseteq visited
      /\ document' = document /\ queue' = queue /\ visited' = visited
    BY DEF Report
<1>2. visited = Downstream(document)
    BY <1>1, SearchEnds
<1>3. report' = FullReport(document)
    BY <1>2 DEF Report, FullReport
<1>4. FullReport(document') = FullReport(document)
    BY <1>1
<1>5. visited # {} => SearchInv(document', queue', visited')
    BY <1>1 DEF ReportInv
<1> QED BY <1>1, <1>3, <1>4, <1>5 DEF ReportInv

LEMMA ReportInvariant == ReportSpec => []ReportInv
<1>1. ReportInit => ReportInv
    BY DocumentsAreAnalysed DEF ReportInit, ReportInv
<1>2. ReportInv /\ [ReportNext]_reportVars => ReportInv'
    <2> SUFFICES ASSUME ReportInv, [ReportNext]_reportVars PROVE ReportInv'
        OBVIOUS
    <2>1. CASE Propagate
        BY <2>1, PropagateKeepsReportInv
    <2>2. CASE Visit
        BY <2>2, VisitKeepsReportInv
    <2>3. CASE Report
        BY <2>3, ReportKeepsReportInv
    <2>4. CASE UNCHANGED reportVars
        <3>1. /\ document' = document /\ queue' = queue /\ visited' = visited
              /\ report' = report
            BY <2>4 DEF reportVars
        <3>2. SearchInv(document', queue', visited') <=> SearchInv(document, queue, visited)
            BY <3>1
        <3> QED BY <3>1, <3>2 DEF ReportInv
    <2> QED BY <2>1, <2>2, <2>3, <2>4 DEF ReportNext
<1> QED BY <1>1, <1>2, PTL DEF ReportSpec

-----------------------------------------------------------------------------
(***************************************************************************)
(* A better record is not told the worse for it.  However it became        *)
(* better, it is no worse in each thing the report looks at, and the       *)
(* report looks at each of them in one direction.                          *)
(***************************************************************************)

NoWorse(d, e) ==
    /\ e.baseline = d.baseline /\ e.staged = d.staged /\ e.research = d.research
    /\ d.measured => e.measured
    /\ \/ e.dossier = d.dossier /\ e.lacking = d.lacking
       \/ e.dossier = "reviewed" /\ ~ e.lacking
    /\ \A k \in {"assumption", "constraint", "decision", "outcome", "learning"} :
          Of(e, k) = Of(d, k)
    /\ Open(e, "assumption") \subseteq Open(d, "assumption")
    /\ Open(e, "constraint") \subseteq Open(d, "constraint")
    /\ In(e, "constraint", {"violated"}) \subseteq In(d, "constraint", {"violated"})
    /\ Refuted(e) \subseteq Refuted(d)
    /\ Selected(d) \subseteq Selected(e)
    /\ Alternatives(d) \subseteq Alternatives(e) /\ IsFiniteSet(Alternatives(e))
    /\ EvidenceValue(d) <= EvidenceValue(e)

LEMMA OfAreRecords ==
    ASSUME NEW d, NEW k
    PROVE  /\ Of(d, k) \subseteq DOMAIN d.records
           /\ Open(d, k) \subseteq Of(d, k)
           /\ Documents(d) \subseteq DOMAIN d.records
           /\ Auditable(d) \subseteq Documents(d)
BY DEF Of, Open, Documents, Auditable

LEMMA OfAreFinite ==
    ASSUME NEW d \in Analysed, NEW k
    PROVE  /\ IsFiniteSet(Of(d, k)) /\ Cardinality(Of(d, k)) \in Nat
           /\ Cardinality(Open(d, k)) \in Nat
           /\ Cardinality(Open(d, k)) <= Cardinality(Of(d, k))
           /\ IsFiniteSet(Documents(d)) /\ Cardinality(Documents(d)) \in Nat
           /\ IsFiniteSet(Auditable(d)) /\ Cardinality(Auditable(d)) \in Nat
<1>1. IsFiniteSet(Of(d, k)) /\ IsFiniteSet(Documents(d))
    BY OfAreRecords, RecordsAreFinite
<1>2. IsFiniteSet(Open(d, k)) /\ Cardinality(Open(d, k)) <= Cardinality(Of(d, k))
    BY <1>1, OfAreRecords, FS_Subset
<1>3. IsFiniteSet(Auditable(d))
    BY <1>1, OfAreRecords, FS_Subset
<1> QED BY <1>1, <1>2, <1>3, FS_CardinalityType

LEMMA FewerOrEqual ==
    ASSUME NEW S, NEW T, IsFiniteSet(T), S \subseteq T
    PROVE  Cardinality(S) <= Cardinality(T)
BY FS_Subset

\* What an evidence is worth depends on these sets only.
LEMMA SameEvidence ==
    ASSUME NEW d, NEW e, Of(e, "observation") = Of(d, "observation"),
           Of(e, "evidence") = Of(d, "evidence"), Auditable(e) = Auditable(d)
    PROVE  EvidenceValue(e) = EvidenceValue(d)
BY DEF EvidenceValue, WellSourced, Documents

Worth(some, well, seen) ==
    IF some THEN IF well THEN 100 ELSE 65
    ELSE IF seen >= 2 THEN 55 ELSE IF seen = 1 THEN 25 ELSE 0

LEMMA WorthGrows ==
    ASSUME NEW s, NEW s2, NEW w, NEW w2, NEW n \in Nat, NEW n2 \in Nat,
           s => s2, w => w2, n <= n2
    PROVE  Worth(s, w, n) <= Worth(s2, w2, n2)
BY DEF Worth

LEMMA EvidenceGrows ==
    ASSUME NEW d, NEW e,
           Cardinality(Of(d, "observation")) \in Nat,
           Cardinality(Of(e, "observation")) \in Nat,
           Cardinality(Of(d, "observation")) <= Cardinality(Of(e, "observation")),
           Of(d, "evidence") # {} => Of(e, "evidence") # {},
           WellSourced(d) => WellSourced(e)
    PROVE  EvidenceValue(d) <= EvidenceValue(e)
<1>1. /\ EvidenceValue(d) = Worth(Of(d, "evidence") # {}, WellSourced(d),
                                  Cardinality(Of(d, "observation")))
      /\ EvidenceValue(e) = Worth(Of(e, "evidence") # {}, WellSourced(e),
                                  Cardinality(Of(e, "observation")))
    BY DEF EvidenceValue, Worth
<1>2. Worth(Of(d, "evidence") # {}, WellSourced(d), Cardinality(Of(d, "observation")))
      <= Worth(Of(e, "evidence") # {}, WellSourced(e), Cardinality(Of(e, "observation")))
    BY WorthGrows
<1> QED BY <1>1, <1>2

\* One record changes and stays of its kind.
Reworked(d, e, i) ==
    /\ i \in DOMAIN d.records
    /\ DOMAIN e.records = DOMAIN d.records
    /\ \A j \in DOMAIN d.records \ {i} : e.records[j] = d.records[j]
    /\ e.records[i].kind = d.records[i].kind

LEMMA ReworkedKinds ==
    ASSUME NEW d, NEW e, NEW i, Reworked(d, e, i), NEW k
    PROVE  Of(e, k) = Of(d, k)
BY DEF Of, Reworked

LEMMA RestatedIsReworked ==
    ASSUME NEW d \in Analysed, NEW i \in DOMAIN d.records, NEW new \in States,
           NEW e, e = [d EXCEPT !.records[i].state = new]
    PROVE  /\ Reworked(d, e, i)
           /\ e.records[i].state = new /\ e.records[i].audited = d.records[i].audited
           /\ e.baseline = d.baseline /\ e.staged = d.staged /\ e.research = d.research
           /\ e.measured = d.measured /\ e.dossier = d.dossier /\ e.lacking = d.lacking
<1>1. d.records \in Seq(Recorded)
    BY DEF Analysed
<1>2. d.records[i] \in Recorded
    BY <1>1
<1>3. e.records = [d.records EXCEPT ![i].state = new]
      /\ e.baseline = d.baseline /\ e.staged = d.staged /\ e.research = d.research
      /\ e.measured = d.measured /\ e.dossier = d.dossier /\ e.lacking = d.lacking
    BY DEF Analysed
<1>4. e.records[i] = [d.records[i] EXCEPT !.state = new]
    BY <1>1, <1>3
<1>5. /\ e.records[i].kind = d.records[i].kind /\ e.records[i].state = new
      /\ e.records[i].audited = d.records[i].audited
    BY <1>2, <1>4 DEF Recorded
<1>6. DOMAIN e.records = DOMAIN d.records
      /\ \A j \in DOMAIN d.records \ {i} : e.records[j] = d.records[j]
    BY <1>1, <1>3
<1> QED BY <1>3, <1>5, <1>6 DEF Reworked

LEMMA AuditedIsReworked ==
    ASSUME NEW d \in Analysed, NEW i \in DOMAIN d.records,
           NEW e, e = [d EXCEPT !.records[i].audited = TRUE]
    PROVE  /\ Reworked(d, e, i)
           /\ e.records[i].state = d.records[i].state /\ e.records[i].audited
           /\ e.baseline = d.baseline /\ e.staged = d.staged /\ e.research = d.research
           /\ e.measured = d.measured /\ e.dossier = d.dossier /\ e.lacking = d.lacking
<1>1. d.records \in Seq(Recorded)
    BY DEF Analysed
<1>2. d.records[i] \in Recorded
    BY <1>1
<1>3. e.records = [d.records EXCEPT ![i].audited = TRUE]
      /\ e.baseline = d.baseline /\ e.staged = d.staged /\ e.research = d.research
      /\ e.measured = d.measured /\ e.dossier = d.dossier /\ e.lacking = d.lacking
    BY DEF Analysed
<1>4. e.records[i] = [d.records[i] EXCEPT !.audited = TRUE]
    BY <1>1, <1>3
<1>5. /\ e.records[i].kind = d.records[i].kind
      /\ e.records[i].state = d.records[i].state
      /\ e.records[i].audited = TRUE
    BY <1>2, <1>4 DEF Recorded
<1>6. DOMAIN e.records = DOMAIN d.records
      /\ \A j \in DOMAIN d.records \ {i} : e.records[j] = d.records[j]
    BY <1>1, <1>3
<1> QED BY <1>3, <1>5, <1>6 DEF Reworked

\* A state that settles, and none that alarms.
LEMMA RestatedIsNoWorse ==
    ASSUME NEW d \in Analysed, NEW k \in Kinds, NEW new \in {"resolved", "rejected", "selected"},
           k \in {"assumption", "constraint"} => new = "resolved",
           k = "decision" => new = "selected",
           NEW i \in Of(d, k), NEW e, e = [d EXCEPT !.records[i].state = new]
    PROVE  NoWorse(d, e)
<1>1. i \in DOMAIN d.records /\ d.records[i].kind = k /\ new \in States
    BY DEF Of, States
<1>2. /\ Reworked(d, e, i)
      /\ e.records[i].state = new /\ e.records[i].audited = d.records[i].audited
      /\ e.baseline = d.baseline /\ e.staged = d.staged /\ e.research = d.research
      /\ e.measured = d.measured /\ e.dossier = d.dossier /\ e.lacking = d.lacking
    BY <1>1, RestatedIsReworked
<1>3. \A c : Of(e, c) = Of(d, c)
    BY <1>2, ReworkedKinds
<1>4. \A j \in DOMAIN d.records : j # i => e.records[j] = d.records[j]
    BY <1>2 DEF Reworked
<1>5. Auditable(e) = Auditable(d)
    <2>1. \A j \in Documents(d) : j \in DOMAIN d.records
        BY OfAreRecords
    <2>2. Documents(e) = Documents(d)
        BY <1>3 DEF Documents
    <2>3. \A j \in DOMAIN d.records : e.records[j].audited = d.records[j].audited
        BY <1>2, <1>4
    <2> QED BY <2>1, <2>2, <2>3 DEF Auditable
<1>6. EvidenceValue(e) = EvidenceValue(d) /\ EvidenceValue(d) <= EvidenceValue(d)
    <2>1. EvidenceValue(d) \in Int
        BY DEF EvidenceValue
    <2> QED BY <1>3, <1>5, <2>1, SameEvidence
<1>7. ASSUME NEW c \in {"assumption", "constraint"}
      PROVE  Open(e, c) \subseteq Open(d, c)
    <2> SUFFICES ASSUME NEW j \in Open(e, c) PROVE j \in Open(d, c)
        OBVIOUS
    <2>1. j \in Of(d, c) /\ j \in DOMAIN d.records /\ d.records[j].kind = c
          /\ e.records[j].state \notin Settled
        BY <1>3 DEF Open, In, Of
    <2>2. CASE j = i
        BY <1>1, <1>2, <2>1, <2>2 DEF Settled
    <2>3. CASE j # i
        BY <1>4, <2>1, <2>3 DEF Open, In
    <2> QED BY <2>2, <2>3
<1>8. /\ In(e, "constraint", {"violated"}) \subseteq In(d, "constraint", {"violated"})
      /\ Refuted(e) \subseteq Refuted(d)
    <2>1. ASSUME NEW c, NEW s, s # new
          PROVE  In(e, c, {s}) \subseteq In(d, c, {s})
        <3>1. \A j \in In(e, c, {s}) : j \in Of(d, c) /\ j \in DOMAIN d.records
                                      /\ e.records[j].state = s
            BY <1>3 DEF In, Of
        <3> QED BY <1>2, <1>4, <2>1, <3>1 DEF In
    <2>2. new # "violated" /\ new # "refuted"
        OBVIOUS
    <2> QED BY <2>1, <2>2 DEF Refuted
<1>9. Selected(d) \subseteq Selected(e)
    <2> SUFFICES ASSUME NEW j \in Selected(d) PROVE j \in Selected(e)
        OBVIOUS
    <2>1. /\ j \in Of(d, "decision") /\ j \in DOMAIN d.records
          /\ d.records[j].kind = "decision"
          /\ d.records[j].state \in {"selected", "completed"}
        BY DEF Selected, In, Of
    <2>2. e.records[j].state \in {"selected", "completed"}
        BY <1>1, <1>2, <1>4, <2>1
    <2> QED BY <1>3, <2>1, <2>2 DEF Selected, In
<1>10. Alternatives(e) = Alternatives(d) /\ IsFiniteSet(Alternatives(e))
    BY <1>3, OfAreFinite DEF Alternatives
<1> QED BY <1>2, <1>3, <1>6, <1>7, <1>8, <1>9, <1>10 DEF NoWorse

LEMMA AuditedIsNoWorse ==
    ASSUME NEW d \in Analysed, NEW i \in Documents(d),
           NEW e, e = [d EXCEPT !.records[i].audited = TRUE]
    PROVE  NoWorse(d, e)
<1>1. i \in DOMAIN d.records
    BY OfAreRecords
<1>2. /\ Reworked(d, e, i)
      /\ e.records[i].state = d.records[i].state /\ e.records[i].audited
      /\ e.baseline = d.baseline /\ e.staged = d.staged /\ e.research = d.research
      /\ e.measured = d.measured /\ e.dossier = d.dossier /\ e.lacking = d.lacking
    BY <1>1, AuditedIsReworked
<1>3. \A c : Of(e, c) = Of(d, c)
    BY <1>2, ReworkedKinds
<1>4. \A j \in DOMAIN d.records : /\ e.records[j].state = d.records[j].state
                                  /\ d.records[j].audited => e.records[j].audited
    BY <1>2 DEF Reworked
<1>5. ASSUME NEW c, NEW s PROVE In(e, c, s) = In(d, c, s)
    <2>1. \A j \in Of(d, c) : j \in DOMAIN d.records
        BY OfAreRecords
    <2> QED BY <1>3, <1>4, <2>1 DEF In
<1>6. EvidenceValue(d) <= EvidenceValue(e)
    <2>1. Documents(e) = Documents(d)
        BY <1>3 DEF Documents
    <2>2. Auditable(d) \subseteq Auditable(e)
        BY <1>4, <2>1, OfAreRecords DEF Auditable
    <2>3. IsFiniteSet(Auditable(e))
        <3>1. Auditable(e) \subseteq Documents(d) /\ IsFiniteSet(Documents(d))
            BY <2>1, OfAreRecords, OfAreFinite
        <3> QED BY <3>1, FS_Subset
    <2>4. Cardinality(Auditable(d)) <= Cardinality(Auditable(e))
        BY <2>2, <2>3, FewerOrEqual
    <2>5. /\ Cardinality(Auditable(d)) \in Nat /\ Cardinality(Auditable(e)) \in Nat
          /\ Cardinality(Documents(d)) \in Nat
        BY <2>3, OfAreFinite, FS_CardinalityType
    <2>6. WellSourced(d) => WellSourced(e)
        BY <2>1, <2>4, <2>5 DEF WellSourced
    <2>7. Of(e, "observation") = Of(d, "observation") /\ Of(e, "evidence") = Of(d, "evidence")
        BY <1>3
    <2>8. Cardinality(Of(d, "observation")) \in Nat
        BY OfAreFinite
    <2> QED BY <2>6, <2>7, <2>8, EvidenceGrows
<1>7. Alternatives(e) = Alternatives(d) /\ IsFiniteSet(Alternatives(e))
    BY <1>3, OfAreFinite DEF Alternatives
<1> QED BY <1>2, <1>3, <1>5, <1>6, <1>7 DEF NoWorse, Open, Refuted, Selected

\* One record more.
Appended(d, e, r) ==
    LET n == Len(d.records) + 1
    IN  /\ DOMAIN e.records = DOMAIN d.records \cup {n} /\ n \notin DOMAIN d.records
        /\ \A j \in DOMAIN d.records : e.records[j] = d.records[j]
        /\ e.records[n] = r

LEMMA AppendedIsMore ==
    ASSUME NEW d \in Analysed, NEW r \in Recorded,
           NEW e, e = [d EXCEPT !.records = Append(@, r)]
    PROVE  /\ Appended(d, e, r)
           /\ e.baseline = d.baseline /\ e.staged = d.staged /\ e.research = d.research
           /\ e.measured = d.measured /\ e.dossier = d.dossier /\ e.lacking = d.lacking
<1>1. d.records \in Seq(Recorded)
    BY DEF Analysed
<1>2. e.records = Append(d.records, r)
      /\ e.baseline = d.baseline /\ e.staged = d.staged /\ e.research = d.research
      /\ e.measured = d.measured /\ e.dossier = d.dossier /\ e.lacking = d.lacking
    BY DEF Analysed
<1>3. /\ DOMAIN Append(d.records, r) = 1 .. Len(d.records) + 1
      /\ DOMAIN d.records = 1 .. Len(d.records) /\ Len(d.records) \in Nat
      /\ \A j \in 1 .. Len(d.records) : Append(d.records, r)[j] = d.records[j]
      /\ Append(d.records, r)[Len(d.records) + 1] = r
    BY <1>1
<1>4. \A n \in Nat : 1 .. n + 1 = (1 .. n) \cup {n + 1} /\ n + 1 \notin 1 .. n
    OBVIOUS
<1>5. Appended(d, e, r)
    BY <1>2, <1>3, <1>4 DEF Appended
<1> QED BY <1>2, <1>5

LEMMA AppendedKinds ==
    ASSUME NEW d, NEW e, NEW r, Appended(d, e, r), NEW k
    PROVE  /\ r.kind # k => Of(e, k) = Of(d, k)
           /\ r.kind = k => Of(e, k) = Of(d, k) \cup {Len(d.records) + 1}
           /\ Of(d, k) \subseteq Of(e, k)
<1>1. r.kind # k => Of(e, k) = Of(d, k)
    BY DEF Appended, Of
<1>2. r.kind = k => Of(e, k) = Of(d, k) \cup {Len(d.records) + 1}
    BY DEF Appended, Of
<1> QED BY <1>1, <1>2

LEMMA AppendedStates ==
    ASSUME NEW d, NEW e, NEW r, Appended(d, e, r), NEW k, r.kind # k, NEW s
    PROVE  In(e, k, s) = In(d, k, s)
<1>1. Of(e, k) = Of(d, k)
    BY AppendedKinds
<1>2. \A j \in Of(d, k) : e.records[j] = d.records[j]
    BY OfAreRecords DEF Appended
<1> QED BY <1>1, <1>2 DEF In

LEMMA AppendedEvidence ==
    ASSUME NEW d \in Analysed, NEW e, NEW r, Appended(d, e, r),
           r.kind \in {"observation", "evidence"} => r.audited
    PROVE  EvidenceValue(d) <= EvidenceValue(e)
<1> DEFINE n == Len(d.records) + 1
<1>1. CASE r.kind \notin {"observation", "evidence"}
    <2>1. /\ Of(e, "observation") = Of(d, "observation")
          /\ Of(e, "evidence") = Of(d, "evidence")
        BY <1>1, AppendedKinds
    <2>2. Documents(e) = Documents(d) /\ Documents(d) \subseteq DOMAIN d.records
        BY <2>1, OfAreRecords DEF Documents
    <2>3. Auditable(e) = Auditable(d)
        BY <2>2 DEF Auditable, Appended
    <2>4. EvidenceValue(d) \in Int
        BY DEF EvidenceValue
    <2> QED BY <2>1, <2>3, <2>4, SameEvidence
<1>2. CASE r.kind \in {"observation", "evidence"}
    <2>1. /\ n \notin DOMAIN d.records /\ e.records[n] = r /\ r.audited
          /\ \A j \in DOMAIN d.records : e.records[j] = d.records[j]
        BY <1>2 DEF Appended
    <2>2. Documents(e) = Documents(d) \cup {n}
        BY <1>2, AppendedKinds DEF Documents
    <2>3. Documents(d) \subseteq DOMAIN d.records
        BY OfAreRecords
    <2>4. Auditable(e) = Auditable(d) \cup {n}
        BY <2>1, <2>2, <2>3 DEF Auditable
    <2>5. n \notin Documents(d) /\ n \notin Auditable(d)
        BY <2>1, OfAreRecords
    <2>6. /\ IsFiniteSet(Documents(d)) /\ Cardinality(Documents(d)) \in Nat
          /\ IsFiniteSet(Auditable(d)) /\ Cardinality(Auditable(d)) \in Nat
        BY OfAreFinite
    <2>7. /\ Cardinality(Documents(e)) = Cardinality(Documents(d)) + 1
          /\ Cardinality(Auditable(e)) = Cardinality(Auditable(d)) + 1
        BY <2>2, <2>4, <2>5, <2>6, FS_AddElement
    <2>8. WellSourced(d) => WellSourced(e)
        <3>1. \A a, b \in Nat : 10 * a >= 8 * b => 10 * (a + 1) >= 8 * (b + 1)
            OBVIOUS
        <3>2. Documents(e) # {}
            BY <2>2
        <3> QED BY <2>6, <2>7, <3>1, <3>2 DEF WellSourced
    <2>9. IsFiniteSet(Of(e, "observation")) /\ IsFiniteSet(Of(d, "observation"))
        <3>1. IsFiniteSet(Of(d, "observation") \cup {n})
            BY OfAreFinite, FS_AddElement
        <3> QED BY <3>1, OfAreFinite, AppendedKinds
    <2>10. Of(d, "observation") \subseteq Of(e, "observation")
           /\ Of(d, "evidence") \subseteq Of(e, "evidence")
        BY AppendedKinds
    <2>11. /\ Cardinality(Of(d, "observation")) \in Nat
           /\ Cardinality(Of(e, "observation")) \in Nat
           /\ Cardinality(Of(d, "observation")) <= Cardinality(Of(e, "observation"))
        BY <2>9, <2>10, FewerOrEqual, FS_CardinalityType
    <2> QED BY <2>8, <2>10, <2>11, EvidenceGrows
<1> QED BY <1>1, <1>2

LEMMA AppendedIsNoWorse ==
    ASSUME NEW d \in Analysed, NEW e,
           NEW r \in {Entry("observation", "declared", TRUE),
                      Entry("evidence", "declared", TRUE),
                      Entry("alternative", "open", FALSE)},
           e = [d EXCEPT !.records = Append(@, r)]
    PROVE  NoWorse(d, e)
<1>1. r \in Recorded
    BY EntriesAreRecorded DEF Kinds, States
<1>2. /\ r.kind \in {"observation", "evidence", "alternative"}
      /\ r.kind \in {"observation", "evidence"} => r.audited
    BY DEF Entry
<1>3. /\ Appended(d, e, r)
      /\ e.baseline = d.baseline /\ e.staged = d.staged /\ e.research = d.research
      /\ e.measured = d.measured /\ e.dossier = d.dossier /\ e.lacking = d.lacking
    BY <1>1, AppendedIsMore
<1>4. EvidenceValue(d) <= EvidenceValue(e)
    BY <1>2, <1>3, AppendedEvidence
<1>5. ASSUME NEW k \in {"assumption", "constraint", "decision", "outcome", "learning"}
      PROVE  /\ Of(e, k) = Of(d, k)
             /\ \A s : In(e, k, s) = In(d, k, s)
             /\ Open(e, k) = Open(d, k)
    <2>1. r.kind # k
        BY <1>2
    <2>2. Of(e, k) = Of(d, k)
        BY <1>3, <2>1, AppendedKinds
    <2>3. \A s : In(e, k, s) = In(d, k, s)
        BY <1>3, <2>1, AppendedStates
    <2> QED BY <2>2, <2>3 DEF Open
<1>6. Alternatives(d) \subseteq Alternatives(e) /\ IsFiniteSet(Alternatives(e))
    <2>1. IsFiniteSet(Of(d, "alternative"))
          /\ IsFiniteSet(Of(d, "alternative") \cup {Len(d.records) + 1})
        BY OfAreFinite, FS_AddElement
    <2> QED BY <1>3, <2>1, AppendedKinds DEF Alternatives
<1>7. /\ In(e, "constraint", {"violated"}) = In(d, "constraint", {"violated"})
      /\ Refuted(e) = Refuted(d) /\ Selected(e) = Selected(d)
    BY <1>5 DEF Refuted, Selected
<1> QED BY <1>3, <1>4, <1>5, <1>6, <1>7 DEF NoWorse

\* What the metadata says, the records being the same.
LEMMA SameRecordsAreNoWorse ==
    ASSUME NEW d \in Analysed, NEW e, e.records = d.records,
           e.baseline = d.baseline, e.staged = d.staged, e.research = d.research,
           d.measured => e.measured,
           \/ e.dossier = d.dossier /\ e.lacking = d.lacking
           \/ e.dossier = "reviewed" /\ ~ e.lacking
    PROVE  NoWorse(d, e)
<1>1. \A k : Of(e, k) = Of(d, k)
    BY DEF Of
<1>2. \A k, s : In(e, k, s) = In(d, k, s)
    BY <1>1 DEF In
<1>3. EvidenceValue(d) <= EvidenceValue(e)
    <2>1. Auditable(e) = Auditable(d)
        BY <1>1 DEF Auditable, Documents
    <2>2. EvidenceValue(d) \in Int
        BY DEF EvidenceValue
    <2> QED BY <1>1, <2>1, <2>2, SameEvidence
<1>4. Alternatives(e) = Alternatives(d) /\ IsFiniteSet(Alternatives(e))
    BY <1>1, OfAreFinite DEF Alternatives
<1> QED BY <1>1, <1>2, <1>3, <1>4 DEF NoWorse, Open, Refuted, Selected

LEMMA BetterIsNoWorse ==
    ASSUME NEW d \in Analysed, NEW e \in Better(d)
    PROVE  NoWorse(d, e)
<1>1. ASSUME NEW k, NEW s, NEW i \in In(d, k, s)
      PROVE  i \in Of(d, k)
    BY DEF In
<1>2. CASE e \in Restated(d, "assumption", {"unresolved"}, "resolved")
    <2>1. PICK i \in In(d, "assumption", {"unresolved"}) :
             e = [d EXCEPT !.records[i].state = "resolved"]
        BY <1>2 DEF Restated
    <2> QED BY <1>1, <2>1, RestatedIsNoWorse DEF Kinds
<1>3. CASE e \in Restated(d, "constraint", {"unresolved", "violated"}, "resolved")
    <2>1. PICK i \in In(d, "constraint", {"unresolved", "violated"}) :
             e = [d EXCEPT !.records[i].state = "resolved"]
        BY <1>3 DEF Restated
    <2> QED BY <1>1, <2>1, RestatedIsNoWorse DEF Kinds
<1>4. CASE e \in Restated(d, "alternative", {"open"}, "rejected")
    <2>1. PICK i \in In(d, "alternative", {"open"}) :
             e = [d EXCEPT !.records[i].state = "rejected"]
        BY <1>4 DEF Restated
    <2> QED BY <1>1, <2>1, RestatedIsNoWorse DEF Kinds
<1>5. CASE e \in Restated(d, "decision", {"open"}, "selected")
    <2>1. PICK i \in In(d, "decision", {"open"}) :
             e = [d EXCEPT !.records[i].state = "selected"]
        BY <1>5 DEF Restated
    <2> QED BY <1>1, <2>1, RestatedIsNoWorse DEF Kinds
<1>6. CASE e \in {[d EXCEPT !.records[i].audited = TRUE] : i \in Documents(d)}
    <2>1. PICK i \in Documents(d) : e = [d EXCEPT !.records[i].audited = TRUE]
        BY <1>6
    <2> QED BY <2>1, AuditedIsNoWorse
<1>7. CASE e \in {[d EXCEPT !.records = Append(@, r)] :
                    r \in {Entry("observation", "declared", TRUE),
                           Entry("evidence", "declared", TRUE),
                           Entry("alternative", "open", FALSE)}}
    BY <1>7, AppendedIsNoWorse
<1>8. CASE e = [d EXCEPT !.measured = TRUE]
    <2>1. /\ e.records = d.records /\ e.baseline = d.baseline /\ e.staged = d.staged
          /\ e.research = d.research /\ e.measured
          /\ e.dossier = d.dossier /\ e.lacking = d.lacking
        BY <1>8 DEF Analysed
    <2> QED BY <2>1, SameRecordsAreNoWorse
<1>9. CASE e = [d EXCEPT !.dossier = "reviewed", !.lacking = FALSE]
    <2>1. /\ e.records = d.records /\ e.baseline = d.baseline /\ e.staged = d.staged
          /\ e.research = d.research /\ e.measured = d.measured
          /\ e.dossier = "reviewed" /\ ~ e.lacking
        BY <1>9 DEF Analysed
    <2> QED BY <2>1, SameRecordsAreNoWorse
<1> QED BY <1>2, <1>3, <1>4, <1>5, <1>6, <1>7, <1>8, <1>9 DEF Better

-----------------------------------------------------------------------------
\* What the report makes of it

LEMMA TimesMore ==
    ASSUME NEW x \in Nat, NEW y \in Nat, NEW k \in Nat, x <= y
    PROVE  x * k <= y * k /\ x * k \in Nat /\ y * k \in Nat
OBVIOUS

LEMMA SumsMore ==
    ASSUME NEW A \in Nat, NEW A2 \in Nat, A <= A2, NEW B \in Nat, NEW B2 \in Nat, B <= B2,
           NEW C \in Nat, NEW C2 \in Nat, C <= C2, NEW w \in Int, A + B + C >= w
    PROVE  A2 + B2 + C2 >= w
OBVIOUS

LEMMA LessIsMore ==
    ASSUME NEW n \in Nat, NEW m \in Nat, NEW o \in Nat, m <= n, o <= m
    PROVE  n - m \in Nat /\ n - o \in Nat /\ n - m <= n - o
OBVIOUS

LEMMA GathersMore ==
    ASSUME NEW b \in Nat, NEW b2 \in Nat, b <= b2,
           NEW x \in Nat, NEW x2 \in Nat, x <= x2,
           NEW y \in Nat, NEW y2 \in Nat, y <= y2,
           NEW a \in Nat, NEW c \in Nat, NEW w \in Int,
           b * a * c + 3 * 20 * 100 * x * c + 3 * 20 * 100 * y * a >= w
    PROVE  b2 * a * c + 3 * 20 * 100 * x2 * c + 3 * 20 * 100 * y2 * a >= w
<1> DEFINE p == 3 * 20 * 100
<1>1. p * x \in Nat /\ p * x2 \in Nat /\ p * x <= p * x2
      /\ p * y \in Nat /\ p * y2 \in Nat /\ p * y <= p * y2
    OBVIOUS
<1>2. b * a <= b2 * a /\ b * a \in Nat /\ b2 * a \in Nat
    BY TimesMore
<1>3. b * a * c <= b2 * a * c /\ b * a * c \in Nat /\ b2 * a * c \in Nat
    BY <1>2, TimesMore
<1>4. p * x * c <= p * x2 * c /\ p * x * c \in Nat /\ p * x2 * c \in Nat
    BY <1>1, TimesMore
<1>5. p * y * a <= p * y2 * a /\ p * y * a \in Nat /\ p * y2 * a \in Nat
    BY <1>1, TimesMore
<1> DEFINE A == b * a * c
           A2 == b2 * a * c
           B == p * x * c
           B2 == p * x2 * c
           C == p * y * a
           C2 == p * y2 * a
<1>6. A + B + C >= w
    OBVIOUS
<1>7. A2 + B2 + C2 >= w
    <2> HIDE DEF A, A2, B, B2, C, C2
    <2>1. /\ A <= A2 /\ A \in Nat /\ A2 \in Nat /\ B <= B2 /\ B \in Nat /\ B2 \in Nat
          /\ C <= C2 /\ C \in Nat /\ C2 \in Nat
        BY <1>3, <1>4, <1>5 DEF A, A2, B, B2, C, C2
    <2> QED BY <1>6, <2>1, SumsMore
<1> QED BY <1>7

LEMMA ReachesStands ==
    ASSUME NEW d \in Analysed, NEW e, NoWorse(d, e), NEW percent \in Nat,
           Reaches(d, percent)
    PROVE  Reaches(e, percent)
<1> DEFINE as == Cardinality(Of(d, "assumption"))
           cs == Cardinality(Of(d, "constraint"))
           a == IF as = 0 THEN 1 ELSE as
           c == IF cs = 0 THEN 1 ELSE cs
           base(z) == 3 * 30 * EvidenceValue(z) + 15 * 100 * AlternativeThirds(z)
                      + 3 * 15 * DecisionValue(z)
           ao(z) == Cardinality(Open(z, "assumption"))
           co(z) == Cardinality(Open(z, "constraint"))
           weight == 60 + (IF as = 0 THEN 0 ELSE 20) + (IF cs = 0 THEN 0 ELSE 20)
           w == 3 * weight * a * c * percent
<1>1. /\ Of(e, "assumption") = Of(d, "assumption")
      /\ Of(e, "constraint") = Of(d, "constraint")
    BY DEF NoWorse
<1>2. as \in Nat /\ cs \in Nat /\ ao(d) \in Nat /\ co(d) \in Nat /\ ao(d) <= as /\ co(d) <= cs
    BY OfAreFinite
<1>3. ao(e) \in Nat /\ ao(e) <= ao(d) /\ co(e) \in Nat /\ co(e) <= co(d)
    <2>1. /\ IsFiniteSet(Open(d, "assumption")) /\ IsFiniteSet(Open(d, "constraint"))
        BY OfAreFinite, OfAreRecords, FS_Subset
    <2>2. /\ Open(e, "assumption") \subseteq Open(d, "assumption")
          /\ Open(e, "constraint") \subseteq Open(d, "constraint")
        BY DEF NoWorse
    <2> QED BY <2>1, <2>2, FS_Subset, FS_CardinalityType
<1>4. base(d) \in Nat /\ base(e) \in Nat /\ base(d) <= base(e)
    <2>1. /\ EvidenceValue(d) \in Nat /\ EvidenceValue(e) \in Nat
        BY DEF EvidenceValue
    <2>2. EvidenceValue(d) <= EvidenceValue(e)
        BY DEF NoWorse
    <2>3. /\ AlternativeThirds(d) \in Nat /\ AlternativeThirds(e) \in Nat
          /\ AlternativeThirds(d) <= AlternativeThirds(e)
        <3>1. Alternatives(d) \subseteq Alternatives(e) /\ IsFiniteSet(Alternatives(e))
            BY DEF NoWorse
        <3>2. /\ Cardinality(Alternatives(d)) \in Nat /\ Cardinality(Alternatives(e)) \in Nat
              /\ Cardinality(Alternatives(d)) <= Cardinality(Alternatives(e))
            BY <3>1, FS_Subset, FS_CardinalityType
        <3> QED BY <3>2 DEF AlternativeThirds
    <2>4. /\ DecisionValue(d) \in Nat /\ DecisionValue(e) \in Nat
          /\ DecisionValue(d) <= DecisionValue(e)
        <3>1. Selected(d) \subseteq Selected(e) /\ Of(e, "decision") = Of(d, "decision")
            BY DEF NoWorse
        <3> QED BY <3>1 DEF DecisionValue
    <2> QED BY <2>1, <2>2, <2>3, <2>4
<1>5. base(d) * a * c + 3 * 20 * 100 * (as - ao(d)) * c + 3 * 20 * 100 * (cs - co(d)) * a >= w
    BY DEF Reaches
<1>6. a \in Nat /\ c \in Nat /\ weight \in Nat
    BY <1>2
<1>7. w \in Int
    <2> HIDE DEF a, c, weight
    <2> QED BY <1>6
<1>8. /\ as - ao(d) \in Nat /\ as - ao(e) \in Nat /\ as - ao(d) <= as - ao(e)
      /\ cs - co(d) \in Nat /\ cs - co(e) \in Nat /\ cs - co(d) <= cs - co(e)
    <2> HIDE DEF as, cs, ao, co
    <2> QED BY <1>2, <1>3, LessIsMore
<1>9. base(e) * a * c + 3 * 20 * 100 * (as - ao(e)) * c + 3 * 20 * 100 * (cs - co(e)) * a >= w
    <2> DEFINE b == base(d)
               b2 == base(e)
               x == as - ao(d)
               x2 == as - ao(e)
               y == cs - co(d)
               y2 == cs - co(e)
    <2>1. b \in Nat /\ b2 \in Nat /\ b <= b2
        BY <1>4
    <2>2. x \in Nat /\ x2 \in Nat /\ x <= x2 /\ y \in Nat /\ y2 \in Nat /\ y <= y2
        BY <1>8
    <2>3. b * a * c + 3 * 20 * 100 * x * c + 3 * 20 * 100 * y * a >= w
        BY <1>5
    <2> HIDE DEF b, b2, x, x2, y, y2, a, c, w
    <2>4. b2 * a * c + 3 * 20 * 100 * x2 * c + 3 * 20 * 100 * y2 * a >= w
        BY <1>6, <1>7, <2>1, <2>2, <2>3, GathersMore
    <2> QED BY <2>4 DEF b2, x2, y2
<1> QED BY <1>1, <1>9 DEF Reaches

LEMMA ConfidenceStands ==
    ASSUME NEW d \in Analysed, NEW e, NoWorse(d, e)
    PROVE  Grade(Confidence(e)) >= Grade(Confidence(d))
<1>1. Of(e, "decision") = Of(d, "decision")
    BY DEF NoWorse
<1>2. (Reaches(d, 70) => Reaches(e, 70)) /\ (Reaches(d, 30) => Reaches(e, 30))
    BY ReachesStands
<1>3. /\ Grade("high") = 2 /\ Grade("moderate") = 1 /\ Grade("low") = 0
      /\ Grade("not_evaluable") = 0
    BY DEF Grade
<1>4. \A z : \/ Of(z, "decision") = {} /\ Confidence(z) = "not_evaluable"
             \/ Of(z, "decision") # {} /\ Reaches(z, 70) /\ Confidence(z) = "high"
             \/ /\ Of(z, "decision") # {} /\ ~ Reaches(z, 70) /\ Reaches(z, 30)
                /\ Confidence(z) = "moderate"
             \/ /\ Of(z, "decision") # {} /\ ~ Reaches(z, 70) /\ ~ Reaches(z, 30)
                /\ Confidence(z) = "low"
    BY Zenon DEF Confidence
<1>5. CASE Of(d, "decision") = {}
    <2>1. Confidence(d) = "not_evaluable" /\ Confidence(e) = "not_evaluable"
        BY <1>1, <1>5 DEF Confidence
    <2> QED BY <1>3, <2>1
<1>6. CASE Of(d, "decision") # {} /\ Reaches(d, 70)
    <2>1. Confidence(d) = "high" /\ Confidence(e) = "high"
        BY <1>1, <1>2, <1>6 DEF Confidence
    <2> QED BY <1>3, <2>1
<1>7. CASE Of(d, "decision") # {} /\ ~ Reaches(d, 70) /\ Reaches(d, 30)
    <2>1. Confidence(d) = "moderate" /\ Confidence(e) \in {"high", "moderate"}
        BY <1>1, <1>2, <1>7 DEF Confidence
    <2> QED BY <1>3, <2>1
<1>8. CASE Of(d, "decision") # {} /\ ~ Reaches(d, 70) /\ ~ Reaches(d, 30)
    <2>1. Confidence(d) = "low" /\ Confidence(e) \in {"high", "moderate", "low"}
        BY <1>1, <1>8 DEF Confidence
    <2> QED BY <1>3, <2>1
<1> QED BY <1>5, <1>6, <1>7, <1>8

LEMMA RanksAre ==
    /\ Rank("strong") = 3 /\ Rank("partial") = 2 /\ Rank("weak") = 1
    /\ Rank("not_applicable") = 0
BY DEF Rank

Settled10(all, n) ==
    CASE all = 0 -> "not_applicable"
      [] all > 0 /\ 10 * n >= 8 * all -> "strong"
      [] all > 0 /\ 10 * n < 8 * all /\ 10 * n >= 5 * all -> "partial"
      [] all > 0 /\ 10 * n < 5 * all -> "weak"

LEMMA SettlingStands ==
    ASSUME NEW all \in Nat, NEW x \in Nat, NEW y \in Nat, x <= y
    PROVE  Rank(Settled10(all, y)) >= Rank(Settled10(all, x))
<1>1. CASE all = 0
    BY <1>1, RanksAre DEF Settled10
<1>2. CASE all > 0 /\ 10 * x >= 8 * all
    BY <1>2, RanksAre DEF Settled10
<1>3. CASE all > 0 /\ 10 * x < 8 * all /\ 10 * x >= 5 * all
    BY <1>3, RanksAre DEF Settled10
<1>4. CASE all > 0 /\ 10 * x < 5 * all
    BY <1>4, RanksAre DEF Settled10
<1> QED BY <1>1, <1>2, <1>3, <1>4

LEMMA AssessmentStands ==
    ASSUME NEW d \in Analysed, NEW e, NEW k, Of(e, k) = Of(d, k),
           Open(e, k) \subseteq Open(d, k)
    PROVE  Rank(Assessment(e, k)) >= Rank(Assessment(d, k))
<1> DEFINE all == Cardinality(Of(d, k))
           x == all - Cardinality(Open(d, k))
           y == all - Cardinality(Open(e, k))
<1>1. all \in Nat /\ x \in Nat /\ y \in Nat /\ x <= y
    <2>1. IsFiniteSet(Open(d, k))
        BY OfAreFinite, OfAreRecords, FS_Subset
    <2>2. /\ Cardinality(Open(e, k)) \in Nat
          /\ Cardinality(Open(e, k)) <= Cardinality(Open(d, k))
        BY <2>1, FS_Subset, FS_CardinalityType
    <2> QED BY <2>2, OfAreFinite
<1>2. Assessment(d, k) = Settled10(all, x) /\ Assessment(e, k) = Settled10(all, y)
    BY DEF Assessment, Settled10
<1> HIDE DEF all, x, y
<1> QED BY <1>1, <1>2, SettlingStands

LEMMA FactorsStand ==
    ASSUME NEW d \in Analysed, NEW e, NoWorse(d, e)
    PROVE  \A f \in DOMAIN Factors(e) : Rank(Factors(e)[f]) >= Rank(Factors(d)[f])
<1>1. /\ Of(e, "assumption") = Of(d, "assumption")
      /\ Of(e, "constraint") = Of(d, "constraint")
      /\ Of(e, "decision") = Of(d, "decision")
      /\ Open(e, "assumption") \subseteq Open(d, "assumption")
      /\ Open(e, "constraint") \subseteq Open(d, "constraint")
      /\ Selected(d) \subseteq Selected(e)
      /\ EvidenceValue(d) <= EvidenceValue(e)
      /\ Alternatives(d) \subseteq Alternatives(e) /\ IsFiniteSet(Alternatives(e))
      /\ e.staged = d.staged /\ e.research = d.research
      /\ \/ e.dossier = d.dossier /\ e.lacking = d.lacking
         \/ e.dossier = "reviewed" /\ ~ e.lacking
    BY DEF NoWorse
<1>2. /\ DOMAIN Factors(e) = {"evidence", "assumptions", "constraints", "alternatives",
                              "readiness", "context"}
      /\ \A z : /\ Factors(z)["assumptions"] = Assessment(z, "assumption")
                /\ Factors(z)["constraints"] = Assessment(z, "constraint")
    BY Zenon DEF Factors
<1>3. Rank(Factors(e)["evidence"]) >= Rank(Factors(d)["evidence"])
    <2>1. EvidenceValue(d) \in 0 .. 100 /\ EvidenceValue(e) \in 0 .. 100
        BY DEF EvidenceValue
    <2>2. \A z : Factors(z)["evidence"] =
                   IF EvidenceValue(z) = 100 THEN "strong"
                   ELSE IF EvidenceValue(z) >= 55 THEN "partial" ELSE "weak"
        BY Zenon DEF Factors
    <2> QED BY <1>1, <2>1, <2>2, RanksAre
<1>4. Rank(Factors(e)["assumptions"]) >= Rank(Factors(d)["assumptions"])
    BY <1>1, <1>2, AssessmentStands
<1>5. Rank(Factors(e)["constraints"]) >= Rank(Factors(d)["constraints"])
    BY <1>1, <1>2, AssessmentStands
<1>6. Rank(Factors(e)["alternatives"]) >= Rank(Factors(d)["alternatives"])
    <2>1. AlternativesRequired(e) <=> AlternativesRequired(d)
        BY <1>1 DEF AlternativesRequired
    <2>2. /\ AlternativeThirds(d) \in 0 .. 3 /\ AlternativeThirds(e) \in 0 .. 3
          /\ AlternativeThirds(d) <= AlternativeThirds(e)
        <3>1. /\ Cardinality(Alternatives(d)) \in Nat /\ Cardinality(Alternatives(e)) \in Nat
              /\ Cardinality(Alternatives(d)) <= Cardinality(Alternatives(e))
            BY <1>1, FS_Subset, FS_CardinalityType
        <3> QED BY <3>1 DEF AlternativeThirds
    <2>3. \A z : Factors(z)["alternatives"] =
                   IF ~AlternativesRequired(z) THEN "not_applicable"
                   ELSE IF AlternativeThirds(z) = 3 THEN "strong"
                   ELSE IF AlternativeThirds(z) > 0 THEN "partial" ELSE "weak"
        BY Zenon DEF Factors
    <2> QED BY <2>1, <2>2, <2>3, RanksAre
<1>7. Rank(Factors(e)["readiness"]) >= Rank(Factors(d)["readiness"])
    <2>1. \A z : Factors(z)["readiness"] =
                   IF Selected(z) # {} THEN "strong"
                   ELSE IF Of(z, "decision") # {} THEN "partial" ELSE "not_applicable"
        BY Zenon DEF Factors
    <2> QED BY <1>1, <2>1, RanksAre
<1>8. Rank(Factors(e)["context"]) >= Rank(Factors(d)["context"])
    <2> DEFINE Context(z) ==
                  CASE ContextStatus(z) = "not_required" -> "not_applicable"
                    [] ContextStatus(z) = "not_started" -> "weak"
                    [] ContextStatus(z) \in {"preliminary", "in_review"} -> "partial"
                    [] ContextStatus(z) = "reviewed" ->
                          IF z.lacking THEN "partial" ELSE "strong"
    <2>1. \A z : Factors(z)["context"] = Context(z)
        BY Zenon DEF Factors
    <2>2. ContextStatus(d) \in {"not_required", "not_started", "preliminary", "in_review",
                                "reviewed"}
        BY DEF ContextStatus, Analysed
    <2>3. Rank(Context(d)) \in {0, 1, 2, 3}
        BY <2>2, RanksAre
    <2>4. CASE e.dossier = d.dossier /\ e.lacking = d.lacking
        <3>1. ContextStatus(e) = ContextStatus(d)
            BY <1>1, <2>4 DEF ContextStatus
        <3>2. Context(e) = Context(d)
            BY <2>4, <3>1
        <3> HIDE DEF Context
        <3> QED BY <2>1, <2>3, <3>2
    <2>5. CASE e.dossier = "reviewed" /\ ~ e.lacking
        <3>1. ContextStatus(e) = "reviewed"
            BY <2>5 DEF ContextStatus
        <3>2. Context(e) = "strong"
            BY <2>5, <3>1
        <3> HIDE DEF Context
        <3> QED BY <2>1, <2>3, <3>2, RanksAre
    <2> QED BY <1>1, <2>4, <2>5
<1> QED BY <1>2, <1>3, <1>4, <1>5, <1>6, <1>7, <1>8

LEMMA GapsStand ==
    ASSUME NEW d \in Analysed, NEW e, NoWorse(d, e)
    PROVE  /\ LacksBaseline(e) => LacksBaseline(d)
           /\ HighGaps(e) \subseteq HighGaps(d)
<1>1. LacksBaseline(e) => LacksBaseline(d)
    BY DEF NoWorse, LacksBaseline, NeedsBaseline
<1>2. AlternativesRequired(e) <=> AlternativesRequired(d)
    BY DEF NoWorse, AlternativesRequired
<1>3. e.research /\ ContextStatus(e) = "not_started"
         => d.research /\ ContextStatus(d) = "not_started"
    BY DEF NoWorse, ContextStatus
<1>4. ASSUME NEW code \in HighGaps(e) PROVE code \in HighGaps(d)
    <2>1. CASE code = "assumptions_open"
        <3>1. Open(e, "assumption") # {}
            BY <2>1 DEF HighGaps
        <3>2. Open(d, "assumption") # {}
            BY <3>1 DEF NoWorse
        <3> QED BY <2>1, <3>2 DEF HighGaps
    <2>2. CASE code = "constraints_open"
        <3>1. Open(e, "constraint") # {}
            BY <2>2 DEF HighGaps
        <3>2. Open(d, "constraint") # {}
            BY <3>1 DEF NoWorse
        <3> QED BY <2>2, <3>2 DEF HighGaps
    <2>3. CASE code = "outcome_no_baseline"
        <3>1. LacksBaseline(e) /\ Of(e, "outcome") # {}
            BY <2>3 DEF HighGaps
        <3>2. LacksBaseline(d) /\ Of(d, "outcome") # {}
            BY <1>1, <3>1 DEF NoWorse
        <3> QED BY <2>3, <3>2 DEF HighGaps
    <2>4. CASE code = "no_alternatives"
        <3>1. AlternativesRequired(e) /\ Alternatives(e) = {}
            BY <2>4 DEF HighGaps
        <3>2. AlternativesRequired(d) /\ Alternatives(d) = {}
            BY <1>2, <3>1 DEF NoWorse
        <3> QED BY <2>4, <3>2 DEF HighGaps
    <2>5. CASE code = "context_not_researched"
        <3>1. e.research /\ ContextStatus(e) = "not_started"
            BY <2>5 DEF HighGaps
        <3> QED BY <1>3, <2>5, <3>1 DEF HighGaps
    <2>6. CASE code = "refutation_review"
        <3>1. Refuted(e) # {}
            BY <2>6 DEF HighGaps
        <3>2. Refuted(d) # {}
            BY <3>1 DEF NoWorse
        <3> QED BY <2>6, <3>2 DEF HighGaps
    <2> QED BY <2>1, <2>2, <2>3, <2>4, <2>5, <2>6 DEF HighGaps
<1> QED BY <1>1, <1>4

LEMMA StatusStands ==
    ASSUME NEW d \in Analysed, NEW e, NoWorse(d, e)
    PROVE  Alarm(Status(e)) <= Alarm(Status(d))
<1>1. /\ Alarm("critical") = 2 /\ Alarm("requires_attention") = 1
      /\ Alarm("completed") = 0 /\ Alarm("on_track") = 0
    BY DEF Alarm
<1> DEFINE Critical(z) == \/ In(z, "constraint", {"violated"}) # {}
                          \/ LacksBaseline(z) /\ Of(z, "outcome") # {}
<1>2. Critical(e) => Critical(d)
    BY GapsStand DEF NoWorse
<1>3. HighGaps(e) # {} => HighGaps(d) # {}
    BY GapsStand
<1>4. \A z : \/ Critical(z) /\ Status(z) = "critical"
             \/ ~ Critical(z) /\ HighGaps(z) # {} /\ Status(z) = "requires_attention"
             \/ ~ Critical(z) /\ HighGaps(z) = {} /\ Status(z) \in {"completed", "on_track"}
    BY DEF Status
<1> HIDE DEF Critical
<1>5. \A z : \/ Critical(z) /\ Alarm(Status(z)) = 2
             \/ ~ Critical(z) /\ HighGaps(z) # {} /\ Alarm(Status(z)) = 1
             \/ ~ Critical(z) /\ HighGaps(z) = {} /\ Alarm(Status(z)) = 0
    BY <1>1, <1>4
<1> QED BY <1>2, <1>3, <1>5

\* Of what is due the first three are told.
DueSteps == {"baseline", "context", "constraints", "assumptions", "alternatives"}

LEMMA FirstOfSome ==
    ASSUME NEW T, NEW s \in Seq(T), s # << >>
    PROVE  SubSeq(s, 1, IF Len(s) > 3 THEN 3 ELSE Len(s))[1] \in T
<1>1. Len(s) \in Nat \ {0} /\ s[1] \in T
    BY EmptySeq
<1> DEFINE n == IF Len(s) > 3 THEN 3 ELSE Len(s)
<1>2. n \in 1 .. Len(s)
    BY <1>1
<1> HIDE DEF n
<1>3. SubSeq(s, 1, n)[1] = s[1]
    BY <1>1, <1>2, SubSeqProperties
<1> QED BY <1>1, <1>3 DEF n

LEMMA EmptyTogether ==
    ASSUME NEW T, NEW s \in Seq(T), NEW t \in Seq(T), s \o t = << >>
    PROVE  s = << >> /\ t = << >>
<1>1. Len(s) + Len(t) = 0 /\ Len(s) \in Nat /\ Len(t) \in Nat
    BY ConcatProperties
<1> QED BY <1>1, EmptySeq

LEMMA OnlyAReview ==
    ASSUME NEW d, NextSteps(d) = <<"review">>
    PROVE  \A step \in DueSteps : ~ Due(d, step)
<1> DEFINE A == IfDue(d, "baseline")
           B == IfDue(d, "context")
           C == IfDue(d, "constraints")
           D == IfDue(d, "assumptions")
           E == IfDue(d, "alternatives")
           due == A \o B \o C \o D \o E
<1>1. ASSUME NEW step \in DueSteps
      PROVE  IfDue(d, step) \in Seq(DueSteps) /\ (IfDue(d, step) = << >> => ~ Due(d, step))
    BY DEF IfDue
<1>2. A \in Seq(DueSteps) /\ B \in Seq(DueSteps) /\ C \in Seq(DueSteps) /\ D \in Seq(DueSteps)
      /\ E \in Seq(DueSteps)
    BY <1>1 DEF DueSteps
<1>3. /\ A \o B \in Seq(DueSteps) /\ A \o B \o C \in Seq(DueSteps)
      /\ A \o B \o C \o D \in Seq(DueSteps) /\ due \in Seq(DueSteps)
    <2> HIDE DEF A, B, C, D, E
    <2>1. \A s, t \in Seq(DueSteps) : s \o t \in Seq(DueSteps)
        BY ConcatProperties
    <2> QED BY <1>2, <2>1
<1>4. due = << >>
    <2> SUFFICES ASSUME due # << >> PROVE FALSE
        OBVIOUS
    <2>1. NextSteps(d) = SubSeq(due, 1, IF Len(due) > 3 THEN 3 ELSE Len(due))
        BY DEF NextSteps
    <2> HIDE DEF due
    <2>2. NextSteps(d)[1] \in DueSteps
        BY <1>3, <2>1, FirstOfSome
    <2>3. <<"review">>[1] = "review"
        OBVIOUS
    <2> QED BY <2>2, <2>3 DEF DueSteps
<1>5. A = << >> /\ B = << >> /\ C = << >> /\ D = << >> /\ E = << >>
    <2> HIDE DEF A, B, C, D, E
    <2>1. A \o B \o C \o D = << >> /\ E = << >>
        BY <1>2, <1>3, <1>4, EmptyTogether
    <2>2. A \o B \o C = << >> /\ D = << >>
        BY <1>2, <1>3, <2>1, EmptyTogether
    <2>3. A \o B = << >> /\ C = << >>
        BY <1>2, <1>3, <2>2, EmptyTogether
    <2> QED BY <1>2, <2>1, <2>2, <2>3, EmptyTogether
<1> QED BY <1>1, <1>5 DEF DueSteps

LEMMA NothingGraveUnsaid ==
    ASSUME NEW d, NextSteps(d) = <<"review">>
    PROVE  HighGaps(d) \subseteq {"refutation_review", "outcome_no_baseline"}
<1>1. \A step \in DueSteps : ~ Due(d, step)
    BY OnlyAReview
<1>2. Open(d, "constraint") = {}
    BY <1>1 DEF DueSteps, Due
<1>3. Open(d, "assumption") = {}
    BY <1>1 DEF DueSteps, Due
<1>4. ~ (AlternativesRequired(d) /\ Alternatives(d) = {})
    BY <1>1 DEF DueSteps, Due
<1>5. ~ (d.research /\ ContextStatus(d) = "not_started")
    BY <1>1 DEF DueSteps, Due
<1> QED BY <1>2, <1>3, <1>4, <1>5 DEF HighGaps

-----------------------------------------------------------------------------
\* Whatever the document: what a refutation puts up for review is what lies
\* within ReviewDepth relations of it, whichever path the search took first; a
\* record that became better is not told the worse for it; and a report that
\* asks for a review only leaves nothing grave unsaid (analyze_mission).
THEOREM ReportsStaySound == ReportSpec => []ReportsAreSound
<1>1. ReportInv => ReportsAreSound
    <2> SUFFICES ASSUME ReportInv, report # NoReport PROVE ReportsAreSound
        BY DEF ReportsAreSound
    <2> DEFINE d == document
    <2>1. d \in Analysed /\ report = FullReport(d)
        BY DEF ReportInv
    <2>2. /\ report.status = Status(d) /\ report.confidence = Confidence(d)
          /\ report.factors = Factors(d) /\ report.high = HighGaps(d)
          /\ report.next = NextSteps(d) /\ report.affected = Downstream(d)
        BY <2>1 DEF FullReport
    <2>3. \A e \in Better(d) : NoWorse(d, e)
        BY <2>1, BetterIsNoWorse
    <2>4. ASSUME NEW e \in Better(d)
          PROVE  /\ Grade(Confidence(e)) >= Grade(report.confidence)
                 /\ \A f \in DOMAIN Factors(e) :
                       Rank(Factors(e)[f]) >= Rank(report.factors[f])
                 /\ Alarm(Status(e)) <= Alarm(report.status)
                 /\ HighGaps(e) \subseteq report.high
        <3>1. NoWorse(d, e)
            BY <2>3
        <3>2. Grade(Confidence(e)) >= Grade(Confidence(d))
            BY <2>1, <3>1, ConfidenceStands
        <3>3. \A f \in DOMAIN Factors(e) : Rank(Factors(e)[f]) >= Rank(Factors(d)[f])
            BY <2>1, <3>1, FactorsStand
        <3>4. Alarm(Status(e)) <= Alarm(Status(d))
            BY <2>1, <3>1, StatusStands
        <3>5. HighGaps(e) \subseteq HighGaps(d)
            BY <2>1, <3>1, GapsStand
        <3> QED BY <2>2, <3>2, <3>3, <3>4, <3>5
    <2>5. report.next = <<"review">> =>
             report.high \subseteq {"refutation_review", "outcome_no_baseline"}
        BY <2>2, NothingGraveUnsaid
    <2> QED BY Zenon, <2>2, <2>4, <2>5 DEF ReportsAreSound
<1> QED BY <1>1, ReportInvariant, PTL

\* What is queued has been reached and lies no farther than ReviewDepth, what is
\* reached are records of the document, and the status is one of the four.
THEOREM ReportsKeepTheirTypes == ReportSpec => []ReportTypes
<1>1. ReportInv => ReportTypes
    <2> SUFFICES ASSUME ReportInv PROVE ReportTypes
        OBVIOUS
    <2>1. /\ visited \subseteq DOMAIN document.records
          /\ \A i \in DOMAIN queue :
                queue[i].id \in visited /\ queue[i].depth \in 0 .. ReviewDepth
        <3>1. CASE visited # {}
            <4>1. SearchInv(document, queue, visited)
                BY <3>1 DEF ReportInv
            <4>2. visited \subseteq Spread(document)[ReviewDepth]
                  /\ queue \in Seq(Places(document))
                  /\ \A i \in DOMAIN queue : queue[i].id \in visited
                BY <4>1 DEF SearchInv
            <4>3. ReviewDepth \in 0 .. ReviewDepth
                BY ReportAssumption
            <4>4. \A i \in DOMAIN queue : queue[i] \in Places(document)
                BY <4>2
            <4>5. \A p \in Places(document) : p.depth \in 0 .. ReviewDepth
                BY DEF Places
            <4> QED BY <4>2, <4>3, <4>4, <4>5, SpreadSteps
        <3>2. CASE visited = {}
            <4>1. queue = << >>
                BY <3>2 DEF ReportInv
            <4> QED BY <3>2, <4>1
        <3> QED BY <3>1, <3>2
    <2>2. report.status \in {"none", "on_track", "completed", "requires_attention",
                             "critical"}
        <3>1. CASE report = NoReport
            BY <3>1 DEF NoReport
        <3>2. CASE report # NoReport
            <4>1. report.status = Status(document)
                BY <3>2 DEF ReportInv, FullReport
            <4> QED BY <4>1 DEF Status
        <3> QED BY <3>1, <3>2
    <2> QED BY <2>1, <2>2 DEF ReportTypes
<1> QED BY <1>1, ReportInvariant, PTL

-----------------------------------------------------------------------------
(***************************************************************************)
(* The parts together.  They share no variable: a step of one leaves the   *)
(* others as they are, so that each runs by its own specification.         *)
(***************************************************************************)

LEMMA MissionsRunTheirParts == KnowledgeSpec => InheritSpec /\ MemorySpec /\ ViewsSpec
<1>1. KnowledgeInit => InheritInit /\ MemoryInit /\ ViewsInit
    BY DEF KnowledgeInit
<1>2. [KnowledgeNext]_<<part, inheritVars, memoryVars, learningViewVars, workflowVars,
                        guidedVars, reportVars>> =>
            [InheritNext]_inheritVars /\ [MemoryNext]_memoryVars /\ [ViewsNext]_learningViewVars
    BY DEF KnowledgeNext
<1> QED BY <1>1, <1>2, PTL DEF KnowledgeSpec, InheritSpec, MemorySpec, ViewsSpec

LEMMA RequestsRunTheirParts == KnowledgeSpec => WorkflowSpec /\ GuidedSpec /\ ReportSpec
<1>1. KnowledgeInit => WorkflowInit /\ GuidedInit /\ ReportInit
    BY DEF KnowledgeInit
<1>2. [KnowledgeNext]_<<part, inheritVars, memoryVars, learningViewVars, workflowVars,
                        guidedVars, reportVars>> =>
            [WorkflowNext]_workflowVars /\ [GuidedNext]_guidedVars /\ [ReportNext]_reportVars
    BY DEF KnowledgeNext
<1> QED BY <1>1, <1>2, PTL DEF KnowledgeSpec, WorkflowSpec, GuidedSpec, ReportSpec

\* Every part of what an organisation keeps has its types, whatever its missions,
\* requests and records: copies came through one mission, relations and items are
\* of records there are, debts are percentages, the repository's history is of
\* the lifecycle's steps, and no reuses are counted beyond the requests there are.
THEOREM KnowledgeKeepsItsTypes == IsFiniteSet(Visits) /\ KnowledgeSpec => []KnowledgeTypes
<1> SUFFICES ASSUME IsFiniteSet(Visits) PROVE KnowledgeSpec => []KnowledgeTypes
    OBVIOUS
<1>1. GuidedSpec => []GuidedTypes
    BY SessionsKeepTheirTypes
<1> QED BY <1>1, MissionsRunTheirParts, RequestsRunTheirParts, InheritanceKeepsItsTypes,
           MemoryKeepsItsTypes, ViewsKeepTheirTypes, WorkflowKeepsItsTypes,
           ReportsKeepTheirTypes, PTL DEF KnowledgeTypes

\* What each part promises holds of all of them together.
THEOREM KnowledgeStands ==
    KnowledgeSpec =>
        /\ InheritanceIsKept /\ []ItemsShowTheirRevision /\ ViewsAreSound
        /\ []AssetsAreWhatWasReviewed /\ []SessionsAreFaithful /\ []ReportsAreSound
BY MissionsRunTheirParts, RequestsRunTheirParts, InheritanceStands, MemoryShowsItsRevisions,
   ViewsStaySound, AssetsStayReviewed, SessionsStayFaithful, ReportsStaySound, PTL
=============================================================================
