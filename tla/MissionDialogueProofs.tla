------------------------ MODULE MissionDialogueProofs ------------------------
(***************************************************************************)
(* For any number of requests, snapshots and attachments: the turns of a   *)
(* session are numbered without gaps, analyse the snapshot the session was *)
(* opened on, and were told a beginning of the dialogue.  The inductive    *)
(* invariant says what a handler holds at each stage, that the session row *)
(* is locked exactly while a turn is being stored, and that there are as   *)
(* many turns as requests that ended with one, which bounds the numbers.   *)
(*                                                                         *)
(* And for any mission, weights of records and lengths of dialogues: what  *)
(* the last answers rested upon stays before the provider.                 *)
(*                                                                         *)
(* And for any archive, profiles and limits: what a turn's user selected   *)
(* is in every request sent for it.  The ranking is a strict total order,  *)
(* so its places are filled without gaps; each text selected leads with    *)
(* its best excerpt, and only another selected text's leader precedes it.  *)
(*                                                                         *)
(* And for answers of any length: a repaired answer meets the contract and *)
(* promotes nothing, and one that is returned is as confident as its       *)
(* support allows.  The invariant is that the review works on nothing or   *)
(* on the repair of the answer that arrived, calibrated once it is past    *)
(* the ceiling.                                                            *)
(*                                                                         *)
(* And for any archive, texts and number of requests: the index of a       *)
(* source is empty or whole, excerpts lose nothing of a text, a ruling has *)
(* one author and the next prompt is told the newest rulings that fit.     *)
(*                                                                         *)
(* The parts share no variable, so all of it holds of them together.       *)
(***************************************************************************)
EXTENDS MCTurns, FiniteSetTheorems, WellFoundedInduction, SequenceTheorems, TLAPS

\* The turns S are numbered 1 .. Cardinality(S), each once.
Numbered(S) ==
    /\ IsFiniteSet(S)
    /\ { t.sequence : t \in S } = 1 .. Cardinality(S)
    /\ \A t, u \in S : t.sequence = u.sequence => t = u

\* The answered turns of S up to number n.
UpTo(S, n) == { u.sequence : u \in { u \in S : u.answered /\ u.sequence <= n } }

AsManyTurnsAsStored ==
    /\ IsFiniteSet(turns)
    /\ Cardinality(turns) = Cardinality({ h \in Handlers : pc[h] = "done" })

IdleHandlersOpenedNothing ==
    \A h \in Handlers : pc[h] = "idle" => session[h] = NoSnapshot

LockedWhileStoring ==
    \A s, h \in Handlers :
        lock[s] = h <=> pc[h] = "storing" /\ ctx[h].session = s

Underway == {"asking", "settled", "storing"}

Holds(h) ==
    LET c == ctx[h]
    IN  /\ pc[h] \in Working =>
            /\ c.session \in Handlers
            /\ c.document \in Snapshots
            /\ c.document = session[c.session]
        /\ pc[h] \in Working \ {"opened"} => c.snapshot \in Snapshots
        /\ pc[h] \in Underway =>
            \E n \in 0 .. Cardinality(TurnsOf(c.session)) :
                c.history = UpTo(TurnsOf(c.session), n)
        /\ pc[h] = "storing" =>
            c.sequence = Cardinality(TurnsOf(c.session)) + 1

HandlersHoldTheirTurn == \A h \in Handlers : Holds(h)

Inv ==
    /\ TypeOK
    /\ \A s \in Handlers : Numbered(TurnsOf(s))
    /\ HistoryIsABeginning
    /\ TurnsAnalyseOneSnapshot
    /\ AsManyTurnsAsStored
    /\ IdleHandlersOpenedNothing
    /\ LockedWhileStoring
    /\ HandlersHoldTheirTurn

-----------------------------------------------------------------------------

\* One more turn, with the next number, leaves a session numbered.
LEMMA OneMore ==
    ASSUME NEW S, Numbered(S), NEW t, t.sequence = Cardinality(S) + 1
    PROVE  /\ Cardinality(S \cup {t}) = Cardinality(S) + 1
           /\ Numbered(S \cup {t})
           /\ \A n \in 0 .. Cardinality(S) : UpTo(S \cup {t}, n) = UpTo(S, n)
<1> DEFINE N == Cardinality(S)
<1>1. N \in Nat
  BY FS_CardinalityType DEF Numbered
<1>2. \A u \in S : u.sequence \in 1 .. N
  BY DEF Numbered
<1>3. t \notin S
  BY <1>1, <1>2
<1>4. IsFiniteSet(S \cup {t}) /\ Cardinality(S \cup {t}) = N + 1
  BY <1>3, FS_AddElement DEF Numbered
<1>5. { u.sequence : u \in S \cup {t} } = 1 .. N + 1
  <2>1. { u.sequence : u \in S \cup {t} } = { u.sequence : u \in S } \cup {N + 1}
    OBVIOUS
  <2>2. { u.sequence : u \in S } = 1 .. N
    BY DEF Numbered
  <2>3. (1 .. N) \cup {N + 1} = 1 .. N + 1
    BY <1>1
  <2> QED
    BY <2>1, <2>2, <2>3
<1>6. \A u, v \in S \cup {t} : u.sequence = v.sequence => u = v
  BY <1>1, <1>2 DEF Numbered
<1>7. \A n \in 0 .. N : UpTo(S \cup {t}, n) = UpTo(S, n)
  <2> SUFFICES ASSUME NEW n \in 0 .. N PROVE UpTo(S \cup {t}, n) = UpTo(S, n)
    OBVIOUS
  <2>1. ~ (t.sequence <= n)
    BY <1>1
  <2>2. { u \in S \cup {t} : u.answered /\ u.sequence <= n }
          = { u \in S : u.answered /\ u.sequence <= n }
    BY <2>1
  <2> QED
    BY <2>2 DEF UpTo
<1> QED
  BY <1>4, <1>5, <1>6, <1>7 DEF Numbered

\* The query for the number of a turn finds the next one.
LEMMA NextNumber ==
    ASSUME NEW s, Numbered(TurnsOf(s))
    PROVE  NextSequence(s) = Cardinality(TurnsOf(s)) + 1
<1> DEFINE S == TurnsOf(s)
           N == Cardinality(S)
           Successors == { t.sequence + 1 : t \in S }
<1>1. N \in Nat
  BY FS_CardinalityType DEF Numbered
<1>2. CASE S = {}
  BY <1>2, FS_EmptySet DEF NextSequence
<1>3. CASE S # {}
  <2>1. N # 0
    BY <1>3, FS_EmptySet DEF Numbered
  <2>2. N \in { t.sequence : t \in S }
    BY <1>1, <2>1 DEF Numbered
  <2>3. N + 1 \in Successors /\ \A t \in S : t.sequence < N + 1
    <3>1. \A t \in S : t.sequence \in 1 .. N
      BY DEF Numbered
    <3> QED
      BY <1>1, <2>2, <3>1
  <2>4. ASSUME NEW n \in Successors, \A t \in S : t.sequence < n
        PROVE  n = N + 1
    <3>1. PICK t \in S : n = t.sequence + 1
      OBVIOUS
    <3>2. t.sequence \in 1 .. N
      BY DEF Numbered
    <3>3. N < n
      BY <2>2, <2>4
    <3> QED
      BY <1>1, <3>1, <3>2, <3>3
  <2>5. (CHOOSE n \in Successors : \A t \in S : t.sequence < n) = N + 1
    BY <2>3, <2>4
  <2> QED
    BY <1>3, <2>5 DEF NextSequence
<1> QED
  BY <1>2, <1>3

\* A session has no more turns than there are, and no more than requests that
\* ended: a request still at work leaves a number for its turn.
LEMMA NumbersSuffice ==
    ASSUME Inv, NEW s \in Handlers, NEW h \in Handlers, pc[h] # "done"
    PROVE  Cardinality(TurnsOf(s)) + 1 \in Numbers
<1> DEFINE Done == { g \in Handlers : pc[g] = "done" }
<1>1. IsFiniteSet(Handlers) /\ Cardinality(Handlers) \in Nat
  BY DialogueAssumption, FS_CardinalityType
<1>2. IsFiniteSet(Done) /\ Cardinality(Done) \in Nat
  BY <1>1, FS_Subset, FS_CardinalityType
<1>3. Cardinality(Done) + 1 <= Cardinality(Handlers)
  <2>1. Done \cup {h} \in SUBSET Handlers /\ h \notin Done
    OBVIOUS
  <2>2. Cardinality(Done \cup {h}) = Cardinality(Done) + 1
    BY <1>2, <2>1, FS_AddElement
  <2> QED
    BY <1>1, <2>1, <2>2, FS_Subset
<1>4. /\ Cardinality(TurnsOf(s)) \in Nat
      /\ Cardinality(TurnsOf(s)) <= Cardinality(turns)
  <2>1. IsFiniteSet(turns) /\ TurnsOf(s) \in SUBSET turns
    BY DEF Inv, AsManyTurnsAsStored, TurnsOf
  <2> QED
    BY <2>1, FS_Subset, FS_CardinalityType
<1>5. Cardinality(turns) = Cardinality(Done)
  BY DEF Inv, AsManyTurnsAsStored
<1> QED
  BY <1>1, <1>2, <1>3, <1>4, <1>5 DEF Numbers

-----------------------------------------------------------------------------
(***************************************************************************)
(* What a step of one handler leaves alone.                                *)
(***************************************************************************)

\* Without a new turn or session, what is stored stays in order.
LEMMA TurnsStand ==
    ASSUME Inv, UNCHANGED <<turns, session>>
    PROVE  /\ \A s \in Handlers : Numbered(TurnsOf(s))'
           /\ HistoryIsABeginning'
           /\ TurnsAnalyseOneSnapshot'
<1>1. \A s : TurnsOf(s)' = TurnsOf(s)
  BY DEF TurnsOf
<1>2. \A s \in Handlers : Numbered(TurnsOf(s))'
  BY <1>1 DEF Inv, Numbered
<1>3. HistoryIsABeginning'
  BY <1>1 DEF Inv, HistoryIsABeginning
<1>4. TurnsAnalyseOneSnapshot'
  BY DEF Inv, TurnsAnalyseOneSnapshot
<1> QED
  BY <1>2, <1>3, <1>4

\* A handler whose stage and turn do not change still holds it.
LEMMA StillHolds ==
    ASSUME NEW g \in Handlers, Holds(g), UNCHANGED turns,
           pc'[g] = pc[g], ctx'[g] = ctx[g],
           pc[g] \in Working => session'[ctx[g].session] = session[ctx[g].session]
    PROVE  Holds(g)'
<1>1. TurnsOf(ctx[g].session)' = TurnsOf(ctx[g].session)
  BY DEF TurnsOf
<1> QED
  BY <1>1 DEF Holds, Working, Underway

\* A step that stores nothing leaves the turns as many as the ends.
LEMMA StillAsMany ==
    ASSUME AsManyTurnsAsStored, UNCHANGED turns, NEW h \in Handlers, NEW to,
           pc \in [Handlers -> Working \cup Ended \cup {"idle"}],
           pc[h] # "done", to # "done", pc' = [pc EXCEPT ![h] = to]
    PROVE  AsManyTurnsAsStored'
<1>1. { g \in Handlers : pc'[g] = "done" } = { g \in Handlers : pc[g] = "done" }
  OBVIOUS
<1> QED
  BY <1>1 DEF AsManyTurnsAsStored

\* A step of one handler that changes its stage and its turn, and nothing else
\* of the sessions, keeps the invariant if it keeps it for that handler.
LEMMA OneHandler ==
    ASSUME Inv, NEW h \in Handlers, NEW to, NEW c,
           UNCHANGED <<session, turns, lock>>,
           pc' = [pc EXCEPT ![h] = to], ctx' = [ctx EXCEPT ![h] = c],
           pc[h] \notin {"done", "storing"}, to \notin {"done", "storing", "idle"},
           TypeOK', Holds(h)'
    PROVE  Inv'
<1> USE DEF Inv
<1>1. pc \in [Handlers -> Working \cup Ended \cup {"idle"}] /\ ctx \in [Handlers -> Context]
  BY DEF TypeOK
<1>2. AsManyTurnsAsStored'
  BY <1>1, StillAsMany
<1>3. IdleHandlersOpenedNothing'
  BY <1>1 DEF IdleHandlersOpenedNothing
<1>4. LockedWhileStoring'
  BY <1>1 DEF LockedWhileStoring
<1>5. HandlersHoldTheirTurn'
  <2> SUFFICES ASSUME NEW g \in Handlers, g # h PROVE Holds(g)'
    BY DEF HandlersHoldTheirTurn
  <2>1. pc'[g] = pc[g] /\ ctx'[g] = ctx[g]
    BY <1>1
  <2> QED
    BY <2>1, StillHolds DEF HandlersHoldTheirTurn
<1> QED
  BY <1>2, <1>3, <1>4, <1>5, TurnsStand

-----------------------------------------------------------------------------
(***************************************************************************)
(* One lemma for each step of a handler.                                   *)
(***************************************************************************)

LEMMA NoContextType == NoContext \in Context
BY DEF NoContext, Context

\* A first turn opens a session of its own, which no other handler is in.
LEMMA OpenStep ==
    ASSUME Inv, NEW h \in Handlers, NEW d \in Snapshots, Open(h, d)
    PROVE  Inv'
<1> USE DEF Inv, Open, Goto
<1> DEFINE n == [NoContext EXCEPT !.session = h, !.document = d]
<1>1. n \in Context /\ n.session = h /\ n.document = d
  BY DEF NoContext, Context
<1>2. /\ ctx'[h] = n /\ ctx' = [ctx EXCEPT ![h] = n]
      /\ pc'[h] = "opened" /\ session'[h] = d
  BY DEF TypeOK
<1>3. \A g \in Handlers \ {h} : ctx'[g] = ctx[g] /\ pc'[g] = pc[g] /\ session'[g] = session[g]
  BY DEF TypeOK
<1>4. session[h] = NoSnapshot /\ NoSnapshot \notin Snapshots
  BY DialogueAssumption DEF IdleHandlersOpenedNothing
<1> HIDE DEF n
<1>5. TypeOK'
  BY <1>1, <1>2 DEF TypeOK, Working
<1>6. \A s : TurnsOf(s)' = TurnsOf(s)
  BY DEF TurnsOf
<1>7. (\A s \in Handlers : Numbered(TurnsOf(s)))' /\ HistoryIsABeginning'
  BY <1>6 DEF Numbered, HistoryIsABeginning
<1>8. TurnsAnalyseOneSnapshot'
  <2> SUFFICES ASSUME NEW t \in turns PROVE t.document = session'[t.session]
    BY DEF TurnsAnalyseOneSnapshot
  <2>1. t.session \in Handlers /\ t.document \in Snapshots
    BY DEF TypeOK, TurnRecord
  <2>2. t.document = session[t.session]
    BY DEF TurnsAnalyseOneSnapshot
  <2> QED
    BY <1>3, <1>4, <2>1, <2>2
<1>9. AsManyTurnsAsStored'
  BY StillAsMany DEF TypeOK
<1>10. IdleHandlersOpenedNothing'
  BY <1>2, <1>3 DEF IdleHandlersOpenedNothing
<1>11. LockedWhileStoring'
  BY <1>2, <1>3 DEF LockedWhileStoring
<1>12. HandlersHoldTheirTurn'
  <2>1. Holds(h)'
    BY <1>1, <1>2 DEF Holds, Working, Underway
  <2>2. ASSUME NEW g \in Handlers \ {h} PROVE Holds(g)'
    <3>1. pc[g] \in Working => ctx[g].session \in Handlers /\ session[ctx[g].session] \in Snapshots
      BY DEF HandlersHoldTheirTurn, Holds
    <3>2. pc[g] \in Working => session'[ctx[g].session] = session[ctx[g].session]
      BY <1>3, <1>4, <3>1
    <3> QED
      BY <1>3, <3>2, StillHolds DEF HandlersHoldTheirTurn
  <2> QED
    BY <2>1, <2>2 DEF HandlersHoldTheirTurn
<1> QED
  BY <1>5, <1>7, <1>8, <1>9, <1>10, <1>11, <1>12

\* A further turn takes the document its session was opened on.
LEMMA ResumeStep ==
    ASSUME Inv, NEW h \in Handlers, NEW s \in Handlers, Resume(h, s)
    PROVE  Inv'
<1> USE DEF Inv, Resume, Goto
<1> DEFINE n == [NoContext EXCEPT !.session = s, !.document = mission]
<1>1. n \in Context /\ n.session = s /\ n.document = mission
  BY DEF NoContext, Context, TypeOK
<1>2. ctx'[h] = n /\ pc'[h] = "opened" /\ session'[s] = mission /\ mission \in Snapshots
  BY DEF TypeOK, SnapshotStands
<1>3. ctx' = [ctx EXCEPT ![h] = n]
  OBVIOUS
<1> HIDE DEF n
<1>4. TypeOK'
  BY <1>1, <1>3 DEF TypeOK, Working
<1>5. Holds(h)'
  BY <1>1, <1>2 DEF Holds, Working, Underway
<1> QED
  BY <1>3, <1>4, <1>5, OneHandler

LEMMA RefuseResumeStep ==
    ASSUME Inv, NEW h \in Handlers, RefuseResume(h)
    PROVE  Inv'
<1> USE DEF Inv, RefuseResume, Goto
<1>1. TypeOK' /\ ctx' = [ctx EXCEPT ![h] = ctx[h]] /\ pc'[h] = "refused"
  BY DEF TypeOK, Ended
<1>2. Holds(h)'
  BY <1>1 DEF Holds, Working, Underway
<1> QED
  BY <1>1, <1>2, OneHandler

LEMMA RefreshStep ==
    ASSUME Inv, NEW h \in Handlers, Refresh(h)
    PROVE  Inv'
<1> USE DEF Inv, Refresh, Goto
<1> DEFINE n == [ctx[h] EXCEPT !.snapshot = mission]
<1>1. /\ n \in Context /\ n.snapshot \in Snapshots
      /\ n.session = ctx[h].session /\ n.document = ctx[h].document
  BY DEF TypeOK, Context
<1>2. ctx'[h] = n /\ pc'[h] = "refreshed" /\ ctx' = [ctx EXCEPT ![h] = n]
  BY DEF TypeOK
<1> HIDE DEF n
<1>3. TypeOK'
  BY <1>1, <1>2 DEF TypeOK, Working
<1>4. Holds(h)'
  BY <1>1, <1>2 DEF HandlersHoldTheirTurn, Holds, Working, Underway
<1> QED
  BY <1>2, <1>3, <1>4, OneHandler

\* The turns read are all those of the session, up to the last.
LEMMA GatherStep ==
    ASSUME Inv, NEW h \in Handlers, NEW chosen \in SUBSET Attachments, Gather(h, chosen)
    PROVE  Inv'
<1> USE DEF Inv, Gather, Goto
<1> DEFINE s == ctx[h].session
           S == TurnsOf(s)
           n == [ctx[h] EXCEPT !.history = History(s), !.files = chosen]
<1>1. s \in Handlers /\ ctx[h].document = session[s] /\ ctx[h].document \in Snapshots
      /\ ctx[h].snapshot \in Snapshots
  BY DEF HandlersHoldTheirTurn, Holds, Working
<1>2. History(s) \in SUBSET Numbers
  BY DEF History, TurnsOf, TypeOK, TurnRecord
<1>3. History(s) = UpTo(S, Cardinality(S))
  <2>1. \A t \in S : t.sequence <= Cardinality(S)
    BY <1>1, FS_CardinalityType DEF Numbered
  <2> QED
    BY <2>1 DEF History, UpTo
<1>4. Cardinality(S) \in 0 .. Cardinality(S)
  BY <1>1, FS_CardinalityType DEF Numbered
<1>5. /\ n \in Context /\ n.snapshot = ctx[h].snapshot /\ n.session = s
      /\ n.document = ctx[h].document /\ n.history = History(s)
  BY <1>2 DEF TypeOK, Context
<1>6. ctx'[h] = n /\ pc'[h] = "asking" /\ ctx' = [ctx EXCEPT ![h] = n]
  BY DEF TypeOK
<1>7. TurnsOf(ctx[h].session)' = S
  BY <1>5, <1>6 DEF TurnsOf
<1> HIDE DEF n, S
<1>8. TypeOK'
  BY <1>5, <1>6 DEF TypeOK, Working
<1>9. Holds(h)'
  BY <1>1, <1>3, <1>4, <1>5, <1>6, <1>7 DEF Holds
<1> QED
  BY <1>6, <1>8, <1>9, OneHandler

LEMMA AnswerStep ==
    ASSUME Inv, NEW h \in Handlers, NEW answered \in BOOLEAN, Answer(h, answered)
    PROVE  Inv'
<1> USE DEF Inv, Answer, Goto
<1> DEFINE n == [ctx[h] EXCEPT !.answered = answered]
<1>1. /\ n \in Context /\ n.snapshot = ctx[h].snapshot /\ n.session = ctx[h].session
      /\ n.document = ctx[h].document /\ n.history = ctx[h].history
  BY DEF TypeOK, Context
<1>2. ctx'[h] = n /\ pc'[h] = "settled" /\ ctx' = [ctx EXCEPT ![h] = n]
  BY DEF TypeOK
<1> HIDE DEF n
<1>3. TypeOK'
  BY <1>1, <1>2 DEF TypeOK, Working
<1>4. TurnsOf(ctx[h].session)' = TurnsOf(ctx[h].session)
  BY <1>1, <1>2 DEF TurnsOf
<1>5. Holds(h)'
  BY <1>1, <1>2, <1>4 DEF HandlersHoldTheirTurn, Holds, Working, Underway
<1> QED
  BY <1>2, <1>3, <1>5, OneHandler

LEMMA RefuseStep ==
    ASSUME Inv, NEW h \in Handlers, Refuse(h)
    PROVE  Inv'
<1> USE DEF Inv, Refuse, Goto, Forgotten
<1>1. TypeOK'
  BY NoContextType DEF TypeOK, Ended
<1>2. pc' = [pc EXCEPT ![h] = "refused"] /\ pc'[h] = "refused"
  BY DEF TypeOK
<1>3. Holds(h)'
  BY <1>2 DEF Holds, Working, Underway
<1>4. pc[h] \notin {"done", "storing"}
  OBVIOUS
<1> QED
  BY <1>1, <1>2, <1>3, <1>4, OneHandler

\* The number is the next one, and there is one left for it.
LEMMA NumberStep ==
    ASSUME Inv, NEW h \in Handlers, Number(h)
    PROVE  Inv'
<1> USE DEF Inv, Number, Goto
<1> DEFINE s == ctx[h].session
           n == [ctx[h] EXCEPT !.sequence = NextSequence(s)]
<1>1. s \in Handlers
  BY DEF HandlersHoldTheirTurn, Holds, Working
<1>2. NextSequence(s) = Cardinality(TurnsOf(s)) + 1 /\ NextSequence(s) \in Numbers
  BY <1>1, NextNumber, NumbersSuffice
<1>3. /\ n \in Context /\ n.snapshot = ctx[h].snapshot /\ n.session = s
      /\ n.document = ctx[h].document /\ n.history = ctx[h].history
      /\ n.sequence = NextSequence(s)
  BY <1>2 DEF TypeOK, Context
<1>4. /\ ctx'[h] = n /\ pc'[h] = "storing"
      /\ ctx' = [ctx EXCEPT ![h] = n] /\ pc' = [pc EXCEPT ![h] = "storing"]
      /\ lock' = [lock EXCEPT ![s] = h] /\ lock[s] = Nobody
  BY DEF TypeOK, Free
<1> HIDE DEF n
<1>5. TypeOK'
  BY <1>3, <1>4 DEF TypeOK, Working
<1>6. TurnsOf(ctx[h].session)' = TurnsOf(ctx[h].session)
  BY <1>3, <1>4 DEF TurnsOf
<1>7. Holds(h)'
  BY <1>2, <1>3, <1>4, <1>6 DEF HandlersHoldTheirTurn, Holds, Working, Underway
<1>8. AsManyTurnsAsStored'
  BY StillAsMany DEF TypeOK
<1>9. IdleHandlersOpenedNothing'
  BY DEF IdleHandlersOpenedNothing, TypeOK
<1>10. \A g \in Handlers \ {h} : ctx'[g] = ctx[g] /\ pc'[g] = pc[g]
  BY <1>4 DEF TypeOK
<1>11. LockedWhileStoring'
  <2> SUFFICES ASSUME NEW r \in Handlers, NEW g \in Handlers
               PROVE  lock'[r] = g <=> pc'[g] = "storing" /\ ctx'[g].session = r
    BY DEF LockedWhileStoring
  <2>1. lock[r] = g <=> pc[g] = "storing" /\ ctx[g].session = r
    BY DEF LockedWhileStoring
  <2>2. CASE r = s
    BY <1>1, <1>3, <1>4, <1>10, <2>1, <2>2, DialogueAssumption DEF TypeOK
  <2>3. CASE r # s
    BY <1>1, <1>3, <1>4, <1>10, <2>1, <2>3 DEF TypeOK
  <2> QED
    BY <2>2, <2>3
<1>12. HandlersHoldTheirTurn'
  <2> SUFFICES ASSUME NEW g \in Handlers \ {h} PROVE Holds(g)'
    BY <1>7 DEF HandlersHoldTheirTurn
  <2> QED
    BY <1>10, StillHolds DEF HandlersHoldTheirTurn
<1> QED
  BY <1>5, <1>8, <1>9, <1>11, <1>12, TurnsStand

\* What is locked by a handler that ends is given back.
LEMMA Released ==
    ASSUME Inv, NEW h \in Handlers, NEW to \in Ended,
           pc' = [pc EXCEPT ![h] = to], ctx' = Forgotten(h), lock' = ReleasedBy(h)
    PROVE  LockedWhileStoring' /\ lock' \in [Handlers -> Handlers \cup {Nobody}]
<1> USE DEF Inv
<1>1. lock' \in [Handlers -> Handlers \cup {Nobody}]
  BY DEF TypeOK, ReleasedBy
<1>2. ASSUME NEW r \in Handlers, NEW g \in Handlers
      PROVE  lock'[r] = g <=> pc'[g] = "storing" /\ ctx'[g].session = r
  <2>1. lock[r] = g <=> pc[g] = "storing" /\ ctx[g].session = r
    BY DEF LockedWhileStoring
  <2>2. CASE g = h
    BY <2>2, DialogueAssumption DEF TypeOK, ReleasedBy, Ended
  <2>3. CASE g # h
    BY <2>1, <2>3, DialogueAssumption DEF TypeOK, ReleasedBy, Forgotten
  <2> QED
    BY <2>2, <2>3
<1> QED
  BY <1>1, <1>2 DEF LockedWhileStoring

LEMMA CrashStep ==
    ASSUME Inv, NEW h \in Handlers, Crash(h)
    PROVE  Inv'
<1> USE DEF Inv, Crash
<1>1. pc[h] # "done" /\ pc'[h] = "crashed" /\ "crashed" \in Ended
  BY DEF Working, Ended, TypeOK
<1>2. LockedWhileStoring' /\ lock' \in [Handlers -> Handlers \cup {Nobody}]
  BY <1>1, Released
<1>3. TypeOK'
  BY <1>1, <1>2, NoContextType DEF TypeOK, Forgotten
<1>4. AsManyTurnsAsStored'
  BY <1>1, StillAsMany DEF TypeOK
<1>5. IdleHandlersOpenedNothing'
  BY DEF IdleHandlersOpenedNothing, TypeOK
<1>6. HandlersHoldTheirTurn'
  <2>1. Holds(h)'
    BY <1>1 DEF Holds, Working, Underway
  <2>2. ASSUME NEW g \in Handlers \ {h} PROVE Holds(g)'
    <3>1. pc'[g] = pc[g] /\ ctx'[g] = ctx[g]
      BY DEF TypeOK, Forgotten
    <3> QED
      BY <3>1, StillHolds DEF HandlersHoldTheirTurn
  <2> QED
    BY <2>1, <2>2 DEF HandlersHoldTheirTurn
<1> QED
  BY <1>2, <1>3, <1>4, <1>5, <1>6, TurnsStand

\* The turn stored is the next of its session: no other handler is storing one
\* there, and the turns others were told stay a beginning.
LEMMA StoreStep ==
    ASSUME Inv, NEW h \in Handlers, Store(h)
    PROVE  Inv'
<1> USE DEF Inv, Store, Goto
<1>1. PICK s \in Handlers : s = ctx[h].session
  BY DEF HandlersHoldTheirTurn, Holds, Working
<1>2. PICK t : t = Turn(h)
  OBVIOUS
<1>3. PICK S : S = TurnsOf(s)
  OBVIOUS
<1>4. Numbered(S) /\ Cardinality(S) \in Nat
  BY <1>3, FS_CardinalityType DEF Numbered
<1>5. /\ t.session = s
      /\ t.sequence = Cardinality(S) + 1
      /\ t.document = session[s]
      /\ \E n \in 0 .. Cardinality(S) : t.history = UpTo(S, n)
  BY <1>1, <1>2, <1>3 DEF HandlersHoldTheirTurn, Holds, Working, Underway, Turn
<1>6. t \in TurnRecord
  <2>1. ctx[h] \in Context /\ Cardinality(S) + 1 \in Numbers
    BY <1>3, NumbersSuffice DEF TypeOK
  <2>2. ctx[h].document \in Snapshots /\ ctx[h].snapshot \in Snapshots
    BY DEF HandlersHoldTheirTurn, Holds, Working
  <2>3. t = [session |-> s, sequence |-> ctx[h].sequence, document |-> ctx[h].document,
             snapshot |-> ctx[h].snapshot, history |-> ctx[h].history,
             files |-> ctx[h].files, answered |-> ctx[h].answered]
    BY <1>1, <1>2 DEF Turn
  <2> QED
    BY <1>5, <2>1, <2>2, <2>3 DEF Context, TurnRecord
<1>7. /\ turns' = turns \cup {t}
      /\ t \notin turns
  <2>1. \A u \in S : u.sequence \in 1 .. Cardinality(S)
    BY <1>4 DEF Numbered
  <2>2. t \notin S
    BY <1>4, <1>5, <2>1
  <2> QED
    BY <1>2, <1>3, <1>5, <2>2 DEF TurnsOf
<1>8. /\ TurnsOf(s)' = S \cup {t}
      /\ \A r \in Handlers \ {s} : TurnsOf(r)' = TurnsOf(r)
  BY <1>3, <1>5, <1>7 DEF TurnsOf
<1>9. /\ Cardinality(S \cup {t}) = Cardinality(S) + 1
      /\ Numbered(S \cup {t})
      /\ \A n \in 0 .. Cardinality(S) : UpTo(S \cup {t}, n) = UpTo(S, n)
  BY <1>4, <1>5, OneMore
<1>10. /\ pc'[h] = "done"
       /\ \A g \in Handlers \ {h} : ctx'[g] = ctx[g] /\ pc'[g] = pc[g]
  BY DEF TypeOK, Forgotten
<1>11. LockedWhileStoring' /\ lock' \in [Handlers -> Handlers \cup {Nobody}]
  BY Released DEF Ended
<1>12. TypeOK'
  BY <1>6, <1>7, <1>11, NoContextType DEF TypeOK, Forgotten, Ended
<1>13. \A r \in Handlers : Numbered(TurnsOf(r)')
  BY <1>8, <1>9
<1>14. HistoryIsABeginning'
  <2> SUFFICES ASSUME NEW u \in turns'
               PROVE  \E n \in 0 .. u.sequence - 1 : u.history = UpTo(TurnsOf(u.session)', n)
    BY DEF HistoryIsABeginning, UpTo
  <2>1. CASE u = t
    <3>1. PICK n \in 0 .. Cardinality(S) : t.history = UpTo(S, n)
      BY <1>5
    <3>2. n \in 0 .. t.sequence - 1
      BY <1>4, <1>5
    <3>3. t.history = UpTo(TurnsOf(s)', n)
      BY <1>8, <1>9, <3>1
    <3> QED
      BY <1>5, <2>1, <3>2, <3>3
  <2>2. CASE u \in turns
    <3>1. PICK n \in 0 .. u.sequence - 1 : u.history = UpTo(TurnsOf(u.session), n)
      BY <2>2 DEF HistoryIsABeginning, UpTo
    <3>2. u.session \in Handlers
      BY <2>2 DEF TypeOK, TurnRecord
    <3>3. CASE u.session = s
      <4>1. u.sequence \in 1 .. Cardinality(S)
        BY <1>3, <1>4, <2>2, <3>3 DEF TurnsOf, Numbered
      <4>2. n \in 0 .. Cardinality(S)
        BY <1>4, <4>1
      <4>3. UpTo(TurnsOf(s)', n) = UpTo(S, n)
        BY <1>8, <1>9, <4>2
      <4> QED
        BY <1>3, <3>1, <3>3, <4>3
    <3>4. CASE u.session # s
      BY <1>8, <3>1, <3>2, <3>4
    <3> QED
      BY <3>3, <3>4
  <2> QED
    BY <1>7, <2>1, <2>2
<1>15. TurnsAnalyseOneSnapshot'
  BY <1>5, <1>7 DEF TurnsAnalyseOneSnapshot
<1>16. AsManyTurnsAsStored'
  <2> DEFINE Done == { g \in Handlers : pc[g] = "done" }
  <2>1. { g \in Handlers : pc'[g] = "done" } = Done \cup {h} /\ h \notin Done
    BY <1>10
  <2>2. IsFiniteSet(Done)
    BY DialogueAssumption, FS_Subset
  <2>3. Cardinality(Done \cup {h}) = Cardinality(Done) + 1
    BY <2>1, <2>2, FS_AddElement
  <2>4. IsFiniteSet(turns \cup {t}) /\ Cardinality(turns \cup {t}) = Cardinality(turns) + 1
    BY <1>7, FS_AddElement DEF AsManyTurnsAsStored
  <2> QED
    BY <1>7, <2>1, <2>3, <2>4 DEF AsManyTurnsAsStored
<1>17. IdleHandlersOpenedNothing'
  BY <1>10 DEF IdleHandlersOpenedNothing
<1>18. HandlersHoldTheirTurn'
  <2> SUFFICES ASSUME NEW g \in Handlers PROVE Holds(g)'
    BY DEF HandlersHoldTheirTurn
  <2>1. CASE g = h
    BY <1>10, <2>1 DEF Holds, Working, Underway
  <2>2. CASE g # h /\ pc[g] \in Working
    <3>1. /\ Holds(g) /\ ctx[g].session \in Handlers
          /\ pc'[g] = pc[g] /\ ctx'[g] = ctx[g]
      BY <1>10, <2>2 DEF HandlersHoldTheirTurn, Holds
    <3>2. CASE ctx[g].session # s
      <4>1. TurnsOf(ctx[g].session)' = TurnsOf(ctx[g].session)
        BY <1>8, <3>1, <3>2
      <4> QED
        BY <3>1, <4>1 DEF Holds
    <3>3. CASE ctx[g].session = s
      <4>1. pc[g] # "storing"
        BY <1>1, <2>2, <3>3 DEF LockedWhileStoring
      <4>2. TurnsOf(ctx[g].session)' = S \cup {t} /\ TurnsOf(ctx[g].session) = S
        BY <1>3, <1>8, <3>1, <3>3
      <4>3. ASSUME NEW n \in 0 .. Cardinality(S)
            PROVE  /\ n \in 0 .. Cardinality(S \cup {t})
                   /\ UpTo(S \cup {t}, n) = UpTo(S, n)
        <5>1. n \in 0 .. Cardinality(S) + 1
          BY <1>4
        <5> QED
          BY <1>9, <5>1
      <4> QED
        BY <3>1, <4>1, <4>2, <4>3 DEF Holds
    <3> QED
      BY <3>2, <3>3
  <2>3. CASE g # h /\ pc[g] \notin Working
    BY <1>10, <2>3 DEF Holds, Working, Underway
  <2> QED
    BY <2>1, <2>2, <2>3
<1> QED
  BY <1>11, <1>12, <1>13, <1>14, <1>15, <1>16, <1>17, <1>18

\* Edits and attachments change nothing a dialogue holds.
LEMMA OthersStep ==
    ASSUME Inv, Others \/ UNCHANGED vars
    PROVE  Inv'
<1> USE DEF Inv
<1>1. UNCHANGED <<session, turns, lock, pc, ctx>>
  BY DEF Others, Edit, Upload, CheckUnused, Delete, vars
<1>2. mission' \in Snapshots /\ files' \in [Attachments -> {"absent", "stored", "condemned", "deleted"}]
  BY DEF TypeOK, Others, Edit, Upload, CheckUnused, Delete, vars
<1>3. TypeOK'
  BY <1>1, <1>2 DEF TypeOK
<1>4. AsManyTurnsAsStored' /\ IdleHandlersOpenedNothing' /\ LockedWhileStoring'
  BY <1>1 DEF AsManyTurnsAsStored, IdleHandlersOpenedNothing, LockedWhileStoring
<1>5. HandlersHoldTheirTurn'
  BY <1>1, StillHolds DEF HandlersHoldTheirTurn
<1> QED
  BY <1>1, <1>3, <1>4, <1>5, TurnsStand

LEMMA InitInv ==
    ASSUME Init
    PROVE  Inv
<1> USE DEF Init
<1>1. TypeOK
  BY NoContextType DEF TypeOK
<1>2. \A s : TurnsOf(s) = {}
  BY DEF TurnsOf
<1>3. \A s \in Handlers : Numbered(TurnsOf(s))
  BY <1>2, FS_EmptySet DEF Numbered
<1>4. HistoryIsABeginning /\ TurnsAnalyseOneSnapshot
  BY DEF HistoryIsABeginning, TurnsAnalyseOneSnapshot
<1>5. AsManyTurnsAsStored
  BY FS_EmptySet DEF AsManyTurnsAsStored
<1>6. IdleHandlersOpenedNothing /\ LockedWhileStoring
  BY DialogueAssumption DEF IdleHandlersOpenedNothing, LockedWhileStoring
<1>7. HandlersHoldTheirTurn
  BY DEF HandlersHoldTheirTurn, Holds, Working, Underway
<1> QED
  BY <1>1, <1>3, <1>4, <1>5, <1>6, <1>7 DEF Inv

-----------------------------------------------------------------------------

\* Every step of a dialogue keeps the invariant.
THEOREM DialogueInvariant == Spec => []Inv
<1>1. ASSUME Inv, [Next]_vars
      PROVE  Inv'
  <2>1. CASE \E h \in Handlers : Begin(h)
    BY <1>1, <2>1, OpenStep, ResumeStep, RefuseResumeStep DEF Begin
  <2>2. CASE \E h \in Handlers : Step(h)
    BY <1>1, <2>2, RefreshStep, GatherStep, AnswerStep, RefuseStep, NumberStep, StoreStep
       DEF Step
  <2>3. CASE \E h \in Handlers : Crash(h)
    BY <1>1, <2>3, CrashStep
  <2>4. CASE Others \/ UNCHANGED vars
    BY <1>1, <2>4, OthersStep
  <2> QED
    BY <1>1, <2>1, <2>2, <2>3, <2>4 DEF Next
<1> QED
  BY <1>1, InitInv, PTL DEF Spec

\* Types; the number of a turn is at most the number of requests.
THEOREM DialogueTypes == Spec => []TypeOK
<1>1. Inv => TypeOK
  BY DEF Inv
<1> QED
  BY <1>1, DialogueInvariant, PTL

\* The row lock numbers the turns of every session without gap or repetition.
THEOREM LockNumbersTurns == Spec => []TurnsAreNumbered
<1>1. Inv => TurnsAreNumbered
  BY DEF Inv, Numbered, TurnsAreNumbered
<1> QED
  BY <1>1, DialogueInvariant, PTL

\* A turn was told the answered turns up to one before its own.
THEOREM TurnsAreToldABeginning == Spec => []HistoryIsABeginning
<1>1. Inv => HistoryIsABeginning
  BY DEF Inv
<1> QED
  BY <1>1, DialogueInvariant, PTL

\* A turn analyses the snapshot its session was opened on.
THEOREM TurnsAnalyseTheirSnapshot == Spec => []TurnsAnalyseOneSnapshot
<1>1. Inv => TurnsAnalyseOneSnapshot
  BY DEF Inv
<1> QED
  BY <1>1, DialogueInvariant, PTL

-----------------------------------------------------------------------------
\* What a turn's records are ranked by, and the conversation they keep

\* A set of numbers that has any has a least.
LEMMA LeastNumber ==
    ASSUME NEW T, T \subseteq Nat, T # {}
    PROVE  \E n \in T : \A m \in T : n <= m
<1> DEFINE R == OpToRel(<, Nat)
<1>1. IsWellFoundedOn(R, Nat)
    BY NatLessThanWellFounded
<1>2. ASSUME NEW x \in Nat, NEW y \in Nat PROVE <<x, y>> \in R <=> x < y
    BY DEF OpToRel
<1>3. \E x \in T : \A y \in T : ~ (<<y, x>> \in R)
    <2> HIDE DEF R
    <2> QED BY <1>1, WFMin
<1> HIDE DEF R
<1>4. PICK x \in T : \A y \in T : ~ (<<y, x>> \in R)
    BY <1>3
<1>5. ASSUME NEW y \in T PROVE x <= y
    <2>1. x \in Nat /\ y \in Nat
        OBVIOUS
    <2>2. ~ (y < x)
        BY <1>2, <1>4, <2>1
    <2> QED BY <2>1, <2>2
<1> QED BY <1>5

\* The turns a mission can be asked.
Asking == [on : {TRUE}, records : SUBSET Records, question : Questions,
         ground : SUBSET Records]

\* Of a turn under way, the conversation it was asked in is the present one.
GroundInv ==
    /\ document \subseteq Records
    /\ history \in Seq(SUBSET Records)
    /\ Len(history) <= MaxTurns
    /\ \/ asking = Silence
       \/ /\ asking \in Asking
          /\ asking.ground = Recent
          /\ Len(history) < MaxTurns

LEMMA WeightsAddUp ==
    ASSUME NEW h \in Nat, NEW w \in Nat, w >= 4, w <= 18,
           NEW a \in Nat, NEW b \in Nat, NEW c \in Nat, a <= 80, b <= 45, c <= 8
    PROVE  /\ 8 * h + w + a + b + c \in Nat
           /\ 8 * h + w + a + b + c >= 8 * h + 4
           /\ 8 * h + w + a + b + c <= 8 * h + 71 + a
           /\ a = 80 => 8 * h + w + a + b + c >= 8 * h + 84
<1> DEFINE x == 8 * h
<1>1. x \in Nat
    OBVIOUS
<1> HIDE DEF x
<1>2. /\ x + w + a + b + c \in Nat
      /\ x + w + a + b + c >= x + 4
      /\ x + w + a + b + c <= x + 71 + a
      /\ a = 80 => x + w + a + b + c >= x + 84
    BY <1>1
<1> QED BY <1>2 DEF x

LEMMA RelevanceType ==
    ASSUME GroundAssumption, NEW t \in Asking, NEW r \in Records
    PROVE  /\ Relevance(t, r) \in Nat
           /\ t.question.hits[r] \in Nat
           /\ Relevance(t, r) >= 8 * t.question.hits[r] + 4
           /\ Relevance(t, r) <= 8 * t.question.hits[r] + 71 + If(r \in t.ground, 80)
           /\ r \in t.ground =>
                Relevance(t, r) >= 8 * t.question.hits[r] + 84
<1>1. t.question.hits[r] \in Nat
    BY DEF Asking, GroundAssumption
<1>2. Weight[r] \in Nat /\ Weight[r] >= 4 /\ Weight[r] <= 18
    BY DEF GroundAssumption
<1>3. /\ If(r \in t.ground, 80) \in {0, 80} /\ If(r \in t.question.gaps, 45) \in {0, 45}
      /\ If(r \in Confirmed, 8) \in {0, 8}
      /\ r \in t.ground => If(r \in t.ground, 80) = 80
    BY DEF If
<1>4. Relevance(t, r) = 8 * t.question.hits[r] + Weight[r] + If(r \in t.ground, 80)
                        + If(r \in t.question.gaps, 45) + If(r \in Confirmed, 8)
    BY DEF Relevance
<1> DEFINE h == t.question.hits[r]
           a == If(r \in t.ground, 80)
           b == If(r \in t.question.gaps, 45)
           c == If(r \in Confirmed, 8)
<1>5. /\ h \in Nat /\ a \in {0, 80} /\ b \in {0, 45} /\ c \in {0, 8}
      /\ r \in t.ground => a = 80
      /\ Relevance(t, r) = 8 * h + Weight[r] + a + b + c
    BY <1>1, <1>3, <1>4
<1>6. /\ Relevance(t, r) \in Nat
      /\ h \in Nat
      /\ Relevance(t, r) >= 8 * h + 4
      /\ Relevance(t, r) <= 8 * h + 71 + a
      /\ r \in t.ground => Relevance(t, r) >= 8 * h + 84
    <2>1. /\ 8 * h + Weight[r] + a + b + c \in Nat
          /\ 8 * h + Weight[r] + a + b + c >= 8 * h + 4
          /\ 8 * h + Weight[r] + a + b + c <= 8 * h + 71 + a
          /\ a = 80 => 8 * h + Weight[r] + a + b + c >= 8 * h + 84
        <3>1. /\ h \in Nat /\ a \in Nat /\ b \in Nat /\ c \in Nat
              /\ a <= 80 /\ b <= 45 /\ c <= 8
            BY <1>5
        <3> HIDE DEF h, a, b, c
        <3> QED BY <1>2, <3>1, WeightsAddUp
    <2> HIDE DEF h, a, b, c
    <2> QED BY <1>5, <2>1
<1> QED
    BY <1>6

\* Of two records of a document one outranks the other, and none itself.
LEMMA OutranksIsAnOrder ==
    ASSUME GroundAssumption, NEW t \in Asking
    PROVE  /\ \A r \in Records : ~ Outranks(t, r, r)
           /\ \A r, o \in Records : r = o \/ Outranks(t, r, o) \/ Outranks(t, o, r)
           /\ \A r, o, x \in Records :
                Outranks(t, x, r) /\ Outranks(t, r, o) => Outranks(t, x, o)
<1>1. \A r \in Records : Relevance(t, r) \in Nat
    BY RelevanceType
<1>2. Records \subseteq Nat
    BY DEF GroundAssumption
<1> QED
    BY <1>1, <1>2 DEF Outranks

\* Those that outrank a record of the turn.
Above(t, r) == {o \in t.records : Outranks(t, o, r)}

\* Whatever outranks a record has fewer above it.
LEMMA HigherMeansFewer ==
    ASSUME GroundAssumption, NEW t \in Asking,
           NEW r \in t.records, NEW o \in t.records, Outranks(t, r, o)
    PROVE  /\ Cardinality(Above(t, r)) \in Nat
           /\ Cardinality(Above(t, o)) \in Nat
           /\ Cardinality(Above(t, r)) < Cardinality(Above(t, o))
<1>1. t.records \subseteq Records
    BY DEF Asking
<1>2. IsFiniteSet(t.records)
    BY <1>1, FS_Subset DEF GroundAssumption
<1>3. IsFiniteSet(Above(t, o)) /\ IsFiniteSet(Above(t, r))
    BY <1>2, FS_Subset DEF Above
<1>4. Above(t, r) \subseteq Above(t, o)
    BY <1>1, OutranksIsAnOrder DEF Above
<1>5. r \in Above(t, o) /\ r \notin Above(t, r)
    BY <1>1, OutranksIsAnOrder DEF Above
<1>6. Cardinality(Above(t, r)) <= Cardinality(Above(t, o))
    BY <1>3, <1>4, FS_Subset
<1>7. Cardinality(Above(t, r)) # Cardinality(Above(t, o))
    BY <1>3, <1>4, <1>5, FS_Subset
<1> QED
    BY <1>3, <1>6, <1>7, FS_CardinalityType

\* A profile never shows more records than it has room for.
LEMMA WindowsAreBounded ==
    ASSUME GroundAssumption, NEW t \in Asking, NEW p \in DOMAIN Limits
    PROVE  Cardinality(Window(t, p)) <= Limits[p]
<1> DEFINE W == Window(t, p)
           L == Limits[p]
           count(r) == Cardinality(Above(t, r))
<1>1. L \in Nat /\ L > 0
    BY DEF GroundAssumption
<1>2. t.records \subseteq Records /\ IsFiniteSet(t.records)
    BY FS_Subset DEF GroundAssumption, Asking
<1>3. W \subseteq t.records /\ IsFiniteSet(W)
    BY <1>2, FS_Subset DEF Window
<1>4. \A r \in W : count(r) \in Nat /\ count(r) < L
    <2> TAKE r \in W
    <2>1. IsFiniteSet(Above(t, r))
        BY <1>2, FS_Subset DEF Above
    <2>2. count(r) \in Nat
        BY <2>1, FS_CardinalityType
    <2> QED
        BY <2>2 DEF Window, Above
<1>5. CASE W = {}
    BY <1>1, <1>5, FS_EmptySet
<1>6. CASE W # {}
    <2> DEFINE T == {L - count(r) : r \in W}
    <2>1. T \subseteq Nat /\ T # {}
        BY <1>1, <1>4, <1>6
    <2>2. PICK n \in T : \A m \in T : n <= m
        <3> HIDE DEF T
        <3> QED BY <2>1, LeastNumber
    <2>3. PICK w \in W : n = L - count(w)
        BY <2>2
    <2>4. \A r \in W : count(r) <= count(w)
        <3> TAKE r \in W
        <3>1. L - count(w) <= L - count(r)
            BY <2>2, <2>3
        <3> HIDE DEF count, L
        <3> QED BY <1>1, <1>4, <3>1
    <2>5. W \ {w} \subseteq Above(t, w)
        <3> SUFFICES ASSUME NEW r \in W, r # w
                     PROVE  Outranks(t, r, w)
            BY <1>3 DEF Above
        <3>1. ~ Outranks(t, w, r)
            <4> SUFFICES ASSUME Outranks(t, w, r) PROVE FALSE
                OBVIOUS
            <4>1. count(w) < count(r)
                BY <1>3, HigherMeansFewer
            <4> QED BY <1>4, <2>4, <4>1
        <3> QED
            BY <1>2, <1>3, <3>1, OutranksIsAnOrder
    <2>6. IsFiniteSet(Above(t, w))
        BY <1>2, FS_Subset DEF Above
    <2>7. Cardinality(W \ {w}) <= count(w)
        BY <2>5, <2>6, FS_Subset
    <2>8. Cardinality(W \ {w}) = Cardinality(W) - 1
        BY <1>3, FS_RemoveElement
    <2>9. Cardinality(W) \in Nat
        BY <1>3, FS_CardinalityType
    <2>10. Cardinality(W) <= L
        <3> HIDE DEF W, L, count
        <3> QED BY <1>1, <1>4, <2>7, <2>8, <2>9
    <2> QED BY <2>10
<1> QED BY <1>5, <1>6

\* One that is left out gives way to none it outranks.
LEMMA NoneBelowIsShown ==
    ASSUME GroundAssumption, NEW t \in Asking, NEW p \in DOMAIN Limits,
           NEW r \in t.records \ Window(t, p), NEW o \in Window(t, p)
    PROVE  ~ Outranks(t, r, o)
<1> SUFFICES ASSUME Outranks(t, r, o) PROVE FALSE
    OBVIOUS
<1>1. o \in t.records /\ Cardinality(Above(t, o)) < Limits[p]
    BY DEF Window, Above
<1>2. ~ (Cardinality(Above(t, r)) < Limits[p])
    BY DEF Window, Above
<1>3. Limits[p] \in Nat
    BY DEF GroundAssumption
<1> QED
    BY <1>1, <1>2, <1>3, HigherMeansFewer

\* The last two answers of the history.
LEMMA TheLastTwo ==
    ASSUME history \in Seq(SUBSET Records)
    PROVE  /\ Ground(LastTwo(history)) = Recent
           /\ Recent \subseteq Records
<1>1. LastTwo(history) = SubSeq(history,
                            IF Len(history) > 1 THEN Len(history) - 1 ELSE 1,
                            Len(history))
    <2>4. Len(history) \in Nat
        OBVIOUS
    <2>1. CASE Len(history) > 2
        <3>1. ~ (Len(history) <= 2) /\ Len(history) > 1
            BY <2>1
        <3> QED BY <3>1 DEF LastTwo
    <2>2. CASE Len(history) <= 2
        <3>1. SubSeq(history, 1, Len(history)) = history
            OBVIOUS
        <3>2. (IF Len(history) > 1 THEN Len(history) - 1 ELSE 1) = 1
            <4> DEFINE n == Len(history)
            <4>1. n \in Nat /\ n <= 2
                BY <2>2, <2>4
            <4>2. n > 1 => n = 2
                <5> HIDE DEF n
                <5> QED BY <4>1
            <4> QED BY <4>2
        <3> QED BY <2>2, <3>1, <3>2 DEF LastTwo
    <2>3. Len(history) > 2 \/ Len(history) <= 2
        OBVIOUS
    <2> QED BY <2>1, <2>2, <2>3
<1>2. LastTwo(history) \in Seq(SUBSET Records)
    BY DEF LastTwo
<1>3. Ground(LastTwo(history)) \subseteq Records
    BY <1>2 DEF Ground
<1> QED
    BY <1>1, <1>3 DEF Recent

LEMMA GroundInitInv == GroundInit => GroundInv
    BY GroundAssumption DEF GroundInit, GroundInv, GroundAssumption

\* What a step of the dialogue does to the conversation.
LEMMA GroundStep == GroundInv /\ [GroundNext]_groundVars => GroundInv'
<1> SUFFICES ASSUME GroundInv, [GroundNext]_groundVars PROVE GroundInv'
    OBVIOUS
<1> USE GroundAssumption
<1>1. ASSUME NEW r \in Records, Revise(r) PROVE GroundInv'
    BY <1>1 DEF Revise, GroundInv, Recent
<1>2. ASSUME NEW question \in Questions, Ask(question) PROVE GroundInv'
    <2>1. asking' \in Asking
        BY <1>2, TheLastTwo DEF Ask, GroundInv, Asking
    <2>2. asking'.ground = Recent
        BY <1>2, TheLastTwo DEF Ask, GroundInv
    <2> QED
        BY <1>2, <2>1, <2>2 DEF Ask, GroundInv, Recent
<1>3. ASSUME NEW cited \in SUBSET Records, Respond(cited) PROVE GroundInv'
    <2>1. Len(history) < MaxTurns /\ Len(history) \in Nat
        BY <1>3 DEF Respond, GroundInv, Silence
    <2>2. /\ history' \in Seq(SUBSET Records)
          /\ Len(history') = Len(history) + 1
        BY <1>3 DEF Respond, GroundInv
    <2> QED
        BY <1>3, <2>1, <2>2 DEF Respond, GroundInv, GroundAssumption
<1>4. ASSUME Fail PROVE GroundInv'
    BY <1>4 DEF Fail, GroundInv
<1>5. CASE UNCHANGED groundVars
    BY <1>5 DEF groundVars, GroundInv, Recent
<1> QED
    BY <1>1, <1>2, <1>3, <1>4, <1>5 DEF GroundNext

LEMMA GroundKept == GroundInv => ConversationsKeepTheirGround
<1> USE GroundAssumption
<1> SUFFICES ASSUME GroundInv, asking.on,
                    NEW p \in DOMAIN Limits,
                    NEW r \in (Recent \cap asking.records) \ Window(asking, p),
                    NEW o \in Window(asking, p) \ Recent
             PROVE  asking.question.hits[o] >= asking.question.hits[r] + 2
    BY DEF ConversationsKeepTheirGround
<1>1. asking \in Asking /\ asking.ground = Recent
    BY DEF GroundInv, Silence
<1>2. r \in Records /\ o \in Records
    BY <1>1 DEF Window, Asking
<1>3. ~ Outranks(asking, r, o)
    BY <1>1, NoneBelowIsShown
<1>4. Relevance(asking, r) >= 8 * asking.question.hits[r] + 84
    BY <1>1, <1>2, RelevanceType
<1>5. Relevance(asking, o) <= 8 * asking.question.hits[o] + 71
    <2>1. If(o \in asking.ground, 80) = 0
        BY <1>1 DEF If
    <2>2. Relevance(asking, o)
            <= 8 * asking.question.hits[o] + 71 + If(o \in asking.ground, 80)
        BY <1>1, <1>2, RelevanceType
    <2>3. asking.question.hits[o] \in Nat
        BY <1>1, <1>2, RelevanceType
    <2> QED BY <2>1, <2>2, <2>3
<1>6. Relevance(asking, r) <= Relevance(asking, o)
    BY <1>1, <1>2, <1>3, RelevanceType DEF Outranks
<1>7. /\ asking.question.hits[r] \in Nat /\ asking.question.hits[o] \in Nat
      /\ Relevance(asking, r) \in Nat /\ Relevance(asking, o) \in Nat
    BY <1>1, <1>2, RelevanceType
<1> QED
    <2> DEFINE hr == asking.question.hits[r]
               ho == asking.question.hits[o]
               vr == Relevance(asking, r)
               vo == Relevance(asking, o)
    <2>1. /\ vr >= 8 * hr + 84 /\ vo <= 8 * ho + 71 /\ vr <= vo
          /\ hr \in Nat /\ ho \in Nat /\ vr \in Nat /\ vo \in Nat
        BY <1>4, <1>5, <1>6, <1>7
    <2>2. ho >= hr + 2
        <3> HIDE DEF hr, ho, vr, vo
        <3> QED BY <2>1
    <2> QED BY <2>2

\* The conversation a turn under way was asked in is the present one.
THEOREM GroundInvariant == GroundSpec => []GroundInv
  BY GroundInitInv, GroundStep, PTL DEF GroundSpec

\* Records are of the mission as it was read, and no profile shows more of
\* them than it has room for: _mission_working_set's ranking is total.
THEOREM WindowsFitTheirProfiles == GroundSpec => []GroundTypes
<1>1. GroundInv => GroundTypes
  <2> SUFFICES ASSUME GroundInv, asking.on, NEW p \in DOMAIN Limits
               PROVE  /\ Window(asking, p) \subseteq asking.records
                      /\ Cardinality(Window(asking, p)) <= Limits[p]
    BY DEF GroundTypes, GroundInv
  <2>1. asking \in Asking
    BY DEF GroundInv, Silence
  <2> QED
    BY <2>1, GroundAssumption, WindowsAreBounded DEF Window
<1> QED
  BY <1>1, GroundInvariant, PTL

\* What the last two answers rested upon gives way only to what the question
\* names at least twice more, in every profile a turn may be retried with.
THEOREM TheConversationStays == GroundSpec => []ConversationsKeepTheirGround
  BY GroundKept, GroundInvariant, PTL

-----------------------------------------------------------------------------
(***************************************************************************)
(* What a turn's request carries.  A finite set under a strict total order *)
(* B, a set of pairs, has its members in places 1, 2, ...                  *)
(***************************************************************************)
StrictOrder(B, C) ==
    /\ \A x \in C : <<x, x>> \notin B
    /\ \A x, y, z \in C : <<x, y>> \in B /\ <<y, z>> \in B => <<x, z>> \in B
    /\ \A x, y \in C : x = y \/ <<x, y>> \in B \/ <<y, x>> \in B

Ahead(B, C, c) == {d \in C : <<d, c>> \in B}
PlaceIn(B, C, c) == 1 + Cardinality(Ahead(B, C, c))
Front(B, C, R) == {c \in C : PlaceIn(B, C, c) <= R}

LEMMA AheadIsFinite ==
    ASSUME NEW C, IsFiniteSet(C), NEW B, NEW c
    PROVE  /\ IsFiniteSet(Ahead(B, C, c)) /\ Cardinality(Ahead(B, C, c)) \in Nat
           /\ PlaceIn(B, C, c) \in Nat \ {0}
<1>1. IsFiniteSet(Ahead(B, C, c))
    BY FS_Subset DEF Ahead
<1>2. Cardinality(Ahead(B, C, c)) \in Nat
    BY <1>1, FS_CardinalityType
<1> QED BY <1>1, <1>2 DEF PlaceIn

\* Who comes earlier has a smaller place, so no two have the same.
LEMMA EarlierHaveSmallerPlaces ==
    ASSUME NEW C, IsFiniteSet(C), NEW B, StrictOrder(B, C),
           NEW c \in C, NEW d \in C, <<c, d>> \in B
    PROVE  PlaceIn(B, C, c) < PlaceIn(B, C, d)
<1>1. /\ IsFiniteSet(Ahead(B, C, d)) /\ Cardinality(Ahead(B, C, c)) \in Nat
      /\ Cardinality(Ahead(B, C, d)) \in Nat
    BY AheadIsFinite
<1>2. Ahead(B, C, c) \subseteq Ahead(B, C, d)
    BY DEF StrictOrder, Ahead
<1>3. c \in Ahead(B, C, d) /\ c \notin Ahead(B, C, c)
    BY DEF StrictOrder, Ahead
<1>4. /\ Cardinality(Ahead(B, C, c)) <= Cardinality(Ahead(B, C, d))
      /\ Cardinality(Ahead(B, C, c)) # Cardinality(Ahead(B, C, d))
    BY <1>1, <1>2, <1>3, FS_Subset
<1> QED BY <1>1, <1>4 DEF PlaceIn

\* Those with the first R places fill the places there are of them.
LEMMA PlacesAreFilled ==
    ASSUME NEW C, IsFiniteSet(C), NEW B, StrictOrder(B, C), NEW R \in Nat
    PROVE  /\ Cardinality(Front(B, C, R)) \in Nat /\ Cardinality(Front(B, C, R)) <= R
           /\ \A c \in Front(B, C, R) :
                 PlaceIn(B, C, c) \in 1 .. Cardinality(Front(B, C, R))
           /\ \A c, d \in C : PlaceIn(B, C, c) = PlaceIn(B, C, d) => c = d
           /\ \A i \in 1 .. Cardinality(Front(B, C, R)) :
                 \E c \in Front(B, C, R) : PlaceIn(B, C, c) = i
<1> DEFINE place(c) == PlaceIn(B, C, c)
           K == Front(B, C, R)
           n == Cardinality(K)
<1>0. K = {c \in C : place(c) <= R}
    BY DEF Front
<1> HIDE DEF K
<1>1. IsFiniteSet(K) /\ n \in Nat
    BY <1>0, FS_Subset, FS_CardinalityType
<1>2. \A c \in C : place(c) \in Nat \ {0}
    BY AheadIsFinite
<1>3. \A c, d \in C : place(c) = place(d) => c = d
    <2> TAKE c, d \in C
    <2>1. <<c, d>> \in B => place(c) < place(d)
        BY EarlierHaveSmallerPlaces
    <2>2. <<d, c>> \in B => place(d) < place(c)
        BY EarlierHaveSmallerPlaces
    <2> QED BY <1>2, <2>1, <2>2 DEF StrictOrder
<1>4. ASSUME NEW c \in K PROVE place(c) \in 1 .. n
    <2> DEFINE A == Ahead(B, C, c)
    <2>1. IsFiniteSet(A) /\ Cardinality(A) \in Nat
        BY AheadIsFinite
    <2>2. c \notin A /\ c \in C
        BY <1>0 DEF StrictOrder, Ahead
    <2>3. IsFiniteSet(A \cup {c}) /\ Cardinality(A \cup {c}) = place(c)
        BY <2>1, <2>2, FS_AddElement DEF PlaceIn
    <2>4. ASSUME NEW d \in A PROVE d \in K
        <3>1. d \in C /\ <<d, c>> \in B
            BY DEF Ahead
        <3>2. place(d) < place(c)
            BY <2>2, <3>1, EarlierHaveSmallerPlaces
        <3> QED BY <1>0, <1>2, <2>2, <3>1, <3>2
    <2>5. Cardinality(A \cup {c}) <= n
        BY <1>1, <2>4, FS_Subset
    <2> QED BY <1>1, <1>2, <2>2, <2>3, <2>5
<1>5. IsFiniteSet(1 .. n) /\ Cardinality(1 .. n) = n
    <2>1. 1 \in Int /\ n \in Int
        BY <1>1
    <2> QED BY <1>1, <2>1, FS_Interval
<1>6. IsFiniteSet(1 .. R) /\ Cardinality(1 .. R) = R
    <2>1. 1 \in Int /\ R \in Int
        OBVIOUS
    <2> QED BY <2>1, FS_Interval
<1>7. [c \in K |-> place(c)] \in Injection(K, 1 .. n)
    BY <1>0, <1>3, <1>4 DEF Injection, IsInjective
<1>8. [c \in K |-> place(c)] \in Injection(K, 1 .. R)
    BY <1>0, <1>2, <1>3 DEF Injection, IsInjective
<1>9. n <= R
    BY <1>6, <1>8, FS_Injection
<1>10. [c \in K |-> place(c)] \in Surjection(K, 1 .. n)
    BY <1>5, <1>7, FS_Injection
<1>11. \A i \in 1 .. n : \E c \in K : place(c) = i
    BY <1>10 DEF Surjection
<1> QED BY <1>1, <1>3, <1>4, <1>9, <1>11 DEF K

\* Some member of a set comes before all others of it.
LEMMA SomeIsFirst ==
    ASSUME NEW C, IsFiniteSet(C), NEW B, StrictOrder(B, C),
           NEW D, D \subseteq C, D # {}
    PROVE  \E c \in D : \A d \in D : <<d, c>> \notin B
<1> DEFINE T == {PlaceIn(B, C, c) : c \in D}
<1>1. T \subseteq Nat /\ T # {}
    BY AheadIsFinite
<1>2. PICK n \in T : \A m \in T : n <= m
    BY <1>1, LeastNumber
<1>3. PICK c \in D : n = PlaceIn(B, C, c)
    OBVIOUS
<1>4. ASSUME NEW d \in D, <<d, c>> \in B PROVE FALSE
    <2>1. PlaceIn(B, C, d) < n
        BY <1>3, <1>4, EarlierHaveSmallerPlaces
    <2>2. n <= PlaceIn(B, C, d) /\ n \in Nat /\ PlaceIn(B, C, d) \in Nat
        BY <1>1, <1>2
    <2> QED BY <2>1, <2>2
<1> QED BY <1>4

\* The order of the numbers.
Rising(S) == {p \in S \X S : p[1] < p[2]}

LEMMA RisingIsAnOrder ==
    ASSUME NEW S, S \subseteq Nat
    PROVE  StrictOrder(Rising(S), S)
BY DEF StrictOrder, Rising

LEMMA GreatestNumber ==
    ASSUME NEW S, S \subseteq Nat, S # {}, IsFiniteSet(S)
    PROVE  Max(S) \in S /\ \A y \in S : y <= Max(S)
<1> DEFINE B == {p \in S \X S : p[1] > p[2]}
<1>1. StrictOrder(B, S)
    BY DEF StrictOrder
<1>2. PICK c \in S : \A d \in S : <<d, c>> \notin B
    BY <1>1, SomeIsFirst
<1>3. ASSUME NEW d \in S PROVE c >= d
    <2>1. ~ (d > c)
        BY <1>2
    <2> QED BY <2>1
<1> QED BY <1>3 DEF Max

LEMMA SmallerOfTwo ==
    ASSUME NEW a \in Nat, NEW b \in Nat
    PROVE  /\ Min({a, b}) \in Nat /\ Min({a, b}) <= a /\ Min({a, b}) <= b
           /\ Min({a, b}) = a \/ Min({a, b}) = b
<1>1. \E x \in {a, b} : \A y \in {a, b} : x <= y
    OBVIOUS
<1> QED BY <1>1 DEF Min

-----------------------------------------------------------------------------
\* What a retrieval ranks, and by what.
Candidates == Matching \cup Opening
ScoreOf == [c \in Candidates |-> Score(c, Matching)]
Better == {p \in Candidates \X Candidates :
             \/ ScoreOf[p[1]] > ScoreOf[p[2]]
             \/ ScoreOf[p[1]] = ScoreOf[p[2]] /\ ByFile(p[1], p[2])}
Leads == [c \in Candidates |->
            \A d \in Candidates : d[1] = c[1] => <<d, c>> \notin Better]
Sooner == {p \in Candidates \X Candidates : LeadersFirst(p[1], p[2], Leads, Better)}
Places == [c \in Candidates |->
             1 + Cardinality({d \in Candidates : LeadersFirst(d, c, Leads, Better)})]
Retrieved == {c \in Candidates : Places[c] <= Retrieval}

LEMMA RankingIsByPlace ==
    Ranking = [i \in 1 .. Cardinality(Retrieved) |-> CHOOSE c \in Retrieved : Places[c] = i]
BY Zenon DEF Ranking, Candidates, ScoreOf, Better, Leads, Places, Retrieved

LEMMA TurnType ==
    ASSUME WindowAssumption, turn \in Asked
    PROVE  /\ turn.selected \subseteq Files
           /\ turn.form \in [Files -> {"text", "visual", "partial"}]
           /\ turn.length \in [Files -> Lengths]
           /\ turn.matches \in [Files -> 0 .. MaxMatches]
           /\ turn.history \in Seq(Nat)
           /\ Files \subseteq Nat /\ IsFiniteSet(Files) /\ IsFiniteSet(turn.selected)
<1>1. turn \in Turns
    BY DEF Asked
<1>2. /\ turn.selected \subseteq Files
      /\ turn.form \in [Files -> {"text", "visual", "partial"}]
      /\ turn.length \in [Files -> Lengths]
      /\ turn.matches \in [Files -> 0 .. MaxMatches]
      /\ turn.history \in Histories
    BY <1>1 DEF Turns
<1>3. /\ Files \subseteq Nat /\ IsFiniteSet(Files) /\ Histories \subseteq Seq(Nat)
    BY DEF WindowAssumption
<1>4. IsFiniteSet(turn.selected)
    BY <1>2, <1>3, FS_Subset
<1> QED BY <1>2, <1>3, <1>4

LEMMA ChunkType ==
    ASSUME WindowAssumption, turn \in Asked
    PROVE  /\ IsFiniteSet(Archive)
           /\ \A c \in Archive :
                 /\ c = <<c[1], c[2]>> /\ c[1] \in Files /\ c[1] \in Nat
                 /\ c[2] \in Nat \ {0} /\ turn.form[c[1]] = "text"
                 /\ Hits(c) \in 0 .. MaxMatches
           /\ \A f \in Files : turn.form[f] = "text" => <<f, 1>> \in Archive
<1>1. /\ Lengths \subseteq Nat \ {0} /\ IsFiniteSet(Lengths) /\ IsFiniteSet(Files)
      /\ Files \subseteq Nat /\ MaxMatches \in Nat
    BY DEF WindowAssumption
<1>2. CASE Files = {}
    <2>1. Archive = {}
        BY <1>2 DEF Archive, Chunks
    <2> QED BY <1>2, <2>1, FS_EmptySet
<1>3. CASE Files # {}
    <2>1. Lengths # {}
        BY <1>3, TurnType
    <2>2. Max(Lengths) \in Nat \ {0} /\ \A n \in Lengths : n <= Max(Lengths)
        BY <1>1, <2>1, GreatestNumber
    <2>3. IsFiniteSet(1 .. Max(Lengths))
        <3>1. 1 \in Int /\ Max(Lengths) \in Int
            BY <2>2
        <3> QED BY <3>1, FS_Interval
    <2>4. IsFiniteSet(Files \X (1 .. Max(Lengths)))
        BY <1>1, <2>3, FS_Product
    <2>5. Archive \subseteq Files \X (1 .. Max(Lengths))
        BY DEF Archive, Chunks
    <2>6. IsFiniteSet(Archive)
        BY <2>4, <2>5, FS_Subset
    <2>7. ASSUME NEW c \in Archive
          PROVE  /\ c = <<c[1], c[2]>> /\ c[1] \in Files /\ c[1] \in Nat
                 /\ c[2] \in Nat \ {0} /\ turn.form[c[1]] = "text"
                 /\ Hits(c) \in 0 .. MaxMatches
        <3>1. c \in Files \X (1 .. Max(Lengths))
            BY <2>5
        <3>2. c = <<c[1], c[2]>> /\ c[1] \in Files /\ c[2] \in Nat \ {0}
            BY <2>2, <3>1
        <3>3. turn.form[c[1]] = "text"
            BY DEF Archive, Chunks
        <3> QED BY <1>1, <3>2, <3>3, TurnType DEF Hits
    <2>8. ASSUME NEW f \in Files, turn.form[f] = "text" PROVE <<f, 1>> \in Archive
        <3>1. turn.length[f] \in Lengths
            BY TurnType
        <3>2. turn.length[f] \in Nat \ {0}
            BY <1>1, <3>1
        <3>3. 1 <= turn.length[f]
            BY <3>2
        <3>4. 1 \in 1 .. Max(Lengths)
            BY <2>2
        <3>5. <<f, 1>> \in Chunks
            BY <2>8, <3>4 DEF Chunks
        <3> QED BY <3>3, <3>5 DEF Archive
    <2> QED BY <2>6, <2>7, <2>8
<1> QED BY <1>2, <1>3

LEMMA CandidatesAreChunks ==
    ASSUME WindowAssumption, turn \in Asked
    PROVE  /\ Candidates \subseteq Archive /\ IsFiniteSet(Candidates)
           /\ ScoreOf \in [Candidates -> Nat]
           /\ \A c \in Candidates :
                 /\ c[1] \in turn.selected => ScoreOf[c] >= Boost
                 /\ c[1] \notin turn.selected => ScoreOf[c] < Boost
<1>1. Matching \subseteq Archive /\ Opening \subseteq Archive
    BY DEF Matching, Opening, First
<1>2. Candidates \subseteq Archive /\ IsFiniteSet(Candidates)
    BY <1>1, ChunkType, FS_Subset DEF Candidates
<1>3. ASSUME NEW c \in Candidates
      PROVE  /\ ScoreOf[c] \in Nat
             /\ c[1] \in turn.selected => ScoreOf[c] >= Boost
             /\ c[1] \notin turn.selected => ScoreOf[c] < Boost
    <2>1. /\ Boost \in Nat /\ Boost > MaxMatches /\ MaxMatches \in Nat
          /\ Hits(c) \in 0 .. MaxMatches
        BY <1>2, ChunkType DEF WindowAssumption
    <2>2. c \notin Matching => c[1] \in turn.selected
        BY DEF Candidates, Opening, First
    <2>3. ScoreOf[c] = Score(c, Matching)
        BY DEF ScoreOf
    <2> QED BY <2>1, <2>2, <2>3 DEF Score
<1>4. ScoreOf \in [Candidates -> Nat]
    BY <1>3 DEF ScoreOf
<1> QED BY <1>2, <1>3, <1>4

LEMMA ByFileIsTransitive ==
    ASSUME NEW x, NEW y, NEW z,
           x[1] \in Nat /\ y[1] \in Nat /\ z[1] \in Nat,
           x[2] \in Nat /\ y[2] \in Nat /\ z[2] \in Nat,
           ByFile(x, y), ByFile(y, z)
    PROVE  ByFile(x, z)
BY DEF ByFile

LEMMA BetterIsAnOrder ==
    ASSUME WindowAssumption, turn \in Asked
    PROVE  StrictOrder(Better, Candidates)
<1>1. /\ ScoreOf \in [Candidates -> Nat]
      /\ \A c \in Candidates : c = <<c[1], c[2]>> /\ c[1] \in Nat /\ c[2] \in Nat
    BY CandidatesAreChunks, ChunkType
<1>2. \A c, d \in Candidates :
         <<c, d>> \in Better <=> \/ ScoreOf[c] > ScoreOf[d]
                                 \/ ScoreOf[c] = ScoreOf[d] /\ ByFile(c, d)
    BY DEF Better
<1>7. \A c \in Candidates : c[1] \in Nat /\ c[2] \in Nat
    BY <1>1
<1>8. ASSUME NEW c \in Candidates, NEW d \in Candidates
      PROVE  c = d \/ ByFile(c, d) \/ ByFile(d, c)
    <2>1. c[1] = d[1] /\ c[2] = d[2] => c = d
        BY <1>1
    <2> QED BY <1>7, <2>1 DEF ByFile
<1>3. ASSUME NEW c \in Candidates PROVE ~ ByFile(c, c)
    <2>1. c[1] \in Nat /\ c[2] \in Nat
        BY <1>7
    <2> QED BY <2>1 DEF ByFile
<1>9. ASSUME NEW x \in Candidates, NEW y \in Candidates, NEW z \in Candidates,
             ByFile(x, y), ByFile(y, z)
      PROVE  ByFile(x, z)
    <2>1. /\ x[1] \in Nat /\ y[1] \in Nat /\ z[1] \in Nat
          /\ x[2] \in Nat /\ y[2] \in Nat /\ z[2] \in Nat
        BY <1>7
    <2> QED BY <1>9, <2>1, ByFileIsTransitive
<1>10. \A c \in Candidates : ScoreOf[c] \in Nat
    BY <1>1
<1> HIDE DEF ScoreOf
<1>4. ASSUME NEW x \in Candidates PROVE <<x, x>> \notin Better
    <2>1. ScoreOf[x] \in Nat /\ ~ ByFile(x, x)
        BY <1>3, <1>10
    <2> QED BY <1>2, <2>1
<1>5. ASSUME NEW x \in Candidates, NEW y \in Candidates, NEW z \in Candidates,
             <<x, y>> \in Better, <<y, z>> \in Better
      PROVE  <<x, z>> \in Better
    <2>1. ScoreOf[x] \in Nat /\ ScoreOf[y] \in Nat /\ ScoreOf[z] \in Nat
        BY <1>10
    <2>2. ByFile(x, y) /\ ByFile(y, z) => ByFile(x, z)
        BY <1>9
    <2>3. ScoreOf[x] > ScoreOf[y] \/ (ScoreOf[x] = ScoreOf[y] /\ ByFile(x, y))
        BY <1>2, <1>5
    <2>4. ScoreOf[y] > ScoreOf[z] \/ (ScoreOf[y] = ScoreOf[z] /\ ByFile(y, z))
        BY <1>2, <1>5
    <2>5. ScoreOf[x] > ScoreOf[z] \/ (ScoreOf[x] = ScoreOf[z] /\ ByFile(x, z))
        BY <2>1, <2>2, <2>3, <2>4
    <2> QED BY <1>2, <2>5
<1>6. ASSUME NEW x \in Candidates, NEW y \in Candidates
      PROVE  x = y \/ <<x, y>> \in Better \/ <<y, x>> \in Better
    <2>1. ByFile(x, y) \/ ByFile(y, x) \/ x = y
        BY <1>8
    <2>2. ScoreOf[x] \in Nat /\ ScoreOf[y] \in Nat
        BY <1>10
    <2> QED BY <1>2, <2>1, <2>2
<1> QED BY <1>4, <1>5, <1>6 DEF StrictOrder

LEMMA SoonerIsAnOrder ==
    ASSUME WindowAssumption, turn \in Asked
    PROVE  /\ StrictOrder(Sooner, Candidates)
           /\ \A c \in Candidates : Places[c] = PlaceIn(Sooner, Candidates, c)
<1>1. StrictOrder(Better, Candidates)
    BY BetterIsAnOrder
<1>2. \A c, d \in Candidates :
         <<c, d>> \in Sooner <=> \/ Leads[c] /\ ~ Leads[d]
                                 \/ Leads[c] = Leads[d] /\ <<c, d>> \in Better
    BY DEF Sooner, LeadersFirst
<1>3. \A c \in Candidates : Leads[c] \in BOOLEAN
    BY DEF Leads
<1>4. \A x \in Candidates : <<x, x>> \notin Sooner
    BY <1>1, <1>2 DEF StrictOrder
<1>5. \A x, y, z \in Candidates :
         <<x, y>> \in Sooner /\ <<y, z>> \in Sooner => <<x, z>> \in Sooner
    BY <1>1, <1>2, <1>3 DEF StrictOrder
<1>6. \A x, y \in Candidates : x = y \/ <<x, y>> \in Sooner \/ <<y, x>> \in Sooner
    BY <1>1, <1>2, <1>3 DEF StrictOrder
<1>7. ASSUME NEW c \in Candidates
      PROVE  Places[c] = PlaceIn(Sooner, Candidates, c)
    <2>1. {d \in Candidates : LeadersFirst(d, c, Leads, Better)}
             = Ahead(Sooner, Candidates, c)
        BY DEF Ahead, Sooner
    <2> QED BY <2>1 DEF Places, PlaceIn
<1> QED BY <1>4, <1>5, <1>6, <1>7 DEF StrictOrder

\* A retrieval returns distinct chunks, one in each place up to the last.
LEMMA RankingLists ==
    ASSUME WindowAssumption, turn \in Asked
    PROVE  /\ Ranking \in Seq(Archive) /\ Len(Ranking) <= Retrieval
           /\ \A i, j \in DOMAIN Ranking : Ranking[i] = Ranking[j] => i = j
           /\ \A c \in Retrieved : /\ Places[c] \in 1 .. Len(Ranking)
                                   /\ Ranking[Places[c]] = c
<1> DEFINE n == Cardinality(Retrieved)
<1>1. /\ StrictOrder(Sooner, Candidates) /\ IsFiniteSet(Candidates) /\ Retrieval \in Nat
      /\ Candidates \subseteq Archive
    BY SoonerIsAnOrder, CandidatesAreChunks DEF WindowAssumption
<1>2. Retrieved = Front(Sooner, Candidates, Retrieval)
    BY SoonerIsAnOrder DEF Retrieved, Front
<1>3. /\ n \in Nat /\ n <= Retrieval
      /\ \A c \in Retrieved : PlaceIn(Sooner, Candidates, c) \in 1 .. n
      /\ \A c, d \in Candidates :
            PlaceIn(Sooner, Candidates, c) = PlaceIn(Sooner, Candidates, d) => c = d
      /\ \A i \in 1 .. n : \E c \in Retrieved : PlaceIn(Sooner, Candidates, c) = i
    <2>1. /\ Cardinality(Front(Sooner, Candidates, Retrieval)) \in Nat
          /\ Cardinality(Front(Sooner, Candidates, Retrieval)) <= Retrieval
        BY Zenon, <1>1, PlacesAreFilled
    <2>2. /\ \A c \in Front(Sooner, Candidates, Retrieval) :
                PlaceIn(Sooner, Candidates, c)
                   \in 1 .. Cardinality(Front(Sooner, Candidates, Retrieval))
          /\ \A c, d \in Candidates :
                PlaceIn(Sooner, Candidates, c) = PlaceIn(Sooner, Candidates, d) => c = d
        BY Zenon, <1>1, PlacesAreFilled
    <2>3. ASSUME NEW i \in 1 .. Cardinality(Front(Sooner, Candidates, Retrieval))
          PROVE  \E c \in Front(Sooner, Candidates, Retrieval) :
                    PlaceIn(Sooner, Candidates, c) = i
        BY <1>1, PlacesAreFilled
    <2> QED BY <1>2, <2>1, <2>2, <2>3
<1>4. Retrieved \subseteq Candidates
    BY DEF Retrieved
<1>5. /\ \A c \in Retrieved : Places[c] \in 1 .. n
      /\ \A c, d \in Retrieved : Places[c] = Places[d] => c = d
      /\ \A i \in 1 .. n : \E c \in Retrieved : Places[c] = i
    <2>1. \A c \in Retrieved : Places[c] = PlaceIn(Sooner, Candidates, c)
        BY <1>4, SoonerIsAnOrder
    <2>2. \A c \in Retrieved : Places[c] \in 1 .. n
        BY Zenon, <1>3, <2>1
    <2>3. ASSUME NEW c \in Retrieved, NEW d \in Retrieved, Places[c] = Places[d]
          PROVE  c = d
        <3>1. c \in Candidates /\ d \in Candidates
            BY <1>4
        <3>2. PlaceIn(Sooner, Candidates, c) = PlaceIn(Sooner, Candidates, d)
            BY Zenon, <2>1, <2>3
        <3> QED BY Zenon, <1>3, <3>1, <3>2
    <2>4. ASSUME NEW i \in 1 .. n PROVE \E c \in Retrieved : Places[c] = i
        <3>1. PICK c \in Retrieved : PlaceIn(Sooner, Candidates, c) = i
            BY <1>3
        <3> QED BY <2>1, <3>1
    <2> QED BY <2>2, <2>3, <2>4
<1> HIDE DEF n
<1>6. Ranking = [i \in 1 .. n |-> CHOOSE c \in Retrieved : Places[c] = i]
    BY RankingIsByPlace DEF n
<1>7. ASSUME NEW i \in 1 .. n
      PROVE  Ranking[i] \in Retrieved /\ Places[Ranking[i]] = i
    BY <1>5, <1>6
<1>8. Ranking \in [1 .. n -> Archive]
    BY <1>1, <1>4, <1>6, <1>7
<1>9. Ranking \in Seq(Archive) /\ Len(Ranking) = n
    BY <1>3, <1>8
<1>10. \A i, j \in DOMAIN Ranking : Ranking[i] = Ranking[j] => i = j
    <2>1. DOMAIN Ranking = 1 .. n
        BY <1>6
    <2> SUFFICES ASSUME NEW i \in 1 .. n, NEW j \in 1 .. n, Ranking[i] = Ranking[j]
                 PROVE  i = j
        BY Zenon, <2>1
    <2>2. Places[Ranking[i]] = i /\ Places[Ranking[j]] = j
        BY Zenon, <1>7
    <2> QED BY Zenon, <2>2
<1>11. \A c \in Retrieved : Ranking[Places[c]] = c
    BY <1>5, <1>7
<1> QED BY <1>3, <1>5, <1>9, <1>10, <1>11

LEMMA ProfileType ==
    ASSUME WindowAssumption
    PROVE  /\ DOMAIN Profiles = 1 .. Len(Profiles) /\ Len(Profiles) \in Nat
           /\ 1 \in DOMAIN Profiles
           /\ \A p \in DOMAIN Profiles :
                 /\ p \in Nat /\ p \in 1 .. Len(Profiles)
                 /\ Profiles[p].chunks \in Nat /\ Profiles[p].clip \in Nat
                 /\ Profiles[p].turns \in Nat /\ Profiles[p].bytes \in Nat
<1> DEFINE Profile == [chunks : Nat, clip : Nat, turns : Nat, bytes : Nat]
<1>1. Profiles \in Seq(Profile) /\ Profiles # << >>
    BY DEF WindowAssumption
<1>2. /\ DOMAIN Profiles = 1 .. Len(Profiles) /\ Len(Profiles) \in Nat
      /\ \A p \in DOMAIN Profiles : Profiles[p] \in Profile
    <2> HIDE DEF Profile
    <2> QED BY <1>1
<1>3. Len(Profiles) # 0
    <2> HIDE DEF Profile
    <2> QED BY <1>1, EmptySeq
<1>4. ASSUME NEW p \in DOMAIN Profiles
      PROVE  /\ p \in Nat /\ p \in 1 .. Len(Profiles)
             /\ Profiles[p].chunks \in Nat /\ Profiles[p].clip \in Nat
             /\ Profiles[p].turns \in Nat /\ Profiles[p].bytes \in Nat
    <2>1. Profiles[p] \in Profile
        BY <1>2
    <2>2. p \in Nat /\ p \in 1 .. Len(Profiles)
        BY <1>2
    <2> QED BY <2>1, <2>2
<1> QED BY <1>2, <1>3, <1>4

\* The texts among the files selected in the turn.
SelectedTexts == {f \in turn.selected : turn.form[f] = "text"}

LEMMA SelectedTextsAreFew ==
    ASSUME WindowAssumption, turn \in Asked,
           Cardinality(SelectedTexts) <= Min({Retrieval, Profiles[1].chunks})
    PROVE  /\ IsFiniteSet(SelectedTexts) /\ Cardinality(SelectedTexts) \in Nat
           /\ Cardinality(SelectedTexts) <= Retrieval /\ Retrieval \in Nat
           /\ Cardinality(SelectedTexts) <= Profiles[1].chunks
           /\ Profiles[1].chunks \in Nat /\ 1 \in DOMAIN Profiles
           /\ \A f \in SelectedTexts :
                 /\ IsFiniteSet(SelectedTexts \ {f})
                 /\ Cardinality(SelectedTexts \ {f}) = Cardinality(SelectedTexts) - 1
                 /\ f \in Files
<1>1. IsFiniteSet(SelectedTexts) /\ Cardinality(SelectedTexts) \in Nat
    BY TurnType, FS_Subset, FS_CardinalityType DEF SelectedTexts
<1>2. Retrieval \in Nat
    BY DEF WindowAssumption
<1>3. 1 \in DOMAIN Profiles /\ Profiles[1].chunks \in Nat
    BY ProfileType
<1>4. /\ Cardinality(SelectedTexts) <= Retrieval
      /\ Cardinality(SelectedTexts) <= Profiles[1].chunks
    <2>1. /\ Min({Retrieval, Profiles[1].chunks}) \in Nat
          /\ Min({Retrieval, Profiles[1].chunks}) <= Retrieval
          /\ Min({Retrieval, Profiles[1].chunks}) <= Profiles[1].chunks
        BY <1>2, <1>3, SmallerOfTwo
    <2> QED BY <1>1, <1>2, <1>3, <2>1
<1>5. ASSUME NEW f \in SelectedTexts
      PROVE  /\ IsFiniteSet(SelectedTexts \ {f})
             /\ Cardinality(SelectedTexts \ {f}) = Cardinality(SelectedTexts) - 1
             /\ f \in Files
    <2>1. f \in Files
        BY TurnType DEF SelectedTexts
    <2> QED BY <1>1, <2>1, FS_RemoveElement
<1> QED BY <1>1, <1>2, <1>3, <1>4, <1>5

\* The limit on openings does not cut off the first chunk of a selected text.
LEMMA SelectedTextsOpen ==
    ASSUME WindowAssumption, turn \in Asked,
           Cardinality(SelectedTexts) <= Min({Retrieval, Profiles[1].chunks}),
           NEW f \in SelectedTexts
    PROVE  <<f, 1>> \in Opening
<1> DEFINE first == <<f, 1>>
           S == {c \in Archive : c[1] \in turn.selected /\ c[2] <= Heads}
           A == {d \in S : ByFile(d, first)}
           others == SelectedTexts \ {f}
           n == Cardinality(SelectedTexts)
<1>1. Heads \in Nat \ {0} /\ Retrieval \in Nat \ {0}
    BY DEF WindowAssumption
<1>2. /\ n \in Nat /\ n <= Retrieval /\ IsFiniteSet(others)
      /\ Cardinality(others) = n - 1 /\ f \in Files /\ f \in Nat
    BY SelectedTextsAreFew, TurnType
<1>3. first \in S
    <2>1. first \in Archive
        BY <1>2, ChunkType DEF SelectedTexts
    <2> QED BY <1>1, <2>1 DEF SelectedTexts
<1>4. IsFiniteSet(1 .. Heads) /\ Cardinality(1 .. Heads) = Heads
    <2>1. 1 \in Int /\ Heads \in Int /\ Heads >= 1
        BY <1>1
    <2>2. /\ IsFiniteSet(1 .. Heads)
          /\ Cardinality(1 .. Heads) = IF 1 > Heads THEN 0 ELSE Heads - 1 + 1
        BY <2>1, FS_Interval
    <2> QED BY <2>1, <2>2
<1>5. /\ IsFiniteSet(others \X (1 .. Heads))
      /\ Cardinality(others \X (1 .. Heads)) = (n - 1) * Heads
    BY <1>2, <1>4, FS_Product
<1>6. A \subseteq others \X (1 .. Heads)
    <2> SUFFICES ASSUME NEW d \in A PROVE d \in others \X (1 .. Heads)
        OBVIOUS
    <2>1. /\ d = <<d[1], d[2]>> /\ d[1] \in Nat /\ d[2] \in Nat \ {0}
          /\ turn.form[d[1]] = "text" /\ d[1] \in turn.selected /\ d[2] <= Heads
        BY ChunkType
    <2>2. d[1] < f \/ (d[1] = f /\ d[2] < 1)
        BY DEF ByFile
    <2>3. d[1] # f
        BY <1>2, <2>1, <2>2
    <2>4. d[1] \in others /\ d[2] \in 1 .. Heads
        BY <1>1, <2>1, <2>3 DEF SelectedTexts
    <2> QED BY <2>1, <2>4
<1>7. IsFiniteSet(A) /\ Cardinality(A) <= (n - 1) * Heads /\ Cardinality(A) \in Nat
    BY <1>5, <1>6, FS_Subset, FS_CardinalityType
<1>8. (n - 1) * Heads < Heads * Retrieval
    <2>1. n - 1 \in Int /\ n - 1 < Retrieval /\ n \in Nat
        BY <1>1, <1>2
    <2>2. \A a \in Int, b \in Nat, h \in Nat \ {0} : a < b => a * h < h * b
        OBVIOUS
    <2> HIDE DEF n
    <2> QED BY <1>1, <2>1, <2>2
<1>9. Cardinality(A) < Heads * Retrieval
    <2>1. Heads * Retrieval \in Nat /\ (n - 1) * Heads \in Int
        BY <1>1, <1>2
    <2> HIDE DEF n, A
    <2> QED BY <1>7, <1>8, <2>1
<1> QED BY <1>3, <1>9 DEF Opening, First

\* The leading chunk of a selected text is preceded only by those of others.
LEMMA SelectedTextsLead ==
    ASSUME WindowAssumption, turn \in Asked,
           Cardinality(SelectedTexts) <= Min({Retrieval, Profiles[1].chunks}),
           NEW f \in SelectedTexts
    PROVE  \E c \in Candidates :
              c[1] = f /\ Places[c] \in 1 .. Cardinality(SelectedTexts)
<1> DEFINE D == {d \in Candidates : d[1] = f}
           others == SelectedTexts \ {f}
           n == Cardinality(SelectedTexts)
<1>1. <<f, 1>> \in D
    BY SelectedTextsOpen DEF Candidates
<1>2. /\ StrictOrder(Better, Candidates) /\ StrictOrder(Sooner, Candidates)
      /\ IsFiniteSet(Candidates)
    BY BetterIsAnOrder, SoonerIsAnOrder, CandidatesAreChunks
<1>3. PICK c \in D : \A d \in D : <<d, c>> \notin Better
    <2>1. D \subseteq Candidates /\ D # {}
        BY <1>1
    <2> HIDE DEF D
    <2> QED BY <1>2, <2>1, SomeIsFirst
<1>4. c \in Candidates /\ c[1] = f /\ Leads[c] = TRUE
    BY <1>3 DEF Leads
<1> DEFINE A == Ahead(Sooner, Candidates, c)
<1>5. ASSUME NEW d \in A
      PROVE  /\ d \in Candidates /\ Leads[d] /\ <<d, c>> \in Better
             /\ d[1] \in others
    <2>1. d \in Candidates /\ <<d, c>> \in Sooner
        BY DEF Ahead
    <2>2. Leads[d] /\ <<d, c>> \in Better
        <3>1. Leads[d] \in BOOLEAN
            BY <2>1 DEF Leads
        <3>2. \/ Leads[d] /\ ~ Leads[c]
              \/ Leads[d] = Leads[c] /\ <<d, c>> \in Better
            BY <2>1 DEF Sooner, LeadersFirst
        <3> QED BY <1>4, <3>1, <3>2
    <2>3. d[1] # f
        BY <1>3, <2>1, <2>2
    <2>4. ScoreOf[d] >= ScoreOf[c]
        <3>1. ScoreOf[d] > ScoreOf[c] \/ ScoreOf[d] = ScoreOf[c]
            BY <2>2 DEF Better
        <3>2. ScoreOf[d] \in Nat /\ ScoreOf[c] \in Nat
            BY <1>4, <2>1, CandidatesAreChunks
        <3> QED BY <3>1, <3>2
    <2>5. d[1] \in turn.selected
        <3>1. /\ ScoreOf[c] >= Boost /\ ScoreOf[c] \in Nat /\ ScoreOf[d] \in Nat
              /\ Boost \in Nat
            BY <1>4, <2>1, CandidatesAreChunks DEF SelectedTexts, WindowAssumption
        <3>2. d[1] \notin turn.selected => ScoreOf[d] < Boost
            BY <2>1, CandidatesAreChunks
        <3> QED BY <2>4, <3>1, <3>2
    <2>6. turn.form[d[1]] = "text"
        BY <2>1, CandidatesAreChunks, ChunkType
    <2> QED BY <2>1, <2>2, <2>3, <2>5, <2>6 DEF SelectedTexts
<1>6. [d \in A |-> d[1]] \in Injection(A, others)
    <2>1. ASSUME NEW d \in A, NEW e \in A, d[1] = e[1] PROVE d = e
        <3>1. /\ d \in Candidates /\ e \in Candidates /\ Leads[d] /\ Leads[e]
            BY <1>5
        <3>2. <<d, e>> \notin Better /\ <<e, d>> \notin Better
            BY <2>1, <3>1 DEF Leads
        <3> QED BY <1>2, <3>1, <3>2 DEF StrictOrder
    <2> HIDE DEF A, others
    <2> QED BY <1>5, <2>1 DEF Injection, IsInjective
<1>7. /\ n \in Nat /\ IsFiniteSet(others) /\ Cardinality(others) = n - 1
    BY SelectedTextsAreFew
<1>8. Cardinality(A) <= n - 1
    BY <1>6, <1>7, FS_Injection
<1>9. Places[c] = 1 + Cardinality(A) /\ Cardinality(A) \in Nat
    BY <1>2, <1>4, SoonerIsAnOrder, AheadIsFinite DEF PlaceIn
<1>10. Places[c] \in 1 .. n
    <2> HIDE DEF n, A
    <2> QED BY <1>7, <1>8, <1>9
<1> QED BY <1>4, <1>10

LEMMA BeginningsOfSequences ==
    ASSUME NEW X, NEW s \in Seq(X), NEW m \in Nat, m <= Len(s)
    PROVE  /\ SubSeq(s, 1, m) \in Seq(X) /\ Len(SubSeq(s, 1, m)) = m
           /\ \A i \in 1 .. m : SubSeq(s, 1, m)[i] = s[i]
<1>1. 1 \in Int /\ m \in Int /\ Len(s) \in Nat
    OBVIOUS
<1>2. \A i \in 1 .. m : s[i] \in X
    BY <1>1
<1>3. /\ SubSeq(s, 1, m) \in Seq(X)
      /\ Len(SubSeq(s, 1, m)) = IF 1 <= m THEN m - 1 + 1 ELSE 0
      /\ \A i \in 1 .. m - 1 + 1 : SubSeq(s, 1, m)[i] = s[1 + i - 1]
    BY <1>1, <1>2, SubSeqProperties
<1>4. m - 1 + 1 = m /\ (1 <= m \/ m = 0) /\ \A i \in 1 .. m : 1 + i - 1 = i
    OBVIOUS
<1> QED BY <1>3, <1>4

LEMMA ExcerptsType ==
    ASSUME WindowAssumption, turn \in Asked, found \in Seq(Archive),
           NEW p \in DOMAIN Profiles
    PROVE  /\ Profiles[p].chunks \in Nat
           /\ Excerpts(p) \in Seq(Archive)
           /\ Len(Excerpts(p)) = Min({Len(found), Profiles[p].chunks})
           /\ \A i \in 1 .. Len(Excerpts(p)) : Excerpts(p)[i] = found[i]
           /\ DOMAIN Excerpts(p) = 1 .. Len(Excerpts(p))
<1> DEFINE m == Min({Len(found), Profiles[p].chunks})
<1>1. Profiles[p].chunks \in Nat /\ Len(found) \in Nat
    <2>1. Len(found) \in Nat
        OBVIOUS
    <2> QED BY <2>1, ProfileType
<1>2. m \in Nat /\ m <= Len(found)
    BY <1>1, SmallerOfTwo
<1>3. Excerpts(p) = SubSeq(found, 1, m)
    BY DEF Excerpts
<1> HIDE DEF m
<1>4. /\ Excerpts(p) \in Seq(Archive) /\ Len(Excerpts(p)) = m
      /\ \A i \in 1 .. m : Excerpts(p)[i] = found[i]
    BY <1>2, <1>3, BeginningsOfSequences
<1>5. DOMAIN Excerpts(p) = 1 .. m
    BY <1>4
<1> QED BY <1>1, <1>4, <1>5 DEF m

LEMMA SelectedTextsAreDelivered ==
    ASSUME WindowAssumption, turn \in Asked, found = Ranking,
           Cardinality(SelectedTexts) <= Min({Retrieval, Profiles[1].chunks}),
           NEW f \in SelectedTexts
    PROVE  f \in Delivered(1)
<1>1. PICK c \in Candidates :
         c[1] = f /\ Places[c] \in 1 .. Cardinality(SelectedTexts)
    BY SelectedTextsLead
<1> DEFINE i == Places[c]
<1>2. /\ i \in Nat /\ i >= 1 /\ i <= Retrieval /\ i <= Profiles[1].chunks
      /\ 1 \in DOMAIN Profiles
    BY <1>1, SelectedTextsAreFew
<1>3. c \in Retrieved
    BY <1>2 DEF Retrieved
<1>4. found \in Seq(Archive) /\ i \in 1 .. Len(found) /\ found[i] = c
    BY <1>3, RankingLists
<1> HIDE DEF i
<1>5. /\ Profiles[1].chunks \in Nat
      /\ Len(Excerpts(1)) = Min({Len(found), Profiles[1].chunks})
      /\ \A k \in 1 .. Len(Excerpts(1)) : Excerpts(1)[k] = found[k]
      /\ DOMAIN Excerpts(1) = 1 .. Len(Excerpts(1))
    BY <1>2, <1>4, ExcerptsType
<1>6. i \in DOMAIN Excerpts(1) /\ Excerpts(1)[i][1] = f
    <2>1. Len(found) \in Nat /\ i <= Len(found)
        BY <1>4
    <2>3. \/ Len(Excerpts(1)) = Len(found)
          \/ Len(Excerpts(1)) = Profiles[1].chunks
        BY <1>5, <2>1, SmallerOfTwo
    <2>2. i \in 1 .. Len(Excerpts(1))
        BY <1>2, <1>5, <2>1, <2>3
    <2> QED BY <1>1, <1>4, <1>5, <2>2
<1> QED BY <1>6 DEF Delivered

\* The files sent as they are, when there is room for all of them.
LEMMA SelectedImagesAreDelivered ==
    ASSUME WindowAssumption, turn \in Asked, direct = Unread,
           Cardinality(Visual) <= Images, NEW f \in Visual
    PROVE  f \in Delivered(1)
<1> DEFINE A == {g \in Visual : Precedes(g, f)}
<1>1. IsFiniteSet(Visual) /\ f \in Nat /\ Images \in Nat
    BY TurnType, FS_Subset DEF Visual, WindowAssumption
<1>2. A \subseteq Visual /\ f \notin A
    BY <1>1 DEF Precedes
<1>3. /\ Cardinality(A) <= Cardinality(Visual) /\ Cardinality(A) # Cardinality(Visual)
      /\ IsFiniteSet(A)
    BY <1>1, <1>2, FS_Subset
<1>4. Cardinality(A) \in Nat /\ Cardinality(Visual) \in Nat
    BY <1>1, <1>3, FS_CardinalityType
<1>5. Cardinality(A) < Images
    BY <1>1, <1>3, <1>4
<1> QED BY <1>5 DEF Delivered, Unread, First

LEMMA NothingIsCrowdedOut ==
    ASSUME WindowAssumption, turn \in Asked, found = Ranking, direct = Unread,
           ~ Complete(1)
    PROVE  \/ Cardinality(SelectedTexts) > Min({Retrieval, Profiles[1].chunks})
           \/ Cardinality(Visual) > Images
           \/ \E f \in turn.selected : turn.form[f] = "partial"
<1>1. PICK f \in turn.selected : f \notin Delivered(1)
    BY DEF Complete, Missing
<1>2. turn.form[f] \in {"text", "visual", "partial"}
    BY TurnType
<1>3. Retrieval \in Nat /\ Images \in Nat /\ Profiles[1].chunks \in Nat
    BY ProfileType DEF WindowAssumption
<1>4. /\ Cardinality(SelectedTexts) \in Nat /\ Cardinality(Visual) \in Nat
      /\ Min({Retrieval, Profiles[1].chunks}) \in Nat
    BY <1>3, TurnType, SmallerOfTwo, FS_Subset, FS_CardinalityType DEF SelectedTexts, Visual
<1>5. CASE turn.form[f] = "text"
    <2>1. f \in SelectedTexts
        BY <1>5 DEF SelectedTexts
    <2>2. ~ (Cardinality(SelectedTexts) <= Min({Retrieval, Profiles[1].chunks}))
        BY <1>1, <2>1, SelectedTextsAreDelivered
    <2> QED BY <1>4, <2>2
<1>6. CASE turn.form[f] = "visual"
    BY <1>1, <1>3, <1>4, <1>6, SelectedImagesAreDelivered DEF Visual
<1> QED BY <1>2, <1>5, <1>6

-----------------------------------------------------------------------------
\* What the newest turns take is a number, and no less for more of them.
Sums(g, n) ==
    g = [i \in 0 .. n |-> IF i = 0 THEN 0
                          ELSE g[i - 1] + turn.history[Len(turn.history) - i + 1]]

LEMMA SumsExist ==
    ASSUME turn.history \in Seq(Nat), NEW n \in 0 .. Len(turn.history)
    PROVE  \E g \in [0 .. n -> Nat] : Sums(g, n)
<1> DEFINE L == Len(turn.history)
           add(i) == turn.history[L - i + 1]
           Exists(m) == \E g \in [0 .. m -> Nat] : Sums(g, m)
           T == {m \in 0 .. L : ~ Exists(m)}
<1>1. L \in Nat
    OBVIOUS
<1>2. ASSUME NEW i \in 1 .. L PROVE add(i) \in Nat
    <2>1. L - i + 1 \in 1 .. L
        BY <1>1
    <2> QED BY <2>1
<1>3. SUFFICES ASSUME T # {} PROVE FALSE
    OBVIOUS
<1>4. PICK m \in T : \A x \in T : m <= x
    <2>1. T \subseteq Nat
        BY <1>1
    <2> HIDE DEF T
    <2> QED BY <1>3, <2>1, LeastNumber
<1>5. CASE m = 0
    <2> DEFINE g == [i \in 0 .. 0 |-> 0]
    <2>1. g \in [0 .. 0 -> Nat] /\ Sums(g, 0)
        BY DEF Sums
    <2> QED BY <1>4, <1>5, <2>1
<1>6. CASE m # 0
    <2>1. m \in 1 .. L /\ m - 1 \in 0 .. L /\ ~ (m <= m - 1)
        BY <1>1, <1>4, <1>6
    <2>2. Exists(m - 1)
        BY <1>4, <2>1
    <2>3. PICK g \in [0 .. m - 1 -> Nat] : Sums(g, m - 1)
        BY <2>2
    <2> HIDE DEF add
    <2> DEFINE h == [i \in 0 .. m |-> IF i = m THEN g[m - 1] + add(m) ELSE g[i]]
    <2>4. g[m - 1] + add(m) \in Nat
        BY <1>1, <1>2, <2>1, <2>3
    <2>5. h \in [0 .. m -> Nat]
        BY <1>1, <2>1, <2>3, <2>4
    <2>6. \A i \in 0 .. m - 1 : g[i] = IF i = 0 THEN 0 ELSE g[i - 1] + add(i)
        BY <2>3 DEF Sums, add
    <2>7. \A i \in 0 .. m : h[i] = IF i = 0 THEN 0 ELSE h[i - 1] + add(i)
        <3> TAKE i \in 0 .. m
        <3>1. CASE i = m
            <4>1. h[i] = g[m - 1] + add(m) /\ h[i - 1] = g[m - 1] /\ i # 0
                BY <1>1, <1>6, <2>1, <3>1
            <4> QED BY <3>1, <4>1
        <3>2. CASE i # m
            <4>1. i \in 0 .. m - 1 /\ h[i] = g[i]
                BY <1>1, <2>1, <3>2
            <4>2. i # 0 => h[i - 1] = g[i - 1]
                BY <1>1, <2>1, <3>2
            <4> HIDE DEF h
            <4> QED BY <2>6, <4>1, <4>2
        <3> QED BY <3>1, <3>2
    <2>8. h = [i \in 0 .. m |-> h[i]]
        OBVIOUS
    <2>9. Sums(h, m)
        <3> HIDE DEF h
        <3> QED BY <2>7, <2>8 DEF Sums, add
    <2>10. Exists(m)
        BY <2>5, <2>9
    <2> QED BY <1>4, <2>10
<1> QED BY <1>5, <1>6

LEMMA TakenAreNumbers ==
    ASSUME turn.history \in Seq(Nat)
    PROVE  Taken[0] = 0 /\ \A n \in 0 .. Len(turn.history) : Taken[n] \in Nat
<1> DEFINE L == Len(turn.history)
           add(i) == turn.history[L - i + 1]
<1>1. L \in Nat /\ L \in 0 .. L
    OBVIOUS
<1>2. Taken = CHOOSE g : Sums(g, L)
    BY DEF Taken, Sums
<1>3. \E g : Sums(g, L)
    BY <1>1, SumsExist
<1>4. Sums(Taken, L)
    BY <1>2, <1>3
<1>5. \A n \in 0 .. L : Taken[n] = IF n = 0 THEN 0 ELSE Taken[n - 1] + add(n)
    BY <1>4 DEF Sums
<1>6. ASSUME NEW i \in 1 .. L PROVE add(i) \in Nat
    <2>1. L - i + 1 \in 1 .. L
        BY <1>1
    <2> QED BY <2>1
<1> HIDE DEF add
<1>7. /\ Taken[0] = 0
      /\ \A n \in 1 .. L : Taken[n] = Taken[n - 1] + add(n)
    BY <1>1, <1>5
<1>8. \A n \in 0 .. L : Taken[n] \in Nat
    <2> DEFINE T == {n \in 0 .. L : Taken[n] \notin Nat}
    <2>1. SUFFICES ASSUME T # {} PROVE FALSE
        OBVIOUS
    <2>2. PICK n \in T : \A x \in T : n <= x
        <3>1. T \subseteq Nat
            BY <1>1
        <3> HIDE DEF T
        <3> QED BY <2>1, <3>1, LeastNumber
    <2>3. n \in 1 .. L
        BY <1>1, <1>7, <2>2
    <2>4. n - 1 \in 0 .. L /\ ~ (n <= n - 1)
        BY <1>1, <2>3
    <2>5. Taken[n - 1] \in Nat
        BY <2>2, <2>4
    <2>6. Taken[n] \in Nat
        BY <1>6, <1>7, <2>3, <2>5
    <2> QED BY <2>2, <2>6
<1> QED BY <1>7, <1>8

\* Plain facts of arithmetic.
LEMMA LengthsAreNumbers ==
    ASSUME NEW X, NEW s \in Seq(X)
    PROVE  Len(s) \in Nat
OBVIOUS

LEMMA SmallerEnds ==
    ASSUME NEW x \in Nat, NEW y \in Nat, x <= y
    PROVE  \A m \in 0 .. x : m \in 0 .. y
OBVIOUS

LEMMA SmallerStill ==
    ASSUME NEW a \in Nat, NEW b \in Nat, NEW c \in Nat, a <= b, b <= c
    PROVE  a <= c
OBVIOUS

LEMMA IntervalsCount ==
    ASSUME NEW n \in Nat
    PROVE  IsFiniteSet(1 .. n) /\ Cardinality(1 .. n) = n
<1>1. 1 \in Int /\ n \in Int
    OBVIOUS
<1>2. /\ IsFiniteSet(1 .. n)
      /\ Cardinality(1 .. n) = IF 1 > n THEN 0 ELSE n - 1 + 1
    BY <1>1, FS_Interval
<1> QED BY <1>2

LEMMA Thrice ==
    ASSUME NEW a \in Nat, NEW b \in Nat, a <= b
    PROVE  3 * a <= 3 * b /\ 3 * a \in Nat /\ 3 * b \in Nat
OBVIOUS

LEMMA SumsShrink ==
    ASSUME NEW a \in Nat, NEW b \in Nat, NEW d \in Nat,
           NEW x \in Nat, NEW y \in Nat, x <= a, y <= b
    PROVE  x + y + d <= a + b + d
OBVIOUS

\* Two profiles, one smaller than the other.
LEMMA SmallerProfile ==
    ASSUME WindowAssumption, NEW p \in DOMAIN Profiles, NEW q \in DOMAIN Profiles, p <= q
    PROVE  /\ Profiles[q].chunks <= Profiles[p].chunks
           /\ Profiles[q].clip <= Profiles[p].clip
           /\ Profiles[q].turns <= Profiles[p].turns
           /\ Profiles[q].bytes <= Profiles[p].bytes
<1>1. p \in Nat /\ q \in Nat /\ p \in 1 .. Len(Profiles) /\ q \in 1 .. Len(Profiles)
    BY ProfileType
<1>2. CASE p = q
    <2>1. /\ Profiles[p].chunks \in Nat /\ Profiles[p].clip \in Nat
          /\ Profiles[p].turns \in Nat /\ Profiles[p].bytes \in Nat
        BY ProfileType
    <2> QED BY <1>2, <2>1
<1>3. CASE p < q
    BY <1>1, <1>3 DEF WindowAssumption
<1> QED BY <1>1, <1>2, <1>3

LEMMA HistoriesShrink ==
    ASSUME WindowAssumption, turn \in Asked,
           NEW p \in DOMAIN Profiles, NEW q \in DOMAIN Profiles, p <= q
    PROVE  /\ HistoryBytes(p) \in Nat /\ HistoryBytes(q) \in Nat
           /\ HistoryBytes(q) <= HistoryBytes(p)
<1> DEFINE L == Len(turn.history)
           most(k) == Min({L, Profiles[k].turns})
           S(k) == {Taken[n] : n \in {m \in 0 .. most(k) : Taken[m] <= Profiles[k].bytes}}
<1>1. turn.history \in Seq(Nat) /\ L \in Nat
    <2>1. turn.history \in Seq(Nat)
        BY TurnType
    <2> QED BY <2>1, LengthsAreNumbers
<1>2. Taken[0] = 0 /\ \A n \in 0 .. L : Taken[n] \in Nat
    BY <1>1, TakenAreNumbers
<1>3. ASSUME NEW k \in DOMAIN Profiles
      PROVE  /\ most(k) \in Nat /\ most(k) <= L /\ most(k) <= Profiles[k].turns
             /\ most(k) = L \/ most(k) = Profiles[k].turns
             /\ Profiles[k].turns \in Nat /\ Profiles[k].bytes \in Nat
    BY <1>1, ProfileType, SmallerOfTwo
<1> HIDE DEF L, most
<1>4. ASSUME NEW k \in DOMAIN Profiles
      PROVE  /\ S(k) \subseteq Nat /\ S(k) # {} /\ IsFiniteSet(S(k))
             /\ HistoryBytes(k) = Max(S(k))
    <2>1. 0 .. most(k) \subseteq 0 .. L /\ 0 \in 0 .. most(k)
        BY <1>1, <1>3
    <2>2. S(k) \subseteq Nat /\ \A x \in S(k) : x <= Profiles[k].bytes
        BY <1>2, <2>1
    <2>3. 0 \in S(k)
        <3>1. 0 <= Profiles[k].bytes
            BY <1>3
        <3> QED BY <1>2, <2>1, <3>1
    <2>4. IsFiniteSet(S(k))
        <3> HIDE DEF S
        <3> QED BY <1>3, <2>2, FS_BoundedSetOfNaturals
    <2> QED BY <2>2, <2>3, <2>4 DEF HistoryBytes, most, L
<1>5. /\ Max(S(p)) \in S(p) /\ \A y \in S(p) : y <= Max(S(p))
      /\ Max(S(q)) \in S(q)
    <2> HIDE DEF S
    <2> QED BY <1>4, GreatestNumber
<1>6. S(q) \subseteq S(p)
    <2>1. Profiles[q].turns <= Profiles[p].turns /\ Profiles[q].bytes <= Profiles[p].bytes
        BY SmallerProfile
    <2>4. /\ most(p) \in Nat /\ most(p) <= L /\ (most(p) = L \/ most(p) = Profiles[p].turns)
          /\ most(q) \in Nat /\ most(q) <= L /\ most(q) <= Profiles[q].turns
          /\ Profiles[p].turns \in Nat /\ Profiles[q].turns \in Nat
          /\ Profiles[p].bytes \in Nat /\ Profiles[q].bytes \in Nat
        BY <1>3
    <2>6. most(q) <= most(p)
        <3>1. CASE most(p) = L
            BY <2>4, <3>1
        <3>2. CASE most(p) = Profiles[p].turns
            <4>1. most(q) <= Profiles[p].turns
                BY <2>1, <2>4, SmallerStill
            <4> QED BY <3>2, <4>1
        <3> QED BY <2>4, <3>1, <3>2
    <2>2. \A m \in 0 .. most(q) : m \in 0 .. most(p)
        BY <2>4, <2>6, SmallerEnds
    <2>5. \A m \in 0 .. most(q) : m \in 0 .. L
        BY <1>1, <2>4, SmallerEnds
    <2>3. ASSUME NEW m \in 0 .. most(q), Taken[m] <= Profiles[q].bytes
          PROVE  m \in 0 .. most(p) /\ Taken[m] <= Profiles[p].bytes
        <3>1. m \in 0 .. most(p) /\ m \in 0 .. L
            BY <2>2, <2>5
        <3>2. Taken[m] \in Nat
            BY <1>2, <3>1
        <3> QED BY <2>4, <2>1, <2>3, <3>1, <3>2, SmallerStill
    <2> QED BY <2>3
<1> HIDE DEF S
<1> QED BY <1>4, <1>5, <1>6

\* The excerpts of a profile, those of the files selected and the others.
OwnExcerpts(p) == {i \in DOMAIN Excerpts(p) : Excerpts(p)[i][1] \in turn.selected}
OtherExcerpts(p) == (DOMAIN Excerpts(p)) \ OwnExcerpts(p)

LEMMA ExcerptsShrink ==
    ASSUME WindowAssumption, turn \in Asked, found \in Seq(Archive),
           NEW p \in DOMAIN Profiles, NEW q \in DOMAIN Profiles, p <= q
    PROVE  /\ ExcerptBytes(p) \in Nat /\ ExcerptBytes(q) \in Nat
           /\ ExcerptBytes(q) <= ExcerptBytes(p)
<1> DEFINE own(k) == Cardinality(OwnExcerpts(k))
           other(k) == Cardinality(OtherExcerpts(k))
           len(k) == Len(Excerpts(k))
<1>1. ASSUME NEW k \in DOMAIN Profiles
      PROVE  /\ DOMAIN Excerpts(k) = 1 .. len(k) /\ len(k) \in Nat
             /\ len(k) = Min({Len(found), Profiles[k].chunks})
             /\ \A i \in 1 .. len(k) : Excerpts(k)[i] = found[i]
    <2>1. Excerpts(k) \in Seq(Archive)
        BY ExcerptsType
    <2>2. len(k) \in Nat
        BY <2>1
    <2> QED BY <2>2, ExcerptsType
<1>2. ASSUME NEW k \in DOMAIN Profiles
      PROVE  /\ IsFiniteSet(OwnExcerpts(k)) /\ IsFiniteSet(OtherExcerpts(k))
             /\ own(k) \in Nat /\ other(k) \in Nat /\ len(k) - own(k) = other(k)
             /\ Profiles[k].clip \in Nat
    <2>1. len(k) \in Nat
        BY <1>1
    <2>2. IsFiniteSet(1 .. len(k)) /\ Cardinality(1 .. len(k)) = len(k)
        <3> HIDE DEF len
        <3> QED BY <2>1, IntervalsCount
    <2>3. OwnExcerpts(k) \subseteq 1 .. len(k)
        BY <1>1 DEF OwnExcerpts
    <2>4. OtherExcerpts(k) = (1 .. len(k)) \ OwnExcerpts(k)
        BY <1>1 DEF OtherExcerpts
    <2>5. IsFiniteSet(OwnExcerpts(k)) /\ IsFiniteSet(OtherExcerpts(k))
        BY <2>2, <2>3, <2>4, FS_Subset
    <2>6. own(k) \in Nat /\ other(k) \in Nat
        BY <2>5, FS_CardinalityType
    <2>7. (1 .. len(k)) \cap OwnExcerpts(k) = OwnExcerpts(k)
        BY <2>3
    <2>8. other(k) = len(k) - own(k)
        BY <2>2, <2>4, <2>7, FS_Difference
    <2> QED BY <2>5, <2>6, <2>8, ProfileType
<1>3. len(q) <= len(p)
    <2>4. Len(found) \in Nat
        OBVIOUS
    <2>5. Profiles[q].chunks \in Nat /\ Profiles[p].chunks \in Nat
        BY ProfileType
    <2>1. /\ Profiles[q].chunks <= Profiles[p].chunks /\ Len(found) \in Nat
          /\ Profiles[q].chunks \in Nat /\ Profiles[p].chunks \in Nat
        BY <2>4, <2>5, SmallerProfile
    <2>6. /\ len(q) = Min({Len(found), Profiles[q].chunks})
          /\ len(p) = Min({Len(found), Profiles[p].chunks})
        BY <1>1
    <2>2. /\ len(q) <= Len(found) /\ len(q) <= Profiles[q].chunks
          /\ len(p) = Len(found) \/ len(p) = Profiles[p].chunks
        <3> HIDE DEF len
        <3> QED BY <2>4, <2>5, <2>6, SmallerOfTwo
    <2>3. len(q) \in Nat /\ len(p) \in Nat
        BY <1>1
    <2>7. len(q) <= len(p)
        <3> HIDE DEF len
        <3>1. CASE len(p) = Len(found)
            BY <2>2, <3>1
        <3>2. CASE len(p) = Profiles[p].chunks
            <4>1. len(q) <= Profiles[p].chunks
                BY <2>1, <2>2, <2>3, SmallerStill
            <4> QED BY <3>2, <4>1
        <3> QED BY <2>2, <3>1, <3>2
    <2> QED BY <2>7
<1>4. OwnExcerpts(q) \subseteq OwnExcerpts(p) /\ OtherExcerpts(q) \subseteq OtherExcerpts(p)
    <2>3. /\ len(q) \in Nat /\ len(p) \in Nat
          /\ \A i \in 1 .. len(q) : Excerpts(q)[i] = found[i]
          /\ \A i \in 1 .. len(p) : Excerpts(p)[i] = found[i]
        BY <1>1
    <2>4. \A i \in 1 .. len(q) : i \in 1 .. len(p)
        <3> HIDE DEF len
        <3> QED BY <1>3, <2>3
    <2>1. \A i \in 1 .. len(q) : i \in 1 .. len(p) /\ Excerpts(q)[i] = Excerpts(p)[i]
        BY <2>3, <2>4
    <2>2. DOMAIN Excerpts(q) = 1 .. len(q) /\ DOMAIN Excerpts(p) = 1 .. len(p)
        BY <1>1
    <2> HIDE DEF len
    <2> QED BY <2>1, <2>2 DEF OwnExcerpts, OtherExcerpts
<1>5. own(q) <= own(p) /\ other(q) <= other(p)
    BY <1>2, <1>4, FS_Subset
<1>6. /\ ExcerptBytes(p) = Whole * own(p) + Profiles[p].clip * other(p)
      /\ ExcerptBytes(q) = Whole * own(q) + Profiles[q].clip * other(q)
    BY <1>2 DEF ExcerptBytes, OwnExcerpts
<1>7. Profiles[q].clip <= Profiles[p].clip
    BY SmallerProfile
<1>13. /\ own(p) \in Nat /\ own(q) \in Nat /\ other(p) \in Nat /\ other(q) \in Nat
       /\ Profiles[p].clip \in Nat /\ Profiles[q].clip \in Nat
    BY <1>2
<1> HIDE DEF own, other
<1>8. Profiles[q].clip * other(q) <= Profiles[p].clip * other(p)
    <2>1. \A a, b, c \in Nat : a <= b => a * c <= b * c
        OBVIOUS
    <2>2. \A a, b, c \in Nat : a <= b => c * a <= c * b
        OBVIOUS
    <2>3. Profiles[q].clip * other(q) <= Profiles[p].clip * other(q)
        BY <1>7, <1>13, <2>1
    <2>4. Profiles[p].clip * other(q) <= Profiles[p].clip * other(p)
        BY <1>5, <1>13, <2>2
    <2>5. \A a, b, c \in Nat : a <= b /\ b <= c => a <= c
        OBVIOUS
    <2>6. /\ Profiles[q].clip * other(q) \in Nat /\ Profiles[p].clip * other(q) \in Nat
          /\ Profiles[p].clip * other(p) \in Nat
        <3>1. \A a, b \in Nat : a * b \in Nat
            OBVIOUS
        <3> QED BY <1>13, <3>1
    <2> QED BY <2>3, <2>4, <2>5, <2>6
<1>9. Whole * own(q) <= Whole * own(p) /\ Whole * own(p) \in Nat /\ Whole * own(q) \in Nat
    BY <1>13, <1>5, Thrice DEF Whole
<1>10. Profiles[q].clip * other(q) \in Nat /\ Profiles[p].clip * other(p) \in Nat
    <2>1. \A a, b \in Nat : a * b \in Nat
        OBVIOUS
    <2> QED BY <1>13, <2>1
<1> DEFINE x == Whole * own(q)
           y == Whole * own(p)
           u == Profiles[q].clip * other(q)
           v == Profiles[p].clip * other(p)
<1>11. x \in Nat /\ y \in Nat /\ u \in Nat /\ v \in Nat /\ x <= y /\ u <= v
    BY <1>8, <1>9, <1>10
<1>12. ExcerptBytes(p) = y + v /\ ExcerptBytes(q) = x + u
    BY <1>6
<1> HIDE DEF x, y, u, v
<1> QED BY <1>11, <1>12

LEMMA FourTimes == \A a \in Nat : 4 * a \in Nat
OBVIOUS

\* A smaller profile carries no more, whatever is in the window.
LEMMA CarriedShrinks ==
    ASSUME WindowAssumption, turn \in Asked, found \in Seq(Archive), direct = Unread,
           NEW p \in DOMAIN Profiles, NEW q \in DOMAIN Profiles, p <= q
    PROVE  Carried(q) <= Carried(p)
<1>1. IsFiniteSet(direct) /\ Cardinality(direct) \in Nat
    <2>1. direct \subseteq turn.selected /\ IsFiniteSet(turn.selected)
        BY TurnType DEF Unread, First, Visual
    <2> QED BY <2>1, FS_Subset, FS_CardinalityType
<1>2. ImageReservation * Cardinality(direct) \in Nat
    BY <1>1, FourTimes DEF ImageReservation
<1>3. /\ HistoryBytes(p) \in Nat /\ HistoryBytes(q) \in Nat
      /\ HistoryBytes(q) <= HistoryBytes(p)
    BY HistoriesShrink
<1>4. /\ ExcerptBytes(p) \in Nat /\ ExcerptBytes(q) \in Nat
      /\ ExcerptBytes(q) <= ExcerptBytes(p)
    BY ExcerptsShrink
<1> DEFINE images == ImageReservation * Cardinality(direct)
<1>5. images \in Nat
    BY <1>2
<1>6. /\ Carried(p) = HistoryBytes(p) + ExcerptBytes(p) + images
      /\ Carried(q) = HistoryBytes(q) + ExcerptBytes(q) + images
    BY DEF Carried
<1> HIDE DEF images
<1>7. HistoryBytes(q) + ExcerptBytes(q) + images <= HistoryBytes(p) + ExcerptBytes(p) + images
    BY <1>3, <1>4, <1>5, SumsShrink
<1> QED BY <1>6, <1>7

-----------------------------------------------------------------------------
\* The profiles in order.
LEMMA InOrderLists ==
    ASSUME NEW S, S \subseteq Nat, IsFiniteSet(S)
    PROVE  /\ Cardinality(S) \in Nat /\ InOrder(S) \in Seq(S)
           /\ Len(InOrder(S)) = Cardinality(S)
           /\ \A i \in 1 .. Cardinality(S) :
                 InOrder(S)[i] \in S /\ InOrder(S)[1] <= InOrder(S)[i]
<1> DEFINE B == Rising(S)
           n == Cardinality(S)
           place(p) == PlaceIn(B, S, p)
<1>1. StrictOrder(B, S)
    BY RisingIsAnOrder
<1>2. n \in Nat
    BY FS_CardinalityType
<1>3. ASSUME NEW p \in S
      PROVE  place(p) = Cardinality({q \in S : q <= p}) /\ place(p) <= n
    <2> DEFINE A == Ahead(B, S, p)
    <2>1. IsFiniteSet(A) /\ Cardinality(A) \in Nat
        BY AheadIsFinite
    <2>7. p \notin A
        BY DEF Ahead, Rising
    <2>8. \A q \in S : q \in A <=> q < p
        BY DEF Ahead, Rising
    <2>9. A \subseteq S
        BY DEF Ahead
    <2>10. \A q \in S : q <= p <=> q < p \/ q = p
        OBVIOUS
    <2>6. {q \in S : q <= p} = A \cup {p}
        <3> HIDE DEF A
        <3> QED BY <2>8, <2>9, <2>10
    <2>2. p \notin A /\ {q \in S : q <= p} = A \cup {p}
        BY <2>6, <2>7
    <2>3. IsFiniteSet(A \cup {p}) /\ Cardinality(A \cup {p}) = place(p)
        BY <2>1, <2>2, FS_AddElement DEF PlaceIn
    <2>4. A \cup {p} \subseteq S
        BY DEF Ahead
    <2>5. Cardinality(A \cup {p}) <= n
        BY <2>4, FS_Subset
    <2> QED BY <2>2, <2>3, <2>5
<1>4. Front(B, S, n) = S
    BY <1>3 DEF Front
<1>5. /\ \A c, d \in S : place(c) = place(d) => c = d
      /\ \A i \in 1 .. n : \E c \in S : place(c) = i
    <2>1. /\ \A c, d \in S : PlaceIn(B, S, c) = PlaceIn(B, S, d) => c = d
          /\ \A i \in 1 .. Cardinality(Front(B, S, n)) :
                \E c \in Front(B, S, n) : PlaceIn(B, S, c) = i
        <3> HIDE DEF B, n
        <3> QED BY <1>1, <1>2, PlacesAreFilled
    <2> QED BY <1>4, <2>1
<1>6. InOrder(S) = [i \in 1 .. n |-> CHOOSE p \in S : Cardinality({q \in S : q <= p}) = i]
    BY DEF InOrder
<1>7. ASSUME NEW i \in 1 .. n
      PROVE  InOrder(S)[i] \in S /\ place(InOrder(S)[i]) = i
    <2>1. InOrder(S)[i] = CHOOSE p \in S : Cardinality({q \in S : q <= p}) = i
        BY <1>6
    <2>2. \E p \in S : Cardinality({q \in S : q <= p}) = i
        BY <1>3, <1>5
    <2>3. /\ InOrder(S)[i] \in S
          /\ Cardinality({q \in S : q <= InOrder(S)[i]}) = i
        <3> HIDE <1>6
        <3> QED BY Zenon, <2>1, <2>2
    <2> QED BY <1>3, <2>3
<1>8. ASSUME NEW i \in 1 .. n PROVE InOrder(S)[1] <= InOrder(S)[i]
    <2>1. 1 \in 1 .. n /\ i \in Nat \ {0}
        BY <1>2
    <2>2. /\ InOrder(S)[1] \in S /\ place(InOrder(S)[1]) = 1
          /\ InOrder(S)[i] \in S /\ place(InOrder(S)[i]) = i
        BY <1>7, <2>1
    <2>3. ASSUME NEW x \in S, NEW y \in S, x < y PROVE place(x) < place(y)
        <3>1. <<x, y>> \in B
            BY <2>3 DEF Rising
        <3> QED BY <1>1, <3>1, EarlierHaveSmallerPlaces
    <2>4. ~ (InOrder(S)[i] < InOrder(S)[1])
        <3>1. InOrder(S)[i] < InOrder(S)[1] => place(InOrder(S)[i]) < place(InOrder(S)[1])
            BY <2>2, <2>3
        <3>2. ~ (i < 1)
            BY <2>1
        <3> HIDE DEF place
        <3> QED BY <2>2, <3>1, <3>2
    <2>5. \A x, y \in S : ~ (x < y) => y <= x
        OBVIOUS
    <2> QED BY <2>2, <2>4, <2>5
<1>9. InOrder(S) \in [1 .. n -> S]
    BY <1>6, <1>7
<1>10. InOrder(S) \in Seq(S)
    BY <1>2, <1>9
<1>11. Len(InOrder(S)) = n
    BY <1>2, <1>9, <1>10
<1> QED BY <1>2, <1>7, <1>8, <1>10, <1>11

\* What is retrieved, and what is promised, depends on the turn and on what
\* was retrieved for it.
Fitting == {p \in DOMAIN Profiles : Complete(p) /\ Fits(p)}

LEMMA RankingStays ==
    ASSUME turn' = turn
    PROVE  Ranking' = Ranking /\ Unread' = Unread /\ Archive' = Archive
<1>1. Archive' = Archive
    BY DEF Archive, Chunks
<1>2. Unread' = Unread
    BY DEF Unread, Visual, First, Precedes
<1>3. Matching' = Matching
    BY DEF Matching, First, ByMatches, Hits, Precedes, Archive, Chunks
<1>4. Opening' = Opening
    BY DEF Opening, First, ByFile, Archive, Chunks
<1>5. \A c, M : Score(c, M)' = Score(c, M)
    BY DEF Score, Hits
<1>6. Candidates' = Candidates
    BY <1>3, <1>4 DEF Candidates
<1>7. ScoreOf' = ScoreOf
    BY <1>3, <1>5, <1>6 DEF ScoreOf
<1>8. Better' = Better
    BY <1>6, <1>7 DEF Better, ByFile
<1>9. Leads' = Leads
    BY <1>6, <1>8 DEF Leads
<1>10. Places' = Places
    BY <1>6, <1>8, <1>9 DEF Places, LeadersFirst
<1>11. Retrieved' = Retrieved
    BY <1>6, <1>10 DEF Retrieved
<1>12. Ranking' = [i \in 1 .. Cardinality(Retrieved') |->
                     CHOOSE c \in Retrieved' : Places'[c] = i]
    BY Zenon DEF Ranking, Candidates, ScoreOf, Better, Leads, Places, Retrieved
<1>13. Ranking' = Ranking
    BY <1>10, <1>11, <1>12, RankingIsByPlace
<1> QED BY <1>1, <1>2, <1>13

LEMMA PromisesStay ==
    ASSUME turn' = turn, found' = found, direct' = direct
    PROVE  /\ \A p : Complete(p)' = Complete(p) /\ Reservation(p)' = Reservation(p)
           /\ Fitting' = Fitting
BY DEF Complete, Missing, Delivered, Excerpts, Reservation, Carried, HistoryBytes, Taken,
       ExcerptBytes, Fitting, Fits

-----------------------------------------------------------------------------
\* What is promised a turn holds because what was retrieved, what fits and
\* what was sent belong together.
Tried == {"calling", "answered", "context_limit", "failed"}

WindowInv ==
    /\ turn \in Asked
    /\ stage \in {"asked", "retrieved", "incomplete", "blocked"} \cup Tried
    /\ stage = "asked" => found = << >> /\ direct = {}
    /\ stage # "asked" => found = Ranking /\ direct = Unread
    /\ stage \in {"asked", "retrieved"} => variants = << >>
    /\ stage \notin Tried => sent = << >>
    /\ stage = "incomplete" => ~ Complete(1)
    /\ variants \in Seq(DOMAIN Profiles) /\ sent \in Seq(DOMAIN Profiles)
    /\ stage \in Tried =>
          /\ variants = InOrder(Fitting)
          /\ Len(sent) <= Len(variants)
          /\ \A i \in 1 .. Len(sent) : sent[i] = variants[i]
          /\ stage = "calling" => Len(sent) < Len(variants)

LEMMA ProfilesAreFew ==
    ASSUME WindowAssumption, NEW S, S \subseteq DOMAIN Profiles
    PROVE  S \subseteq Nat /\ IsFiniteSet(S)
<1>1. DOMAIN Profiles = 1 .. Len(Profiles) /\ Len(Profiles) \in Nat
    BY ProfileType
<1>2. IsFiniteSet(1 .. Len(Profiles))
    BY <1>1, IntervalsCount
<1>3. 1 .. Len(Profiles) \subseteq Nat
    BY <1>1
<1> QED BY <1>1, <1>2, <1>3, FS_Subset

LEMMA WindowStarts == WindowInit => WindowInv
BY DEF WindowInit, WindowInv, Tried

LEMMA WindowContinues ==
    WindowAssumption /\ WindowInv /\ [WindowNext]_windowVars => WindowInv'
<1> SUFFICES ASSUME WindowAssumption, WindowInv, [WindowNext]_windowVars
             PROVE  WindowInv'
    OBVIOUS
<1>0. /\ turn \in Asked
      /\ stage \in {"asked", "retrieved", "incomplete", "blocked"} \cup Tried
      /\ stage = "asked" => found = << >> /\ direct = {}
      /\ stage # "asked" => found = Ranking /\ direct = Unread
      /\ stage \in {"asked", "retrieved"} => variants = << >>
      /\ stage \notin Tried => sent = << >>
      /\ stage = "incomplete" => ~ Complete(1)
      /\ variants \in Seq(DOMAIN Profiles) /\ sent \in Seq(DOMAIN Profiles)
      /\ stage \in Tried =>
            /\ variants = InOrder(Fitting)
            /\ Len(sent) <= Len(variants)
            /\ \A i \in 1 .. Len(sent) : sent[i] = variants[i]
            /\ stage = "calling" => Len(sent) < Len(variants)
    BY DEF WindowInv
<1>1. turn' = turn /\ (turn \in Asked)'
    <2>1. turn' = turn
        BY DEF WindowNext, Retrieve, Prepare, Answered, TooLarge, CallFails, Calling,
               windowVars
    <2>2. Asked' = Asked
        BY DEF Asked, Turns, Canonical
    <2> QED BY <1>0, <2>1, <2>2
<1>2. Ranking' = Ranking /\ Unread' = Unread
    BY <1>1, RankingStays
<1>3. CASE Retrieve
    <2>1. /\ stage = "asked" /\ stage' = "retrieved"
          /\ found' = Ranking /\ direct' = Unread
          /\ variants' = variants /\ sent' = sent
        BY <1>3 DEF Retrieve
    <2> QED BY <1>0, <1>1, <1>2, <2>1 DEF WindowInv, Tried
<1>4. CASE Prepare
    <2> DEFINE complete == {p \in DOMAIN Profiles : Complete(p)}
               fitting == {p \in complete : Fits(p)}
    <2>1. /\ stage = "retrieved" /\ found' = found /\ direct' = direct
          /\ sent' = sent /\ sent = << >> /\ variants = << >>
        BY <1>0, <1>4 DEF Prepare, Tried
    <2>2. \/ complete = {} /\ stage' = "incomplete" /\ variants' = << >>
          \/ complete # {} /\ stage' = "blocked" /\ variants' = <<Max(complete)>>
          \/ fitting # {} /\ stage' = "calling" /\ variants' = InOrder(fitting)
        BY <1>4 DEF Prepare
    <2>3. fitting = Fitting
        BY DEF Fitting
    <2>4. /\ \A p : Complete(p)' = Complete(p)
          /\ Fitting' = Fitting
        BY <1>1, <2>1, PromisesStay
    <2>5. found' = Ranking' /\ direct' = Unread'
        BY <1>0, <1>2, <2>1
    <2>6. CASE complete = {} /\ stage' = "incomplete" /\ variants' = << >>
        <3>1. 1 \in DOMAIN Profiles
            BY ProfileType
        <3>2. ~ Complete(1)
            BY <2>6, <3>1
        <3> QED BY <1>0, <1>1, <2>1, <2>4, <2>5, <2>6, <3>2 DEF WindowInv, Tried
    <2>7. CASE complete # {} /\ stage' = "blocked" /\ variants' = <<Max(complete)>>
        <3>1. complete \subseteq Nat /\ IsFiniteSet(complete)
            BY ProfilesAreFew
        <3>2. Max(complete) \in DOMAIN Profiles
            <4>1. Max(complete) \in complete
                <5> HIDE DEF complete
                <5> QED BY <2>7, <3>1, GreatestNumber
            <4> QED BY <4>1
        <3>3. variants' \in Seq(DOMAIN Profiles)
            <4> HIDE DEF complete
            <4> QED BY <2>7, <3>2
        <3> QED BY <1>0, <1>1, <2>1, <2>4, <2>5, <2>7, <3>3 DEF WindowInv, Tried
    <2>8. CASE fitting # {} /\ stage' = "calling" /\ variants' = InOrder(fitting)
        <3>1. Fitting \subseteq Nat /\ IsFiniteSet(Fitting) /\ Fitting # {}
            BY <2>3, <2>8, ProfilesAreFew DEF Fitting
        <3>2. /\ InOrder(Fitting) \in Seq(Fitting)
              /\ Len(InOrder(Fitting)) = Cardinality(Fitting)
              /\ Cardinality(Fitting) \in Nat
            BY <3>1, InOrderLists
        <3>3. Cardinality(Fitting) # 0
            BY <3>1, FS_EmptySet
        <3>4. variants' = InOrder(Fitting') /\ variants' = InOrder(Fitting)
            BY <2>3, <2>4, <2>8
        <3>5. variants' \in Seq(DOMAIN Profiles)
            BY <3>2, <3>4 DEF Fitting
        <3>6. Len(sent') = 0 /\ 0 < Len(variants')
            BY <2>1, <3>2, <3>3, <3>4
        <3>7. \A i \in 1 .. Len(sent') : sent'[i] = variants'[i]
            BY <3>6
        <3>8. (variants = InOrder(Fitting))'
            BY <3>4
        <3> QED BY <1>0, <1>1, <2>1, <2>5, <2>8, <3>5, <3>6, <3>7, <3>8
                DEF WindowInv, Tried
    <2> QED BY <2>2, <2>6, <2>7, <2>8
<1>5. CASE Answered \/ TooLarge \/ CallFails
    <2>1. /\ stage = "calling" /\ found' = found /\ direct' = direct
          /\ variants' = variants /\ sent' = Append(sent, variants[Len(sent) + 1])
          /\ stage' \in Tried /\ (stage' = "calling" => Len(sent') < Len(variants))
        BY <1>5 DEF Answered, TooLarge, CallFails, Calling, Next1, Tried
    <2>2. /\ variants = InOrder(Fitting) /\ Len(sent) < Len(variants)
          /\ \A i \in 1 .. Len(sent) : sent[i] = variants[i]
        BY <1>0, <2>1 DEF Tried
    <2>3. Fitting' = Fitting
        BY <1>1, <2>1, PromisesStay
    <2>4. /\ Len(sent) \in Nat /\ Len(variants) \in Nat
          /\ Len(sent) + 1 \in 1 .. Len(variants)
        <3>1. Len(sent) \in Nat /\ Len(variants) \in Nat
            BY <1>0, LengthsAreNumbers
        <3>2. \A m, n \in Nat : m < n => m + 1 \in 1 .. n
            OBVIOUS
        <3> QED BY <2>2, <3>1, <3>2
    <2>5. variants[Len(sent) + 1] \in DOMAIN Profiles
        BY <1>0, <2>4
    <2>6. /\ sent' \in Seq(DOMAIN Profiles) /\ Len(sent') = Len(sent) + 1
          /\ \A i \in 1 .. Len(sent) : sent'[i] = sent[i]
          /\ sent'[Len(sent) + 1] = variants[Len(sent) + 1]
        BY <1>0, <2>1, <2>5
    <2>7. ASSUME NEW i \in 1 .. Len(sent') PROVE sent'[i] = variants[i]
        <3>1. i \in 1 .. Len(sent) \/ i = Len(sent) + 1
            BY <2>4, <2>6
        <3> QED BY <2>2, <2>6, <3>1
    <2>8. Len(sent') <= Len(variants')
        BY <2>1, <2>2, <2>4, <2>6
    <2>9. (variants = InOrder(Fitting))'
        BY <2>1, <2>2, <2>3 DEF InOrder
    <2>10. stage # "asked" /\ stage' \notin {"asked", "retrieved", "incomplete", "blocked"}
        BY <2>1 DEF Tried
    <2> QED BY <1>0, <1>1, <1>2, <2>1, <2>6, <2>7, <2>8, <2>9, <2>10 DEF WindowInv
<1>6. CASE UNCHANGED windowVars
    <2>1. /\ stage' = stage /\ found' = found /\ direct' = direct
          /\ variants' = variants /\ sent' = sent
        BY <1>6 DEF windowVars
    <2>2. Fitting' = Fitting /\ Complete(1)' = Complete(1)
        BY <1>1, <2>1, PromisesStay
    <2> QED BY <1>0, <1>1, <1>2, <2>1, <2>2 DEF WindowInv, Tried, InOrder
<1> QED BY <1>3, <1>4, <1>5, <1>6 DEF WindowNext

\* A window's invariant gives what each request and each refusal promises.
LEMMA RequestsAreComplete ==
    ASSUME WindowAssumption, WindowInv
    PROVE  NoFileIsLeftBehind
<1> SUFFICES ASSUME NEW i \in DOMAIN sent
             PROVE  /\ turn.selected \subseteq Delivered(sent[i])
                    /\ Reservation(sent[i]) <= turn.budget
                    /\ Carried(sent[i]) <= Carried(sent[1])
    BY DEF NoFileIsLeftBehind
<1>1. sent \in Seq(DOMAIN Profiles) /\ variants \in Seq(DOMAIN Profiles)
    BY DEF WindowInv
<1>2. i \in 1 .. Len(sent) /\ Len(sent) \in Nat /\ 1 \in 1 .. Len(sent)
    <2>1. DOMAIN sent = 1 .. Len(sent) /\ Len(sent) \in Nat
        BY <1>1
    <2> QED BY <2>1
<1>3. stage \in Tried /\ stage # "asked"
    <2>1. sent # << >>
        BY <1>2
    <2> QED BY <2>1 DEF WindowInv, Tried
<1>4. /\ turn \in Asked /\ found = Ranking /\ direct = Unread
      /\ variants = InOrder(Fitting) /\ Len(sent) <= Len(variants)
      /\ \A j \in 1 .. Len(sent) : sent[j] = variants[j]
    BY <1>3 DEF WindowInv
<1>5. Fitting \subseteq Nat /\ IsFiniteSet(Fitting)
    BY ProfilesAreFew DEF Fitting
<1>6. /\ Len(variants) = Cardinality(Fitting) /\ Cardinality(Fitting) \in Nat
      /\ \A j \in 1 .. Cardinality(Fitting) :
            variants[j] \in Fitting /\ variants[1] <= variants[j]
    BY <1>4, <1>5, InOrderLists
<1>7. i \in 1 .. Cardinality(Fitting) /\ 1 \in 1 .. Cardinality(Fitting)
    <2>1. \A j, m, n \in Nat : j \in 1 .. m /\ m <= n => j \in 1 .. n
        OBVIOUS
    <2>2. i \in Nat /\ Len(sent) <= Cardinality(Fitting)
        BY <1>2, <1>4, <1>6
    <2> QED BY <1>2, <1>6, <2>1, <2>2
<1>8. /\ sent[i] \in Fitting /\ sent[1] \in Fitting /\ sent[1] <= sent[i]
    BY <1>2, <1>4, <1>6, <1>7
<1>9. found \in Seq(Archive)
    BY <1>4, RankingLists
<1>10. Carried(sent[i]) <= Carried(sent[1])
    BY <1>4, <1>8, <1>9, CarriedShrinks DEF Fitting
<1>11. Complete(sent[i]) /\ Fits(sent[i])
    BY <1>8 DEF Fitting
<1> QED BY <1>10, <1>11 DEF Complete, Fits, Missing

LEMMA RefusalsAreNecessary ==
    ASSUME WindowAssumption, WindowInv
    PROVE  RefusalIsNecessary
<1> SUFFICES ASSUME stage = "incomplete"
             PROVE  \/ Cardinality(SelectedTexts) > Min({Retrieval, Profiles[1].chunks})
                    \/ Cardinality(Visual) > Images
                    \/ \E f \in turn.selected : turn.form[f] = "partial"
    BY DEF RefusalIsNecessary, SelectedTexts
<1>1. turn \in Asked /\ found = Ranking /\ direct = Unread /\ ~ Complete(1)
    BY DEF WindowInv
<1> QED BY <1>1, NothingIsCrowdedOut

\* At most as many images as may be sent.
LEMMA FewImages ==
    ASSUME WindowAssumption, turn \in Asked
    PROVE  Cardinality(Unread) <= Images
<1> DEFINE B == {p \in Visual \X Visual : Precedes(p[1], p[2])}
<1>1. /\ Visual \subseteq Nat /\ IsFiniteSet(Visual) /\ Images \in Nat
    BY TurnType, FS_Subset DEF Visual, WindowAssumption
<1>2. StrictOrder(B, Visual)
    BY <1>1 DEF StrictOrder, Precedes
<1>3. \A f \in Visual : Ahead(B, Visual, f) = {g \in Visual : Precedes(g, f)}
    BY DEF Ahead
<1>4. \A f \in Visual : Cardinality(Ahead(B, Visual, f)) \in Nat
    BY <1>1, AheadIsFinite
<1>5. Unread = {f \in Visual : Cardinality({g \in Visual : Precedes(g, f)}) < Images}
    BY DEF Unread, First
<1>6. \A m, n \in Nat : m < n <=> 1 + m <= n
    OBVIOUS
<1>7. Unread = Front(B, Visual, Images)
    <2> HIDE DEF B
    <2> QED BY <1>1, <1>3, <1>4, <1>5, <1>6 DEF Front, PlaceIn
<1> HIDE DEF B
<1> QED BY <1>1, <1>2, <1>7, PlacesAreFilled

LEMMA WindowsAreTyped ==
    ASSUME WindowAssumption, WindowInv
    PROVE  WindowTypes
<1>1. stage \in {"asked", "retrieved", "incomplete", "blocked", "calling",
                "answered", "context_limit", "failed"}
    BY DEF WindowInv, Tried
<1>2. Images \in Nat /\ Retrieval \in Nat
    BY DEF WindowAssumption
<1>3. /\ found \in Seq(Archive) /\ Len(found) <= Retrieval
      /\ \A i, j \in DOMAIN found : found[i] = found[j] => i = j
      /\ Cardinality(direct) <= Images
    <2>1. CASE stage = "asked"
        <3>1. found = << >> /\ direct = {}
            BY <2>1 DEF WindowInv
        <3> QED BY <1>2, <3>1, FS_EmptySet
    <2>2. CASE stage # "asked"
        <3>1. turn \in Asked /\ found = Ranking /\ direct = Unread
            BY <2>2 DEF WindowInv
        <3> QED BY <3>1, RankingLists, FewImages
    <2> QED BY <2>1, <2>2
<1>4. \A i \in DOMAIN found : found[i] \in Archive
    BY <1>3
<1>5. Len(sent) <= Len(variants)
    <2>1. CASE stage \in Tried
        BY <2>1 DEF WindowInv
    <2>2. CASE stage \notin Tried
        <3>1. Len(sent) = 0
            BY <2>2 DEF WindowInv
        <3>2. Len(variants) \in Nat
            BY LengthsAreNumbers DEF WindowInv
        <3> QED BY <3>1, <3>2
    <2> QED BY <2>1, <2>2
<1> QED BY <1>1, <1>3, <1>4, <1>5 DEF WindowTypes

\* The files a user selects for a turn are carried by every request sent for
\* it, within the owner's limit and with no more of the dialogue, the files and
\* the images than the first, or there is a reason the turn was refused,
\* however large the archive and whatever the rest of each request takes
\* (mission_archive.retrieve_mission_archive, prepare_interactive_request and
\* analyze_interactively).
THEOREM SelectedFilesStay == WindowSpec => []SelectedFilesAreHonoured
<1>1. WindowInv => SelectedFilesAreHonoured
    BY WindowAssumption, RequestsAreComplete, RefusalsAreNecessary
       DEF SelectedFilesAreHonoured
<1>2. WindowInv /\ [WindowNext]_windowVars => WindowInv'
    BY WindowAssumption, WindowContinues
<1> QED BY <1>1, <1>2, WindowStarts, PTL DEF WindowSpec

\* What is retrieved for a turn are distinct chunks of the mission's archive,
\* no more of them and no more images than may be sent
\* (mission_archive.retrieve_mission_archive).
THEOREM WindowsKeepTheirTypes == WindowSpec => []WindowTypes
<1>1. WindowInv => WindowTypes
    BY WindowAssumption, WindowsAreTyped
<1>2. WindowInv /\ [WindowNext]_windowVars => WindowInv'
    BY WindowAssumption, WindowContinues
<1> QED BY <1>1, <1>2, WindowStarts, PTL DEF WindowSpec

-----------------------------------------------------------------------------
(***************************************************************************)
(* What the repair of an answer makes of it.  Its two loops are recursive  *)
(* functions on the numbers; what they compute is shown from the least     *)
(* number for which it would fail.                                         *)
(***************************************************************************)

\* A step that can always be taken can be taken any number of times.
Iterates(g, S, a, N, f) ==
    /\ g \in [0 .. N -> S] /\ g[0] = a
    /\ \A n \in 1 .. N : g[n] = f[<<g[n - 1], n>>]

LEMMA Iteration ==
    ASSUME NEW S, NEW a \in S, NEW N \in Nat, NEW f \in [S \X (1 .. N) -> S]
    PROVE  \E g : Iterates(g, S, a, N, f)
<1> DEFINE Run(g, m) == g[0] = a /\ \A n \in 1 .. m : g[n] = f[<<g[n - 1], n>>]
           Runs(m) == \E g \in [0 .. m -> S] : Run(g, m)
           T == {m \in 0 .. N : ~ Runs(m)}
<1>0. N \in 0 .. N
    OBVIOUS
<1>1. SUFFICES ASSUME T # {} PROVE FALSE
    <2>1. T = {} => Runs(N)
        BY <1>0
    <2> QED BY <2>1 DEF Iterates
<1>2. PICK m \in T : \A x \in T : m <= x
    <2>1. T \subseteq Nat
        OBVIOUS
    <2> HIDE DEF T
    <2> QED BY <1>1, <2>1, LeastNumber
<1>3. CASE m = 0
    <2> DEFINE g == [i \in 0 .. 0 |-> a]
    <2>1. g \in [0 .. 0 -> S] /\ g[0] = a /\ 1 .. 0 = {}
        OBVIOUS
    <2>2. Runs(0)
        BY <2>1
    <2> QED BY <1>2, <1>3, <2>2
<1>4. CASE m # 0
    <2>1. m \in 1 .. N /\ m - 1 \in 0 .. N /\ ~ (m <= m - 1)
        BY <1>2, <1>4
    <2>2. Runs(m - 1)
        BY <1>2, <2>1
    <2>3. PICK g \in [0 .. m - 1 -> S] : Run(g, m - 1)
        BY <2>2
    <2> DEFINE h == [i \in 0 .. m |-> IF i = m THEN f[<<g[m - 1], m>>] ELSE g[i]]
    <2>4. g[m - 1] \in S /\ f[<<g[m - 1], m>>] \in S
        BY <2>1, <2>3
    <2>5. h \in [0 .. m -> S]
        BY <2>1, <2>3, <2>4
    <2>6. h[0] = a /\ \A n \in 1 .. m - 1 : h[n] = f[<<h[n - 1], n>>]
        <3>1. h[0] = g[0] /\ g[0] = a
            BY <2>1, <2>3
        <3>2. ASSUME NEW n \in 1 .. m - 1 PROVE h[n] = f[<<h[n - 1], n>>]
            <4>1. h[n] = g[n] /\ h[n - 1] = g[n - 1]
                BY <2>1
            <4> QED BY <2>3, <4>1
        <3> QED BY <3>1, <3>2
    <2>7. h[m] = f[<<h[m - 1], m>>]
        <3>1. m \in 0 .. m /\ m - 1 \in 0 .. m /\ m - 1 # m
            BY <2>1
        <3>2. h[m] = f[<<g[m - 1], m>>] /\ h[m - 1] = g[m - 1]
            BY <3>1
        <3> HIDE DEF h
        <3> QED BY <3>2
    <2>8. \A n \in 1 .. m : n \in 1 .. m - 1 \/ n = m
        BY <2>1
    <2>9. Runs(m)
        <3> HIDE DEF h
        <3> QED BY <2>5, <2>6, <2>7, <2>8
    <2> QED BY <1>2, <2>9
<1> QED BY <1>3, <1>4

-----------------------------------------------------------------------------
\* The names of generated items

\* Among one more name than there are taken, one is free.
LEMMA FreshName ==
    ASSUME NEW id \in Seq(Nat), NEW suffix \in Nat, NEW seen, IsFiniteSet(seen)
    PROVE  FreeName(id, suffix, seen) \in Seq(Nat) /\ FreeName(id, suffix, seen) \notin seen
<1> DEFINE k == Cardinality(seen)
           R == suffix .. suffix + k
           free == {n \in R : Append(id, n) \notin seen}
<1>1. k \in Nat
    BY FS_CardinalityType
<1>2. R \subseteq Nat /\ IsFiniteSet(R) /\ Cardinality(R) = k + 1
    <2>1. suffix \in Int /\ suffix + k \in Int
        BY <1>1
    <2>2. /\ IsFiniteSet(R)
          /\ Cardinality(R) = IF suffix > suffix + k THEN 0 ELSE (suffix + k) - suffix + 1
        <3> HIDE DEF k
        <3> QED BY <2>1, FS_Interval
    <2>3. ~ (suffix > suffix + k) /\ (suffix + k) - suffix + 1 = k + 1
        BY <1>1
    <2>4. R \subseteq Nat
        BY <1>1
    <2> QED BY <2>2, <2>3, <2>4
<1>3. \A m, n \in Nat : Append(id, m) = Append(id, n) => m = n
    <2> TAKE m, n \in Nat
    <2>1. /\ Append(id, m)[Len(id) + 1] = m
          /\ Append(id, n)[Len(id) + 1] = n
        OBVIOUS
    <2> QED BY <2>1
<1>4. free # {}
    <2> SUFFICES ASSUME free = {} PROVE FALSE
        OBVIOUS
    <2> DEFINE g == [n \in R |-> Append(id, n)]
    <2>1. g \in Injection(R, seen)
        <3> HIDE DEF R
        <3> QED BY <1>2, <1>3 DEF Injection, IsInjective
    <2>2. k + 1 <= k
        <3> HIDE DEF R, k, g
        <3> QED BY <1>2, <2>1, FS_Injection DEF k
    <2> QED BY <1>1, <2>2
<1>5. free \subseteq Nat
    BY <1>2
<1>6. \E n \in free : \A m \in free : n <= m
    <2> HIDE DEF free
    <2> QED BY <1>4, <1>5, LeastNumber
<1> DEFINE least == CHOOSE n \in free : \A m \in free : n <= m
<1>7. least \in free
    <2> HIDE DEF free
    <2> QED BY Zenon, <1>6
<1>8. FreeName(id, suffix, seen) = Append(id, least)
    BY Zenon DEF FreeName
<1>9. Append(id, least) \notin seen /\ least \in Nat
    <2> HIDE DEF least
    <2> QED BY <1>5, <1>7
<1> HIDE DEF least
<1> QED BY <1>8, <1>9

\* What is called otherwise is the same otherwise.
Renaming(r, x) == [r EXCEPT !.id = x]
IdsOf(s) == {s[i].id : i \in DOMAIN s}

NextName(before, item, n) ==
    IF item.id \notin IdsOf(before) THEN item
    ELSE Renaming(item, FreeName(item.id, n, IdsOf(before)))

NamedBy(g, items) ==
    g = [n \in 0 .. Len(items) |->
           IF n = 0 THEN << >> ELSE Append(g[n - 1], NextName(g[n - 1], items[n], n))]

LEMMA NamedIsARun ==
    ASSUME NEW items
    PROVE  Named(items) = (CHOOSE g : NamedBy(g, items))[Len(items)]
BY DEF Named, NamedBy, NextName, Renaming, IdsOf

Nameable(R) ==
    \A r \in R : /\ r.id \in Seq(Nat)
                 /\ \A x \in Seq(Nat) : Renaming(r, x) \in R /\ Renaming(r, x).id = x

\* The first n items have names of their own, the same or another, and every
\* name there was is still one.
WellNamed(done, items, n) ==
    /\ Len(done) = n
    /\ \A i, j \in 1 .. n : done[i].id = done[j].id => i = j
    /\ \A i \in 1 .. n :
          \/ done[i] = items[i]
          \/ \E x \in Seq(Nat) : done[i] = Renaming(items[i], x)
    /\ \A i \in 1 .. n : \E j \in 1 .. n : done[j].id = items[i].id

LEMMA IdsAreFew ==
    ASSUME NEW R, NEW s \in Seq(R)
    PROVE  IsFiniteSet(IdsOf(s))
<1> DEFINE f == [i \in 1 .. Len(s) |-> s[i].id]
<1>1. Len(s) \in Nat /\ DOMAIN s = 1 .. Len(s)
    OBVIOUS
<1>2. IsFiniteSet(1 .. Len(s))
    BY <1>1, FS_Interval
<1>3. f \in Surjection(1 .. Len(s), IdsOf(s))
    BY <1>1 DEF IdsOf, Surjection
<1> QED BY <1>2, <1>3, FS_Surjection

LEMMA NextNameIsNew ==
    ASSUME NEW R, Nameable(R), NEW before \in Seq(R), NEW item \in R, NEW n \in Nat
    PROVE  /\ NextName(before, item, n) \in R
           /\ NextName(before, item, n).id \notin IdsOf(before)
           /\ \/ NextName(before, item, n) = item
              \/ /\ item.id \in IdsOf(before)
                 /\ \E x \in Seq(Nat) : NextName(before, item, n) = Renaming(item, x)
<1> DEFINE x == FreeName(item.id, n, IdsOf(before))
<1>1. IsFiniteSet(IdsOf(before)) /\ item.id \in Seq(Nat)
    BY IdsAreFew DEF Nameable
<1>2. x \in Seq(Nat) /\ x \notin IdsOf(before)
    BY <1>1, FreshName
<1>3. Renaming(item, x) \in R /\ Renaming(item, x).id = x
    BY <1>2 DEF Nameable
<1>4. NextName(before, item, n) = IF item.id \notin IdsOf(before) THEN item
                                  ELSE Renaming(item, x)
    BY DEF NextName
<1> HIDE DEF x
<1> QED BY <1>2, <1>3, <1>4

LEMMA OneMoreName ==
    ASSUME NEW R, Nameable(R), NEW items \in Seq(R), NEW n \in 1 .. Len(items),
           NEW before \in Seq(R), WellNamed(before, items, n - 1)
    PROVE  LET done == Append(before, NextName(before, items[n], n))
           IN done \in Seq(R) /\ WellNamed(done, items, n)
<1> DEFINE next == NextName(before, items[n], n)
           done == Append(before, next)
<1>1. n \in Nat /\ n - 1 \in Nat /\ Len(before) = n - 1 /\ items[n] \in R
    BY DEF WellNamed
<1>2. /\ next \in R /\ next.id \notin IdsOf(before)
      /\ \/ next = items[n]
         \/ /\ items[n].id \in IdsOf(before)
            /\ \E x \in Seq(Nat) : next = Renaming(items[n], x)
    <2>1. ASSUME NEW item \in R
          PROVE  /\ NextName(before, item, n) \in R
                 /\ NextName(before, item, n).id \notin IdsOf(before)
                 /\ \/ NextName(before, item, n) = item
                    \/ /\ item.id \in IdsOf(before)
                       /\ \E x \in Seq(Nat) : NextName(before, item, n) = Renaming(item, x)
        BY <1>1, NextNameIsNew
    <2> QED BY Zenon, <1>1, <2>1
<1> HIDE DEF next
<1>3. /\ done \in Seq(R) /\ Len(done) = n /\ done[n] = next
      /\ \A i \in 1 .. n - 1 : done[i] = before[i]
    BY <1>1, <1>2
<1> HIDE DEF done
<1>4. /\ \A i \in 1 .. n : i \in 1 .. n - 1 \/ i = n
      /\ \A i \in 1 .. n - 1 : i \in 1 .. n /\ i # n
      /\ n \in 1 .. n
    BY <1>1
<1>5. \A i \in 1 .. n - 1 : before[i].id \in IdsOf(before)
    BY <1>1 DEF IdsOf
<1>6. \A id \in IdsOf(before) : \E i \in 1 .. n - 1 : before[i].id = id
    BY <1>1 DEF IdsOf
<1>7. ASSUME NEW i \in 1 .. n, NEW j \in 1 .. n, done[i].id = done[j].id
      PROVE  i = j
    <2>1. CASE i = n \/ j = n
        BY <1>2, <1>3, <1>4, <1>5, <1>7, <2>1
    <2>2. CASE i # n /\ j # n
        BY <1>3, <1>4, <1>7, <2>2 DEF WellNamed
    <2> QED BY <2>1, <2>2
<1>8. ASSUME NEW i \in 1 .. n
      PROVE  \/ done[i] = items[i]
             \/ \E x \in Seq(Nat) : done[i] = Renaming(items[i], x)
    <2>1. CASE i = n
        BY <1>2, <1>3, <2>1
    <2>2. CASE i # n
        <3>1. i \in 1 .. n - 1 /\ done[i] = before[i]
            BY <1>3, <1>4, <2>2
        <3>2. \/ before[i] = items[i]
              \/ \E x \in Seq(Nat) : before[i] = Renaming(items[i], x)
            BY <3>1 DEF WellNamed
        <3> QED BY <3>1, <3>2
    <2> QED BY <2>1, <2>2
<1>9. ASSUME NEW i \in 1 .. n PROVE \E j \in 1 .. n : done[j].id = items[i].id
    <2>1. CASE i = n /\ next = items[n]
        BY <1>3, <1>4, <2>1
    <2>2. CASE i = n /\ next # items[n]
        <3>1. items[n].id \in IdsOf(before)
            BY <1>2, <2>2
        <3>2. PICK j \in 1 .. n - 1 : before[j].id = items[n].id
            BY <1>6, <3>1
        <3> QED BY <1>3, <1>4, <2>2, <3>2
    <2>3. CASE i # n
        <3>1. PICK j \in 1 .. n - 1 : before[j].id = items[i].id
            BY <1>4, <2>3 DEF WellNamed
        <3> QED BY <1>3, <1>4, <3>1
    <2> QED BY <2>1, <2>2, <2>3
<1>10. WellNamed(done, items, n)
    BY <1>3, <1>7, <1>8, <1>9 DEF WellNamed
<1>11. done = Append(before, NextName(before, items[n], n))
    BY DEF done, next
<1> QED BY <1>3, <1>10, <1>11

\* Whatever its items are called, an answer's have names of their own once it
\* is repaired.
LEMMA NamesAreUnique ==
    ASSUME NEW R, Nameable(R), NEW items \in Seq(R)
    PROVE  Named(items) \in Seq(R) /\ WellNamed(Named(items), items, Len(items))
<1> DEFINE N == Len(items)
           StepOf(p) == Append(p[1], NextName(p[1], items[p[2]], p[2]))
           f == [p \in Seq(R) \X (1 .. N) |-> StepOf(p)]
<1>1. N \in Nat /\ << >> \in Seq(R) /\ \A n \in 1 .. N : items[n] \in R
    OBVIOUS
<1>2. f \in [Seq(R) \X (1 .. N) -> Seq(R)]
    <2>1. ASSUME NEW p \in Seq(R) \X (1 .. N) PROVE StepOf(p) \in Seq(R)
        <3>1. p[1] \in Seq(R) /\ p[2] \in 1 .. N /\ p[2] \in Nat
            BY <1>1
        <3>2. NextName(p[1], items[p[2]], p[2]) \in R
            BY <1>1, <3>1, NextNameIsNew
        <3> QED BY <3>1, <3>2
    <2> HIDE DEF StepOf
    <2> QED BY <2>1
<1>3. \E g \in [0 .. N -> Seq(R)] :
         g[0] = << >> /\ \A n \in 1 .. N : g[n] = f[<<g[n - 1], n>>]
    <2> DEFINE S == Seq(R)
               a == << >>
    <2>1. a \in S /\ N \in Nat /\ f \in [S \X (1 .. N) -> S]
        BY <1>1, <1>2
    <2> HIDE DEF f, N, S, a
    <2>2. \E g : Iterates(g, S, a, N, f)
        BY <2>1, Iteration
    <2> QED BY <2>2 DEF S, a, Iterates
<1>4. PICK g \in [0 .. N -> Seq(R)] :
         g[0] = << >> /\ \A n \in 1 .. N : g[n] = f[<<g[n - 1], n>>]
    BY <1>3
<1>5. ASSUME NEW n \in 1 .. N
      PROVE  g[n] = Append(g[n - 1], NextName(g[n - 1], items[n], n))
    <2>1. n - 1 \in 0 .. N /\ g[n - 1] \in Seq(R)
        BY <1>1, <1>4
    <2>2. <<g[n - 1], n>> \in Seq(R) \X (1 .. N)
        BY <2>1
    <2>3. f[<<g[n - 1], n>>] = StepOf(<<g[n - 1], n>>)
        <3> HIDE DEF StepOf
        <3> QED BY <2>2
    <2> QED BY <1>4, <2>3
<1>6. NamedBy(g, items)
    <2>1. g = [n \in 0 .. N |-> g[n]]
        BY <1>4
    <2>2. \A n \in 0 .. N : g[n] = IF n = 0 THEN << >>
                                   ELSE Append(g[n - 1], NextName(g[n - 1], items[n], n))
        <3>1. \A n \in 0 .. N : n = 0 \/ n \in 1 .. N
            BY <1>1
        <3> HIDE DEF f
        <3> QED BY <1>1, <1>4, <1>5, <3>1
    <2> HIDE DEF f
    <2> QED BY <2>1, <2>2 DEF NamedBy
<1> DEFINE h == CHOOSE k : NamedBy(k, items)
<1>7. NamedBy(h, items)
    BY Zenon, <1>6
<1>8. Named(items) = h[N]
    BY NamedIsARun
<1> HIDE DEF h, f
<1>9. /\ h[0] = << >>
      /\ \A n \in 1 .. N : h[n] = Append(h[n - 1], NextName(h[n - 1], items[n], n))
    <2>1. \A n \in 0 .. N : h[n] = IF n = 0 THEN << >>
                                   ELSE Append(h[n - 1], NextName(h[n - 1], items[n], n))
        BY <1>7 DEF NamedBy
    <2>2. 0 \in 0 .. N /\ \A n \in 1 .. N : n \in 0 .. N /\ n # 0
        BY <1>1
    <2> QED BY <2>1, <2>2
<1> DEFINE Good(n) == h[n] \in Seq(R) /\ WellNamed(h[n], items, n)
           T == {n \in 0 .. N : ~ Good(n)}
<1>10. T = {}
    <2> SUFFICES ASSUME T # {} PROVE FALSE
        OBVIOUS
    <2>1. PICK n \in T : \A x \in T : n <= x
        <3>1. T \subseteq Nat
            BY <1>1
        <3> HIDE DEF T
        <3> QED BY <3>1, LeastNumber
    <2>2. CASE n = 0
        <3>1. 1 .. 0 = {} /\ Len(<< >>) = 0
            OBVIOUS
        <3>2. Good(0)
            BY <1>1, <1>9, <3>1 DEF WellNamed
        <3> QED BY <2>1, <2>2, <3>2
    <2>3. CASE n # 0
        <3>1. n \in 1 .. N /\ n - 1 \in 0 .. N /\ ~ (n <= n - 1)
            BY <1>1, <2>1, <2>3
        <3>2. Good(n - 1)
            BY <2>1, <3>1
        <3>3. h[n] = Append(h[n - 1], NextName(h[n - 1], items[n], n))
            BY <1>9, <3>1
        <3>4. Good(n)
            BY <3>1, <3>2, <3>3, OneMoreName
        <3> QED BY <2>1, <3>4
    <2> QED BY <2>2, <2>3
<1>11. N \in 0 .. N
    BY <1>1
<1>12. Good(N)
    BY <1>10, <1>11
<1> QED BY <1>8, <1>12

-----------------------------------------------------------------------------
\* The sources of a dossier

Targets == SourceIds \cup {NoSource}
AliasMaps == UNION {[D -> Targets] : D \in SUBSET SourceIds}
Siftings == [kept : Seq(Source), alias : AliasMaps]

AliasTo(state, id, target) == [state EXCEPT !.alias = Aliased(@, id, target)]
SameAs(state, source) == {i \in DOMAIN state.kept : state.kept[i].page = source.page}

LEMMA KeepIsOneOf ==
    ASSUME NEW state, NEW source
    PROVE  Keep(state, source) =
             IF source.page = "invalid" THEN AliasTo(state, source.id, NoSource)
             ELSE IF \E i \in DOMAIN state.kept : state.kept[i].id = source.id
             THEN AliasTo(state, source.id, source.id)
             ELSE IF SameAs(state, source) # {}
             THEN AliasTo(state, source.id,
                          state.kept[CHOOSE i \in SameAs(state, source) : TRUE].id)
             ELSE [AliasTo(state, source.id, source.id)
                     EXCEPT !.kept = Append(state.kept, source)]
BY DEF Keep, AliasTo, SameAs

LEMMA AliasIsAdded ==
    ASSUME NEW state \in Siftings, NEW id \in SourceIds, NEW target \in Targets
    PROVE  /\ AliasTo(state, id, target) \in Siftings
           /\ AliasTo(state, id, target).kept = state.kept
           /\ DOMAIN AliasTo(state, id, target).alias = DOMAIN state.alias \cup {id}
           /\ \A s \in DOMAIN state.alias \cup {id} :
                 AliasTo(state, id, target).alias[s] =
                    IF s = id THEN target ELSE state.alias[s]
<1> DEFINE D == DOMAIN state.alias \cup {id}
           a == [s \in D |-> IF s = id THEN target ELSE state.alias[s]]
<1>1. state.alias \in AliasMaps /\ state.kept \in Seq(Source)
    BY DEF Siftings
<1>2. PICK E \in SUBSET SourceIds : state.alias \in [E -> Targets]
    BY <1>1 DEF AliasMaps
<1>3. D \in SUBSET SourceIds /\ a \in [D -> Targets]
    BY <1>2
<1>4. a \in AliasMaps
    <2> HIDE DEF a, D
    <2> QED BY <1>3 DEF AliasMaps
<1>5. AliasTo(state, id, target) = [kept |-> state.kept, alias |-> a]
    BY DEF AliasTo, Aliased, Siftings
<1>6. DOMAIN a = D /\ \A s \in D : a[s] = IF s = id THEN target ELSE state.alias[s]
    OBVIOUS
<1> HIDE DEF a
<1> QED BY <1>1, <1>4, <1>5, <1>6 DEF Siftings

LEMMA AnotherKept ==
    ASSUME NEW r \in Siftings, NEW k
    PROVE  [r EXCEPT !.kept = k] = [kept |-> k, alias |-> r.alias]
BY DEF Siftings

\* After n sources: the kept have identifiers and pages of their own, each is
\* one of the n, and an alias leads to a page its identifier stood for.
Sifted(state, sources, n) ==
    /\ \A i, j \in DOMAIN state.kept :
          state.kept[i].id = state.kept[j].id \/ state.kept[i].page = state.kept[j].page
             => i = j
    /\ \A i \in DOMAIN state.kept :
          /\ state.kept[i].page # "invalid"
          /\ \E j \in 1 .. n : sources[j] = state.kept[i]
    /\ \A s \in DOMAIN state.alias :
          \/ state.alias[s] = NoSource
          \/ \E i \in DOMAIN state.kept, j \in 1 .. n :
                /\ state.kept[i].id = state.alias[s]
                /\ sources[j].id = s /\ sources[j].page = state.kept[i].page

LEMMA AliasKeepsSifted ==
    ASSUME NEW sources, NEW n \in Nat, NEW state \in Siftings,
           Sifted(state, sources, n), NEW id \in SourceIds, NEW target \in Targets,
           \/ target = NoSource
           \/ \E i \in DOMAIN state.kept, j \in 1 .. n + 1 :
                 /\ state.kept[i].id = target
                 /\ sources[j].id = id /\ sources[j].page = state.kept[i].page
    PROVE  /\ AliasTo(state, id, target) \in Siftings
           /\ Sifted(AliasTo(state, id, target), sources, n + 1)
<1> DEFINE t == AliasTo(state, id, target)
<1>1. /\ t \in Siftings /\ t.kept = state.kept
      /\ DOMAIN t.alias = DOMAIN state.alias \cup {id}
      /\ \A s \in DOMAIN state.alias \cup {id} :
            t.alias[s] = IF s = id THEN target ELSE state.alias[s]
    BY AliasIsAdded
<1> HIDE DEF t
<1>2. \A j \in 1 .. n : j \in 1 .. n + 1
    OBVIOUS
<1>3. ASSUME NEW s \in DOMAIN t.alias
      PROVE  \/ t.alias[s] = NoSource
             \/ \E i \in DOMAIN t.kept, j \in 1 .. n + 1 :
                   /\ t.kept[i].id = t.alias[s]
                   /\ sources[j].id = s /\ sources[j].page = t.kept[i].page
    <2>1. CASE s = id
        BY <1>1, <2>1
    <2>2. CASE s # id
        <3>1. s \in DOMAIN state.alias /\ t.alias[s] = state.alias[s]
            BY <1>1, <1>3, <2>2
        <3> QED BY <1>1, <1>2, <3>1 DEF Sifted
    <2> QED BY <2>1, <2>2
<1>4. Sifted(t, sources, n + 1)
    BY <1>1, <1>2, <1>3 DEF Sifted
<1> QED BY <1>1, <1>4 DEF t

LEMMA KeepKeepsSifted ==
    ASSUME NEW sources \in Seq(Source), NEW n \in 1 .. Len(sources),
           NEW state \in Siftings, Sifted(state, sources, n - 1)
    PROVE  /\ Keep(state, sources[n]) \in Siftings
           /\ Sifted(Keep(state, sources[n]), sources, n)
<1> DEFINE src == sources[n]
<1>1. /\ n \in Nat /\ n - 1 \in Nat /\ (n - 1) + 1 = n /\ n \in 1 .. n
      /\ src \in Source /\ src.id \in SourceIds /\ src.id \in Targets
    <2>1. n \in Nat /\ n - 1 \in Nat /\ (n - 1) + 1 = n /\ n \in 1 .. n
        OBVIOUS
    <2>2. src \in Source
        OBVIOUS
    <2>3. src.id \in SourceIds /\ src.id \in Targets
        <3> HIDE DEF src
        <3> QED BY <2>2 DEF Source, Targets
    <2> QED BY <2>1, <2>2, <2>3
<1>2. state.kept \in Seq(Source) /\ DOMAIN state.kept = 1 .. Len(state.kept)
    BY DEF Siftings
<1>3. \A i \in DOMAIN state.kept : state.kept[i].id \in Targets
    <2>1. \A r \in Source : r.id \in Targets
        BY DEF Source, Targets
    <2>2. \A i \in DOMAIN state.kept : state.kept[i] \in Source
        BY <1>2
    <2> QED BY <2>1, <2>2
<1>4. CASE src.page = "invalid"
    <2>1. Keep(state, src) = AliasTo(state, src.id, NoSource)
        BY <1>4, KeepIsOneOf
    <2>2. NoSource \in Targets
        BY DEF Targets
    <2> HIDE DEF src
    <2>3. AliasTo(state, src.id, NoSource) \in Siftings
          /\ Sifted(AliasTo(state, src.id, NoSource), sources, (n - 1) + 1)
        BY <1>1, <2>2, AliasKeepsSifted
    <2> QED BY <1>1, <2>1, <2>3 DEF src
<1>5. CASE /\ src.page # "invalid"
           /\ \E i \in DOMAIN state.kept : state.kept[i].id = src.id
    <2>1. Keep(state, src) = AliasTo(state, src.id, src.id)
        BY <1>5, KeepIsOneOf
    <2>2. PICK i \in DOMAIN state.kept : state.kept[i].id = src.id
        BY <1>5
    <2>3. PICK j \in 1 .. n - 1 : sources[j] = state.kept[i]
        BY DEF Sifted
    <2>4. j \in 1 .. (n - 1) + 1
        BY <1>1
    <2> HIDE DEF src
    <2>5. AliasTo(state, src.id, src.id) \in Siftings
          /\ Sifted(AliasTo(state, src.id, src.id), sources, (n - 1) + 1)
        BY <1>1, <2>2, <2>3, <2>4, AliasKeepsSifted
    <2> QED BY <1>1, <2>1, <2>5 DEF src
<1>6. CASE /\ src.page # "invalid"
           /\ ~ \E i \in DOMAIN state.kept : state.kept[i].id = src.id
           /\ SameAs(state, src) # {}
    <2> DEFINE i == CHOOSE k \in SameAs(state, src) : TRUE
               to == state.kept[i].id
    <2>1. Keep(state, src) = AliasTo(state, src.id, to)
        BY <1>6, KeepIsOneOf
    <2>2. i \in SameAs(state, src)
        BY <1>6
    <2> HIDE DEF i
    <2>3. i \in DOMAIN state.kept /\ state.kept[i].page = src.page
        BY <2>2 DEF SameAs
    <2>4. to \in Targets
        BY <1>3, <2>3
    <2>5. \E k \in DOMAIN state.kept, j \in 1 .. (n - 1) + 1 :
             /\ state.kept[k].id = to
             /\ sources[j].id = src.id /\ sources[j].page = state.kept[k].page
        BY <1>1, <2>3
    <2> HIDE DEF src, to
    <2>6. AliasTo(state, src.id, to) \in Siftings
          /\ Sifted(AliasTo(state, src.id, to), sources, (n - 1) + 1)
        BY <1>1, <2>4, <2>5, AliasKeepsSifted
    <2> QED BY <1>1, <2>1, <2>6 DEF src
<1>7. CASE /\ src.page # "invalid"
           /\ ~ \E i \in DOMAIN state.kept : state.kept[i].id = src.id
           /\ SameAs(state, src) = {}
    <2> DEFINE a == AliasTo(state, src.id, src.id)
               t == [a EXCEPT !.kept = Append(state.kept, src)]
               m == Len(state.kept)
    <2>1. Keep(state, src) = t
        BY <1>7, KeepIsOneOf
    <2>2. /\ a \in Siftings
          /\ DOMAIN a.alias = DOMAIN state.alias \cup {src.id}
          /\ \A s \in DOMAIN state.alias \cup {src.id} :
                a.alias[s] = IF s = src.id THEN src.id ELSE state.alias[s]
        BY <1>1, AliasIsAdded
    <2> HIDE DEF a
    <2>3. /\ m \in Nat /\ Append(state.kept, src) \in Seq(Source)
          /\ DOMAIN Append(state.kept, src) = 1 .. m + 1
          /\ Append(state.kept, src)[m + 1] = src
          /\ \A i \in 1 .. m : Append(state.kept, src)[i] = state.kept[i]
        BY <1>1, <1>2
    <2>4. t = [kept |-> Append(state.kept, src), alias |-> a.alias] /\ t \in Siftings
        <3>1. a = [kept |-> a.kept, alias |-> a.alias] /\ a.alias \in AliasMaps
            BY <2>2 DEF Siftings
        <3>2. t = [kept |-> Append(state.kept, src), alias |-> a.alias]
            <4>1. \A k : [a EXCEPT !.kept = k] = [kept |-> k, alias |-> a.alias]
                BY <2>2, AnotherKept
            <4> QED BY <4>1
        <3> QED BY <2>3, <3>1, <3>2 DEF Siftings
    <2> DEFINE K == t.kept
    <2>5. /\ DOMAIN K = 1 .. m + 1 /\ K[m + 1] = src
          /\ \A i \in 1 .. m : K[i] = state.kept[i]
          /\ t.alias = a.alias
        BY <2>3, <2>4
    <2>6. \A i \in 1 .. m : K[i].id # src.id /\ K[i].page # src.page
        BY <1>2, <1>7, <2>5 DEF SameAs
    <2>7. \A i \in 1 .. m + 1 : i \in 1 .. m \/ i = m + 1
        BY <2>3
    <2> HIDE DEF t, m, src
    <2>8. ASSUME NEW i \in DOMAIN K, NEW j \in DOMAIN K, K[i].id = K[j].id \/ K[i].page = K[j].page
          PROVE  i = j
        <3>1. CASE i = m + 1 \/ j = m + 1
            BY <2>5, <2>6, <2>7, <2>8, <3>1
        <3>2. CASE i \in 1 .. m /\ j \in 1 .. m
            <4>1. i \in DOMAIN state.kept /\ j \in DOMAIN state.kept
                BY <1>2, <3>2 DEF m
            <4> QED BY <2>5, <2>8, <3>2, <4>1 DEF Sifted
        <3> QED BY <2>5, <2>7, <3>1, <3>2
    <2>9. ASSUME NEW i \in DOMAIN K
          PROVE  K[i].page # "invalid" /\ \E j \in 1 .. n : sources[j] = K[i]
        <3>1. CASE i = m + 1
            BY <1>1, <1>7, <2>5, <3>1 DEF src
        <3>2. CASE i \in 1 .. m
            <4>1. i \in DOMAIN state.kept
                BY <1>2, <3>2 DEF m
            <4>2. \A j \in 1 .. n - 1 : j \in 1 .. n
                BY <1>1
            <4> QED BY <2>5, <3>2, <4>1, <4>2 DEF Sifted
        <3> QED BY <2>5, <2>7, <3>1, <3>2
    <2>10. ASSUME NEW s \in DOMAIN t.alias
           PROVE  \/ t.alias[s] = NoSource
                  \/ \E i \in DOMAIN K, j \in 1 .. n :
                        /\ K[i].id = t.alias[s]
                        /\ sources[j].id = s /\ sources[j].page = K[i].page
        <3>1. CASE s = src.id
            <4>1. t.alias[s] = src.id
                BY <2>2, <2>5, <3>1
            <4>2. m + 1 \in DOMAIN K
                BY <2>3, <2>5
            <4>3. sources[n] = src
                BY DEF src
            <4> QED BY <1>1, <2>5, <3>1, <4>1, <4>2, <4>3
        <3>2. CASE s # src.id
            <4>1. s \in DOMAIN state.alias /\ t.alias[s] = state.alias[s]
                BY <2>2, <2>5, <2>10, <3>2
            <4>2. CASE state.alias[s] # NoSource
                <5>1. PICK i \in DOMAIN state.kept, j \in 1 .. n - 1 :
                         /\ state.kept[i].id = state.alias[s]
                         /\ sources[j].id = s /\ sources[j].page = state.kept[i].page
                    BY <4>1, <4>2 DEF Sifted
                <5>2. i \in DOMAIN K /\ K[i] = state.kept[i] /\ j \in 1 .. n
                    <6>1. i \in 1 .. m
                        BY <1>2 DEF m
                    <6>2. \A k \in 1 .. m : k \in 1 .. m + 1
                        BY <2>3
                    <6> QED BY <1>1, <2>5, <6>1, <6>2
                <5> QED BY <4>1, <5>1, <5>2
            <4> QED BY <4>1, <4>2
        <3> QED BY <3>1, <3>2
    <2>11. Sifted(t, sources, n)
        BY <2>8, <2>9, <2>10 DEF Sifted
    <2> QED BY <2>1, <2>4, <2>11 DEF t, src
<1> QED BY <1>4, <1>5, <1>6, <1>7

KeptBy(g, sources) ==
    g = [n \in 0 .. Len(sources) |->
           IF n = 0 THEN [kept |-> << >>, alias |-> << >>]
           ELSE Keep(g[n - 1], sources[n])]

LEMMA KeptSourcesIsARun ==
    ASSUME NEW sources
    PROVE  KeptSources(sources) = (CHOOSE g : KeptBy(g, sources))[Len(sources)]
BY DEF KeptSources, KeptBy

LEMMA NothingSifted ==
    ASSUME NEW sources
    PROVE  /\ [kept |-> << >>, alias |-> << >>] \in Siftings
           /\ Sifted([kept |-> << >>, alias |-> << >>], sources, 0)
<1>1. << >> \in Seq(Source) /\ DOMAIN << >> = {}
    OBVIOUS
<1>2. << >> \in [{} -> Targets]
    BY <1>1
<1>3. << >> \in AliasMaps
    BY <1>2 DEF AliasMaps
<1> QED BY <1>1, <1>3 DEF Siftings, Sifted

\* However many sources a dossier names, those kept are of use and the aliases
\* lead to them.
LEMMA SourcesAreSifted ==
    ASSUME NEW sources \in Seq(Source)
    PROVE  /\ KeptSources(sources) \in Siftings
           /\ Sifted(KeptSources(sources), sources, Len(sources))
<1> DEFINE N == Len(sources)
           start == [kept |-> << >>, alias |-> << >>]
           P == {p \in Siftings \X (1 .. N) : Sifted(p[1], sources, p[2] - 1)}
           StepOf(p) == IF p \in P THEN Keep(p[1], sources[p[2]]) ELSE start
           f == [p \in Siftings \X (1 .. N) |-> StepOf(p)]
<1>1. N \in Nat /\ start \in Siftings /\ Sifted(start, sources, 0)
    BY NothingSifted
<1> HIDE DEF start
<1>2. f \in [Siftings \X (1 .. N) -> Siftings]
    <2>1. ASSUME NEW p \in Siftings \X (1 .. N) PROVE StepOf(p) \in Siftings
        <3>1. CASE p \in P
            <4>1. p[1] \in Siftings /\ p[2] \in 1 .. N /\ Sifted(p[1], sources, p[2] - 1)
                BY <3>1
            <4>2. Keep(p[1], sources[p[2]]) \in Siftings
                BY <4>1, KeepKeepsSifted
            <4> QED BY <3>1, <4>2
        <3>2. CASE p \notin P
            BY <1>1, <3>2
        <3> QED BY <3>1, <3>2
    <2> HIDE DEF StepOf
    <2> QED BY <2>1
<1>3. \E g \in [0 .. N -> Siftings] :
         g[0] = start /\ \A n \in 1 .. N : g[n] = f[<<g[n - 1], n>>]
    <2> DEFINE S == Siftings
    <2> HIDE DEF f, N, S
    <2>1. \E g : Iterates(g, S, start, N, f)
        BY <1>1, <1>2, Iteration DEF S
    <2> QED BY <2>1 DEF S, Iterates
<1>4. PICK g \in [0 .. N -> Siftings] :
         g[0] = start /\ \A n \in 1 .. N : g[n] = f[<<g[n - 1], n>>]
    BY <1>3
<1> DEFINE Good(n) == Sifted(g[n], sources, n)
<1>5. ASSUME NEW n \in 1 .. N, Good(n - 1)
      PROVE  g[n] = Keep(g[n - 1], sources[n]) /\ Good(n)
    <2>1. n - 1 \in 0 .. N /\ g[n - 1] \in Siftings
        BY <1>1, <1>4
    <2>2. <<g[n - 1], n>> \in Siftings \X (1 .. N)
        BY <2>1
    <2>3. <<g[n - 1], n>> \in P
        BY <1>5, <2>2
    <2>4. StepOf(<<g[n - 1], n>>) = Keep(g[n - 1], sources[n])
        BY <2>3
    <2>5. f[<<g[n - 1], n>>] = StepOf(<<g[n - 1], n>>)
        <3> HIDE DEF StepOf
        <3> QED BY <2>2
    <2>6. g[n] = f[<<g[n - 1], n>>]
        <3> HIDE DEF f
        <3> QED BY <1>4
    <2>7. g[n] = Keep(g[n - 1], sources[n])
        <3> HIDE DEF f, StepOf, P
        <3> QED BY <2>4, <2>5, <2>6
    <2>8. Sifted(Keep(g[n - 1], sources[n]), sources, n)
        <3> HIDE DEF f, P
        <3> QED BY <1>5, <2>1, KeepKeepsSifted
    <2> HIDE DEF f, P
    <2> QED BY <2>7, <2>8
<1> HIDE DEF f, P
<1> DEFINE T == {n \in 0 .. N : ~ Good(n)}
<1>6. T = {}
    <2> SUFFICES ASSUME T # {} PROVE FALSE
        OBVIOUS
    <2>1. PICK n \in T : \A x \in T : n <= x
        <3>1. T \subseteq Nat
            BY <1>1
        <3> HIDE DEF T
        <3> QED BY <3>1, LeastNumber
    <2>2. CASE n = 0
        BY <1>1, <1>4, <2>1, <2>2
    <2>3. CASE n # 0
        <3>1. n \in 1 .. N /\ n - 1 \in 0 .. N /\ ~ (n <= n - 1)
            BY <1>1, <2>1, <2>3
        <3>2. Good(n - 1)
            BY <2>1, <3>1
        <3>3. Good(n)
            BY <1>5, <3>1, <3>2
        <3> QED BY <2>1, <3>3
    <2> QED BY <2>2, <2>3
<1>7. \A n \in 1 .. N : g[n] = Keep(g[n - 1], sources[n])
    <2> TAKE n \in 1 .. N
    <2>1. n - 1 \in 0 .. N
        BY <1>1
    <2>2. Good(n - 1)
        BY <1>6, <2>1
    <2> QED BY <1>5, <2>2
<1>8. KeptBy(g, sources)
    <2>1. g = [n \in 0 .. N |-> g[n]]
        BY <1>4
    <2>2. \A n \in 0 .. N : g[n] = IF n = 0 THEN start ELSE Keep(g[n - 1], sources[n])
        <3>1. \A n \in 0 .. N : n = 0 \/ n \in 1 .. N
            BY <1>1
        <3> QED BY <1>1, <1>4, <1>7, <3>1
    <2> QED BY <2>1, <2>2 DEF KeptBy, start
<1> DEFINE h == CHOOSE k : KeptBy(k, sources)
<1>9. KeptBy(h, sources)
    BY Zenon, <1>8
<1>10. KeptSources(sources) = h[N]
    BY KeptSourcesIsARun
<1> HIDE DEF h
<1>11. h[0] = start /\ \A n \in 1 .. N : h[n] = Keep(h[n - 1], sources[n])
    <2>1. \A n \in 0 .. N : h[n] = IF n = 0 THEN start ELSE Keep(h[n - 1], sources[n])
        BY <1>9 DEF KeptBy, start
    <2>2. 0 \in 0 .. N /\ \A n \in 1 .. N : n \in 0 .. N /\ n # 0
        BY <1>1
    <2> QED BY <2>1, <2>2
<1> DEFINE U == {n \in 0 .. N : h[n] # g[n]}
<1>12. U = {}
    <2> SUFFICES ASSUME U # {} PROVE FALSE
        OBVIOUS
    <2>1. PICK n \in U : \A x \in U : n <= x
        <3>1. U \subseteq Nat
            BY <1>1
        <3> HIDE DEF U
        <3> QED BY <3>1, LeastNumber
    <2>2. CASE n = 0
        BY <1>4, <1>11, <2>1, <2>2
    <2>3. CASE n # 0
        <3>1. n \in 1 .. N /\ n - 1 \in 0 .. N /\ ~ (n <= n - 1)
            BY <1>1, <2>1, <2>3
        <3>2. h[n - 1] = g[n - 1]
            BY <2>1, <3>1
        <3> QED BY <1>7, <1>11, <2>1, <3>1, <3>2
    <2> QED BY <2>2, <2>3
<1>13. N \in 0 .. N
    BY <1>1
<1>14. h[N] = g[N] /\ Good(N) /\ g[N] \in Siftings
    BY <1>4, <1>6, <1>12, <1>13
<1> QED BY <1>10, <1>14

-----------------------------------------------------------------------------
\* Repaired dossiers and answers, of any length

AnyHypothesis == [id : Seq(Nat), confidence : {Low, High},
                  on : {"confirmed", "declared", "file", "unknown"}]
AnyClaim == [id : Seq(Nat), from : SUBSET SourceIds,
             status : {"supported", "unverified", "hypothesis"}]

LEMMA HypothesesAreNameable == Nameable(AnyHypothesis)
BY DEF Nameable, AnyHypothesis, Renaming

LEMMA ClaimsAreNameable == Nameable(AnyClaim)
BY DEF Nameable, AnyClaim, Renaming

\* A claim grounded in what was kept rests on pages it cited itself.
LEMMA GroundedClaim ==
    ASSUME NEW sources \in Seq(Source), NEW claim \in AnyClaim,
           NEW k \in Siftings, Sifted(k, sources, Len(sources))
    PROVE  LET after == Grounded(claim, k)
           IN /\ after \in AnyClaim
              /\ after.from \subseteq {k.kept[i].id : i \in DOMAIN k.kept}
              /\ after.status \in {claim.status, "unverified"}
              /\ after.status = "supported" => after.from # {}
              /\ \A i \in DOMAIN k.kept : k.kept[i].id \in after.from =>
                    \E j \in DOMAIN sources :
                       sources[j].id \in claim.from /\ sources[j].page = k.kept[i].page
<1> DEFINE known == {k.kept[i].id : i \in DOMAIN k.kept}
           from == {k.alias[s] : s \in claim.from \cap DOMAIN k.alias} \cap known
           after == Grounded(claim, k)
<1>1. k.kept \in Seq(Source) /\ DOMAIN sources = 1 .. Len(sources)
    BY DEF Siftings
<1>2. \A i \in DOMAIN k.kept : k.kept[i].id \in SourceIds
    <2>1. \A r \in Source : r.id \in SourceIds
        BY DEF Source
    <2>2. \A i \in DOMAIN k.kept : k.kept[i] \in Source
        BY <1>1
    <2> QED BY <2>1, <2>2
<1>3. from \in SUBSET SourceIds
    BY <1>2
<1>4. after = [claim EXCEPT !.from = from, !.status = Downgraded(claim.status, from)]
    BY Zenon DEF Grounded
<1>5. Downgraded(claim.status, from) \in {claim.status, "unverified"}
      /\ (Downgraded(claim.status, from) = "supported" => from # {})
    BY DEF Downgraded
<1>6. \A i \in DOMAIN k.kept : k.kept[i].id \in from =>
         \E j \in DOMAIN sources :
            sources[j].id \in claim.from /\ sources[j].page = k.kept[i].page
    <2> SUFFICES ASSUME NEW i \in DOMAIN k.kept, k.kept[i].id \in from
                 PROVE  \E j \in DOMAIN sources :
                           sources[j].id \in claim.from /\ sources[j].page = k.kept[i].page
        OBVIOUS
    <2>1. PICK s \in claim.from \cap DOMAIN k.alias : k.alias[s] = k.kept[i].id
        OBVIOUS
    <2>2. k.alias[s] # NoSource
        BY <1>2, <2>1, ReviewAssumption DEF NoSource
    <2>3. PICK i2 \in DOMAIN k.kept, j \in 1 .. Len(sources) :
             /\ k.kept[i2].id = k.alias[s]
             /\ sources[j].id = s /\ sources[j].page = k.kept[i2].page
        BY <2>1, <2>2 DEF Sifted
    <2>4. i2 = i
        BY <2>1, <2>3 DEF Sifted
    <2> QED BY <1>1, <2>1, <2>3, <2>4
<1>7. from \subseteq known
    OBVIOUS
<1> DEFINE st == Downgraded(claim.status, from)
<1> HIDE DEF from, known, after, st
<1>8. after \in AnyClaim /\ after.from = from /\ after.status = st
    <2>1. st \in {"supported", "unverified", "hypothesis"}
        <3>1. claim.status \in {"supported", "unverified", "hypothesis"}
            BY DEF AnyClaim
        <3> QED BY <1>5, <3>1 DEF st
    <2>2. after = [claim EXCEPT !.from = from, !.status = st]
        BY <1>4 DEF st
    <2> QED BY <1>3, <2>1, <2>2 DEF AnyClaim
<1>9. st \in {claim.status, "unverified"} /\ (st = "supported" => from # {})
    BY <1>5 DEF st
<1>10. from \subseteq {k.kept[i].id : i \in DOMAIN k.kept}
    BY <1>7 DEF known
<1> QED BY <1>6, <1>8, <1>9, <1>10 DEF after

\* Hypotheses keep their number and get names of their own; a name that stood
\* for one still does.
LEMMA NamedHypotheses ==
    ASSUME NEW hypotheses \in Seq(AnyHypothesis)
    PROVE  /\ Named(hypotheses) \in Seq(AnyHypothesis)
           /\ Len(Named(hypotheses)) = Len(hypotheses)
           /\ Distinct(Named(hypotheses), IdOf)
           /\ IdsOf(hypotheses) \subseteq IdsOf(Named(hypotheses))
<1> DEFINE done == Named(hypotheses)
           N == Len(hypotheses)
<1>1. done \in Seq(AnyHypothesis) /\ WellNamed(done, hypotheses, N)
    BY HypothesesAreNameable, NamesAreUnique
<1> HIDE DEF done
<1>2. Len(done) = N /\ DOMAIN done = 1 .. N /\ DOMAIN hypotheses = 1 .. N
    BY <1>1 DEF WellNamed
<1>3. Distinct(done, IdOf)
    BY <1>1, <1>2 DEF WellNamed, Distinct, IdOf
<1>4. IdsOf(hypotheses) \subseteq IdsOf(done)
    BY <1>1, <1>2 DEF WellNamed, IdsOf
<1> QED BY <1>1, <1>2, <1>3, <1>4 DEF done

AnyDossier == [sources : Seq(Source), claims : Seq(AnyClaim)]

\* No claim is promoted, and none rests on a page it did not cite.
Conservative(before, after) ==
    \A i \in DOMAIN after.claims :
       /\ i \in DOMAIN before.claims
       /\ after.claims[i].status \in {before.claims[i].status, "unverified"}
       /\ \A k \in DOMAIN after.sources :
             after.sources[k].id \in after.claims[i].from =>
                \E j \in DOMAIN before.sources :
                   /\ before.sources[j].id \in before.claims[i].from
                   /\ before.sources[j].page = after.sources[k].page

LEMMA RepairedDossier ==
    ASSUME NEW d \in AnyDossier
    PROVE  /\ Repaired(d) \in AnyDossier
           /\ ValidDossier(Repaired(d))
           /\ Conservative(d, Repaired(d))
<1> DEFINE sources == d.sources
           claims == d.claims
           k == KeptSources(sources)
           N == Len(claims)
           items == [i \in DOMAIN claims |-> Grounded(claims[i], k)]
           done == Named(items)
           r == [sources |-> k.kept, claims |-> done]
<1>1. Repaired(d) = r
    BY Zenon DEF Repaired
<1>2. sources \in Seq(Source) /\ claims \in Seq(AnyClaim)
    BY DEF AnyDossier
<1> HIDE DEF sources, claims
<1>3. k \in Siftings /\ Sifted(k, sources, Len(sources))
    BY <1>2, SourcesAreSifted
<1> HIDE DEF k
<1>4. k.kept \in Seq(Source)
    BY <1>3 DEF Siftings
<1>5. N \in Nat /\ DOMAIN claims = 1 .. N /\ \A i \in 1 .. N : claims[i] \in AnyClaim
    BY <1>2
<1>6. ASSUME NEW i \in 1 .. N
      PROVE  /\ items[i] \in AnyClaim
             /\ items[i].from \subseteq {k.kept[j].id : j \in DOMAIN k.kept}
             /\ items[i].status \in {claims[i].status, "unverified"}
             /\ items[i].status = "supported" => items[i].from # {}
             /\ \A m \in DOMAIN k.kept : k.kept[m].id \in items[i].from =>
                   \E j \in DOMAIN sources :
                      sources[j].id \in claims[i].from /\ sources[j].page = k.kept[m].page
    <2>1. claims[i] \in AnyClaim /\ items[i] = Grounded(claims[i], k)
        BY <1>5
    <2> HIDE DEF items
    <2> QED BY <1>2, <1>3, <2>1, GroundedClaim
<1>7. items \in Seq(AnyClaim) /\ Len(items) = N
    <2>1. items \in [1 .. N -> AnyClaim]
        BY <1>5, <1>6
    <2> HIDE DEF items
    <2> QED BY <1>5, <2>1
<1> HIDE DEF items
<1>8. done \in Seq(AnyClaim) /\ WellNamed(done, items, N)
    BY <1>7, ClaimsAreNameable, NamesAreUnique
<1> HIDE DEF done
<1>9. Len(done) = N /\ DOMAIN done = 1 .. N
    BY <1>8 DEF WellNamed
<1>10. \A i \in 1 .. N : done[i].from = items[i].from /\ done[i].status = items[i].status
    <2> TAKE i \in 1 .. N
    <2>1. CASE done[i] = items[i]
        BY <2>1
    <2>2. CASE \E x \in Seq(Nat) : done[i] = Renaming(items[i], x)
        <3>1. items[i] \in AnyClaim
            BY <1>6
        <3>2. \A c \in AnyClaim : \A x \in Seq(Nat) :
                 Renaming(c, x).from = c.from /\ Renaming(c, x).status = c.status
            BY DEF AnyClaim, Renaming
        <3> QED BY <2>2, <3>1, <3>2
    <2> QED BY <1>8, <2>1, <2>2 DEF WellNamed
<1>11. /\ Distinct(k.kept, IdOf) /\ Distinct(k.kept, PageOf)
       /\ \A i \in DOMAIN k.kept : k.kept[i].page # "invalid"
    BY <1>3 DEF Sifted, Distinct, IdOf, PageOf
<1>12. Distinct(done, IdOf)
    BY <1>8, <1>9 DEF WellNamed, Distinct, IdOf
<1>13. ValidDossier(r)
    <2>1. r.sources = k.kept /\ r.claims = done
        OBVIOUS
    <2>2. \A i \in DOMAIN done :
             /\ done[i].from \subseteq {k.kept[j].id : j \in DOMAIN k.kept}
             /\ done[i].status = "supported" => done[i].from # {}
        BY <1>6, <1>9, <1>10
    <2> HIDE DEF r
    <2> QED BY <1>11, <1>12, <2>1, <2>2 DEF ValidDossier
<1>14. Conservative(d, r)
    <2>1. r.sources = k.kept /\ r.claims = done
        OBVIOUS
    <2> HIDE DEF r
    <2>2. ASSUME NEW i \in DOMAIN done
          PROVE  /\ i \in DOMAIN claims
                 /\ done[i].status \in {claims[i].status, "unverified"}
                 /\ \A m \in DOMAIN k.kept : k.kept[m].id \in done[i].from =>
                       \E j \in DOMAIN sources :
                          /\ sources[j].id \in claims[i].from
                          /\ sources[j].page = k.kept[m].page
        <3>1. i \in 1 .. N
            BY <1>9
        <3> QED BY <1>5, <1>6, <1>10, <3>1
    <2> QED BY <2>1, <2>2 DEF Conservative, sources, claims
<1>15. r \in AnyDossier
    BY <1>4, <1>8 DEF AnyDossier
<1> HIDE DEF r
<1> QED BY <1>1, <1>13, <1>14, <1>15

\* Whatever identifiers, pages and citations an answer repeats, and however
\* many there are, its repair meets the contract: it is not thrown away for a
\* repetition (analyze_interactively, before _parsed_provider_output).
THEOREM RepairedAnswersAreValid ==
    ASSUME NEW hypotheses \in Seq(AnyHypothesis), NEW changes, NEW d \in AnyDossier
    PROVE  ValidAnswer([hypotheses |-> Named(hypotheses), changes |-> changes,
                        dossier |-> Repaired(d)])
<1>1. Distinct(Named(hypotheses), IdOf)
    BY NamedHypotheses
<1>2. ValidDossier(Repaired(d))
    BY RepairedDossier
<1> DEFINE w == [hypotheses |-> Named(hypotheses), changes |-> changes,
                 dossier |-> Repaired(d)]
<1>3. w.hypotheses = Named(hypotheses) /\ w.dossier = Repaired(d)
    OBVIOUS
<1> HIDE DEF w
<1>4. ValidAnswer(w)
    BY <1>1, <1>2, <1>3 DEF ValidAnswer
<1> QED BY <1>4 DEF w

-----------------------------------------------------------------------------
\* The review of one answer

AnyChange == [subject : Seq(Nat), before : {NotEvaluable, Low, High},
              now : {NotEvaluable, Low, High},
              direction : {"increased", "decreased", "unchanged", "not_evaluable"},
              on : {"confirmed", "declared", "file", "unknown"}]

AnswerType(a) ==
    /\ a.hypotheses \in Seq(AnyHypothesis)
    /\ a.changes \in Seq(AnyChange)
    /\ a.dossier \in AnyDossier

LEMMA PartsOfAnswers ==
    /\ Hypothesis \subseteq AnyHypothesis
    /\ Change \subseteq AnyChange
    /\ Claim \subseteq AnyClaim
    /\ \A id \in Seq(Nat) : Plain(id) \in AnyHypothesis
    /\ \A c \in AnyClaim, id \in Seq(Nat) : [c EXCEPT !.id = id] \in AnyClaim
<1>1. << >> \in Seq(Nat) /\ <<0>> \in Seq(Nat) /\ <<2>> \in Seq(Nat) /\ <<9>> \in Seq(Nat)
    OBVIOUS
<1>2. Hypothesis \subseteq AnyHypothesis
    BY <1>1 DEF Hypothesis, AnyHypothesis
<1>3. Change \subseteq AnyChange
    <2>1. NotEvaluable .. High = {NotEvaluable, Low, High}
        BY DEF NotEvaluable, Low, High
    <2>2. {<< >>, Existing, <<9>>} \subseteq Seq(Nat)
        BY <1>1 DEF Existing
    <2>3. {"increased", "unchanged"} \subseteq
             {"increased", "decreased", "unchanged", "not_evaluable"}
        OBVIOUS
    <2> QED BY <2>1, <2>2, <2>3 DEF Change, AnyChange
<1>4. Claim \subseteq AnyClaim
    BY <1>1 DEF Claim, AnyClaim
<1>5. \A id \in Seq(Nat) : Plain(id) \in AnyHypothesis
    BY DEF Plain, AnyHypothesis
<1>6. \A c \in AnyClaim, id \in Seq(Nat) : [c EXCEPT !.id = id] \in AnyClaim
    BY DEF AnyClaim
<1> QED BY <1>2, <1>3, <1>4, <1>5, <1>6

LEMMA PlainlyIsTyped ==
    /\ Plainly.hypotheses = <<Plain(<< >>)>>
    /\ Plainly.changes = << >>
    /\ Plainly.dossier = [sources |-> << >>, claims |-> << >>]
    /\ AnswerType(Plainly)
<1>1. << >> \in Seq(Nat) /\ Plain(<< >>) \in AnyHypothesis
    <2>1. << >> \in Seq(Nat)
        OBVIOUS
    <2> QED BY <2>1, PartsOfAnswers
<1>2. /\ <<Plain(<< >>)>> \in Seq(AnyHypothesis) /\ << >> \in Seq(AnyChange)
      /\ << >> \in Seq(Source) /\ << >> \in Seq(AnyClaim)
    BY <1>1
<1>3. [sources |-> << >>, claims |-> << >>] \in AnyDossier
    BY <1>2 DEF AnyDossier
<1>4. /\ Plainly.hypotheses = <<Plain(<< >>)>>
      /\ Plainly.changes = << >>
      /\ Plainly.dossier = [sources |-> << >>, claims |-> << >>]
    BY DEF Plainly
<1> QED BY <1>2, <1>3, <1>4 DEF AnswerType

\* The answers considered, part by part.
Reasoning(h, c, f) ==
    [Plainly EXCEPT !.hypotheses = <<h>>, !.changes = <<c>>, !.file = f]
Naming(ids, t) ==
    [Plainly EXCEPT !.hypotheses = [i \in DOMAIN ids |-> Plain(ids[i])],
                    !.target = t]
Researching(r, c, id, s) ==
    [Plainly EXCEPT !.research = TRUE, !.retrieved = r,
       !.dossier = [sources |-> s, claims |-> <<c, [c EXCEPT !.id = id]>>]]
Failing(st, f, r) == [Plainly EXCEPT !.state = st, !.flaw = f, !.research = r]
Failings(S, F, R) == {Failing(st, f, r) : st \in S, f \in F, r \in R}

LEMMA AnswersInParts ==
    /\ \A a \in Reasoned : \E h \in Hypothesis, c \in Change, f \in BOOLEAN :
          a = Reasoning(h, c, f)
    /\ \A a \in Renamed :
          \E ids \in [1 .. 3 -> Repeated] \cup [1 .. 2 -> Repeated], t \in Repeated :
             a = Naming(ids, t)
    /\ \A a \in Researched :
          \E r \in SUBSET Pages, c \in Claim, id \in {<< >>, <<2>>},
             s \in UNION {[1 .. n -> Source] : n \in 2 .. MaxSources} :
                a = Researching(r, c, id, s)
    /\ \A a \in Flawed : \E st, f, r : a = Failing(st, f, r)
<1>1. Reasoned = {Reasoning(h, c, f) : h \in Hypothesis, c \in Change, f \in BOOLEAN}
    BY DEF Reasoned, Reasoning
<1>2. Renamed = {Naming(ids, t) :
         ids \in [1 .. 3 -> Repeated] \cup [1 .. 2 -> Repeated], t \in Repeated}
    BY DEF Renamed, Naming
<1>3. Researched = {Researching(r, c, id, s) :
         r \in SUBSET Pages, c \in Claim, id \in {<< >>, <<2>>},
         s \in UNION {[1 .. n -> Source] : n \in 2 .. MaxSources}}
    BY DEF Researched, Researching
<1>4. \A a \in Flawed : \E st, f, r : a = Failing(st, f, r)
    <2>1. Flawed = Failings({"completed", "incomplete", "failed", "refused"},
                     {"none", "no_text", "unparsable", "other_mission",
                      "skips_review", "shallow_dossier", "other_intent"}, BOOLEAN)
        BY DEF Flawed, Failings, Failing
    <2>2. PICK S, F : Flawed = Failings(S, F, BOOLEAN)
        BY <2>1
    <2>3. \A a \in Failings(S, F, BOOLEAN) : \E st, f, r : a = Failing(st, f, r)
        BY DEF Failings
    <2> QED BY <2>2, <2>3
<1>5. \A a \in Reasoned : \E h \in Hypothesis, c \in Change, f \in BOOLEAN :
         a = Reasoning(h, c, f)
    BY <1>1
<1>6. \A a \in Renamed :
         \E ids \in [1 .. 3 -> Repeated] \cup [1 .. 2 -> Repeated], t \in Repeated :
            a = Naming(ids, t)
    BY <1>2
<1>7. \A a \in Researched :
         \E r \in SUBSET Pages, c \in Claim, id \in {<< >>, <<2>>},
            s \in UNION {[1 .. n -> Source] : n \in 2 .. MaxSources} :
               a = Researching(r, c, id, s)
    <2> DEFINE Ids == {<< >>, <<2>>}
               Lists == UNION {[1 .. n -> Source] : n \in 2 .. MaxSources}
               Webs == SUBSET Pages
    <2>1. Researched = {Researching(r, c, id, s) :
             r \in Webs, c \in Claim, id \in Ids, s \in Lists}
        BY <1>3
    <2> HIDE DEF Ids, Lists, Webs
    <2>2. \A a \in Researched : \E r \in Webs, c \in Claim, id \in Ids, s \in Lists :
             a = Researching(r, c, id, s)
        BY <2>1
    <2> QED BY Zenon, <2>2 DEF Ids, Lists, Webs
<1> QED BY <1>4, <1>5, <1>6, <1>7

LEMMA AnswersAreTyped ==
    ASSUME NEW a \in Answers
    PROVE  AnswerType(a)
<1>1. CASE a \in Reasoned
    <2>1. PICK h \in Hypothesis, c \in Change, f \in BOOLEAN :
             a = Reasoning(h, c, f)
        BY <1>1, AnswersInParts
    <2>2. a.hypotheses = <<h>> /\ a.changes = <<c>> /\ a.dossier = Plainly.dossier
        BY <2>1 DEF Plainly, Reasoning
    <2>3. h \in AnyHypothesis /\ c \in AnyChange
        BY PartsOfAnswers
    <2>4. <<h>> \in Seq(AnyHypothesis) /\ <<c>> \in Seq(AnyChange)
        BY <2>3
    <2> QED BY <2>2, <2>4, PlainlyIsTyped DEF AnswerType
<1>2. CASE a \in Renamed
    <2>1. PICK ids \in [1 .. 3 -> Repeated] \cup [1 .. 2 -> Repeated], t \in Repeated :
             a = Naming(ids, t)
        BY <1>2, AnswersInParts
    <2> DEFINE h == [i \in DOMAIN ids |-> Plain(ids[i])]
    <2>2. a.hypotheses = h /\ a.changes = Plainly.changes /\ a.dossier = Plainly.dossier
        BY <2>1 DEF Plainly, Naming
    <2>3. Repeated \subseteq Seq(Nat)
        <3>1. << >> \in Seq(Nat) /\ <<2>> \in Seq(Nat) /\ <<3>> \in Seq(Nat)
            OBVIOUS
        <3> QED BY <3>1 DEF Repeated
    <2>4. PICK n \in {2, 3} : ids \in [1 .. n -> Repeated]
        OBVIOUS
    <2>5. h \in [1 .. n -> AnyHypothesis]
        BY <2>3, <2>4, PartsOfAnswers
    <2>6. h \in Seq(AnyHypothesis)
        <3>1. n \in Nat
            OBVIOUS
        <3> HIDE DEF h
        <3> QED BY <2>5, <3>1
    <2> HIDE DEF h
    <2> QED BY <2>2, <2>6, PlainlyIsTyped DEF AnswerType
<1>3. CASE a \in Researched
    <2>1. PICK r \in SUBSET Pages, c \in Claim, id \in {<< >>, <<2>>},
               s \in UNION {[1 .. n -> Source] : n \in 2 .. MaxSources} :
             a = Researching(r, c, id, s)
        BY <1>3, AnswersInParts
    <2> DEFINE d == [sources |-> s, claims |-> <<c, [c EXCEPT !.id = id]>>]
    <2>2. a.hypotheses = Plainly.hypotheses /\ a.changes = Plainly.changes /\ a.dossier = d
        BY <2>1 DEF Plainly, Researching
    <2>3. s \in Seq(Source)
        <3>1. PICK n \in 2 .. MaxSources : s \in [1 .. n -> Source]
            OBVIOUS
        <3>2. n \in Nat
            BY <3>1, ReviewAssumption
        <3> QED BY <3>1, <3>2
    <2>4. c \in AnyClaim /\ [c EXCEPT !.id = id] \in AnyClaim
        <3>1. << >> \in Seq(Nat) /\ <<2>> \in Seq(Nat) /\ (id = << >> \/ id = <<2>>)
            OBVIOUS
        <3> QED BY <3>1, PartsOfAnswers
    <2>5. <<c, [c EXCEPT !.id = id]>> \in Seq(AnyClaim)
        BY <2>4
    <2>6. d \in AnyDossier
        BY <2>3, <2>5 DEF AnyDossier
    <2> HIDE DEF d
    <2> QED BY <2>2, <2>6, PlainlyIsTyped DEF AnswerType
<1>4. CASE a \in Flawed
    <2>1. PICK st, f, r : a = Failing(st, f, r)
        BY <1>4, AnswersInParts
    <2>2. /\ a.hypotheses = Plainly.hypotheses /\ a.changes = Plainly.changes
          /\ a.dossier = Plainly.dossier
        BY <2>1 DEF Plainly, Failing
    <2> QED BY <2>2, PlainlyIsTyped DEF AnswerType
<1> QED BY <1>1, <1>2, <1>3, <1>4 DEF Answers

\* The ceiling keeps what an item is about, and what it leaves high is earned.
LEMMA CappedHypothesisIsEarned ==
    ASSUME NEW h \in AnyHypothesis
    PROVE  /\ CappedHypothesis(h) \in AnyHypothesis
           /\ CappedHypothesis(h).id = h.id
           /\ CappedHypothesis(h).confidence = High => Supported(CappedHypothesis(h))
BY DEF CappedHypothesis, AnyHypothesis, Supported, High, Low

Earned(c, new) ==
    /\ new /\ c.now = High => Supported(c)
    /\ c.subject = Existing /\ c.direction = "increased" /\ c.now = High => Supported(c)

LEMMA CappedChangeIsEarned ==
    ASSUME NEW c \in AnyChange, NEW w
    PROVE  /\ CappedChange(c, w) \in AnyChange
           /\ CappedChange(c, w).subject = c.subject
           /\ Earned(CappedChange(c, w), c.subject \in Generated(w))
<1> DEFINE new == c.subject \in Generated(w)
           now == IF new \/ c.before = NotEvaluable THEN Low ELSE c.before
           dir == Direction(c.before, now)
           lower == [c EXCEPT !.now = now, !.direction = dir]
           lowered == /\ new \/ (c.subject = Existing /\ c.direction = "increased")
                      /\ c.now = High /\ ~ Supported(c)
<1>1. CappedChange(c, w) = IF lowered THEN lower ELSE c
    BY Zenon DEF CappedChange
<1>2. CASE lowered
    <2>1. /\ c.before \in {NotEvaluable, Low, High} /\ now \in {NotEvaluable, Low, High}
          /\ new => now = Low
          /\ now = High => c.before = High
        BY DEF AnyChange, High, Low, NotEvaluable
    <2>2. /\ dir \in {"increased", "decreased", "unchanged", "not_evaluable"}
          /\ now = High => dir = "unchanged"
        <3> HIDE DEF now, new
        <3> QED BY <2>1 DEF Direction, High, Low, NotEvaluable
    <2> HIDE DEF now, dir, new
    <2>3. lower \in AnyChange /\ lower.subject = c.subject
          /\ lower.now = now /\ lower.direction = dir
        BY <2>1, <2>2 DEF AnyChange
    <2>4. Earned(lower, new)
        <3> HIDE DEF lower
        <3> QED BY <2>1, <2>2, <2>3 DEF Earned, High, Low
    <2>5. CappedChange(c, w) = lower
        BY <1>1, <1>2
    <2> QED BY <2>3, <2>4, <2>5 DEF new
<1>3. CASE ~ lowered
    <2>1. CappedChange(c, w) = c
        BY <1>1, <1>3
    <2>2. Earned(c, new)
        BY <1>3 DEF Earned
    <2> QED BY <2>1, <2>2
<1> QED BY <1>2, <1>3

\* The first half of a review works on nothing, the second on the repaired
\* answer, which it only makes more careful.
Blank == [hypotheses |-> << >>, changes |-> << >>,
          dossier |-> [sources |-> << >>, claims |-> << >>]]

Made ==
    /\ work \in [hypotheses : Seq(AnyHypothesis), changes : Seq(AnyChange),
                 dossier : [sources : Seq(Source), claims : Seq(AnyClaim)]]
    /\ Len(work.hypotheses) = Len(answer.hypotheses)
    /\ IdsOf(answer.hypotheses) \subseteq Generated(work)
    /\ work.dossier = Repaired(answer.dossier)

Capped ==
    /\ \A i \in DOMAIN work.hypotheses :
          work.hypotheses[i].confidence = High => Supported(work.hypotheses[i])
    /\ \A i \in DOMAIN work.changes :
          Earned(work.changes[i], work.changes[i].subject \in Generated(work))

Verdicts == {"arrived", "received", "parsed", "grounded", "calibrated",
             "referenced", "accepted", "provider_output_incomplete",
             "provider_response_failed", "provider_refused",
             "provider_output_invalid", "provider_output_too_shallow",
             "provider_attachments_not_cited"}

ReviewInv ==
    /\ AnswerType(answer)
    /\ verdict \in Verdicts
    /\ work = Blank \/ Made
    /\ verdict \in {"arrived", "received"} => work = Blank
    /\ verdict \in {"parsed", "grounded"} => Made
    /\ verdict \in {"calibrated", "referenced", "accepted"} => Made /\ Capped

LEMMA MovesKeepsReviewInv ==
    ASSUME ReviewInv, NEW code, Moves(code), code \in Verdicts,
           code # "arrived",
           code = "received" => work = Blank,
           code \in {"parsed", "grounded"} => Made,
           code \in {"calibrated", "referenced", "accepted"} => Made /\ Capped
    PROVE  ReviewInv'
<1>1. answer' = answer /\ work' = work /\ verdict' = code
    BY DEF Moves
<1>2. AnswerType(answer)' /\ (Made <=> Made') /\ (Capped <=> Capped')
      /\ (work = Blank <=> (work = Blank)')
    <2>1. AnswerType(answer)'
        BY <1>1 DEF ReviewInv, AnswerType
    <2>2. Made <=> Made'
        BY <1>1 DEF Made, Generated
    <2>3. Capped <=> Capped'
        BY <1>1 DEF Capped, Generated, Earned, Supported
    <2>4. work = Blank <=> (work = Blank)'
        BY <1>1 DEF Blank
    <2> QED BY <2>1, <2>2, <2>3, <2>4
<1> QED BY <1>1, <1>2 DEF ReviewInv

LEMMA ReceiveKeepsReviewInv ==
    ASSUME ReviewInv, Receive
    PROVE  ReviewInv'
<1>1. work = Blank
    BY DEF ReviewInv, Receive
<1>2. PICK code \in {"provider_output_incomplete", "provider_response_failed",
                     "provider_refused", "received"} : Moves(code)
    BY DEF Receive
<1>3. code \in Verdicts
    BY DEF Verdicts
<1> QED BY <1>1, <1>2, <1>3, MovesKeepsReviewInv

LEMMA CheckResearchKeepsReviewInv ==
    ASSUME ReviewInv, CheckResearch
    PROVE  ReviewInv'
<1>1. Made
    BY DEF ReviewInv, CheckResearch
<1>2. PICK code \in {"provider_output_invalid", "provider_output_too_shallow",
                     "grounded"} : Moves(code)
    BY DEF CheckResearch
<1>3. code \in Verdicts
    BY DEF Verdicts
<1> QED BY <1>1, <1>2, <1>3, MovesKeepsReviewInv

LEMMA CheckReferencesKeepsReviewInv ==
    ASSUME ReviewInv, CheckReferences
    PROVE  ReviewInv'
<1>1. Made /\ Capped
    BY DEF ReviewInv, CheckReferences
<1>2. PICK code \in {"provider_output_invalid", "provider_attachments_not_cited",
                     "referenced"} : Moves(code)
    BY DEF CheckReferences
<1>3. code \in Verdicts
    BY DEF Verdicts
<1> QED BY <1>1, <1>2, <1>3, MovesKeepsReviewInv

LEMMA CheckQualityKeepsReviewInv ==
    ASSUME ReviewInv, CheckQuality
    PROVE  ReviewInv'
<1>1. Made /\ Capped
    BY DEF ReviewInv, CheckQuality
<1>2. PICK code \in {"provider_output_too_shallow", "accepted"} : Moves(code)
    BY DEF CheckQuality
<1>3. code \in Verdicts
    BY DEF Verdicts
<1> QED BY <1>1, <1>2, <1>3, MovesKeepsReviewInv

LEMMA ParseKeepsReviewInv ==
    ASSUME ReviewInv, Parse
    PROVE  ReviewInv'
<1>1. CASE Moves("provider_output_invalid")
    <2>1. "provider_output_invalid" \in Verdicts
        BY DEF Verdicts
    <2> QED BY <1>1, <2>1, MovesKeepsReviewInv
<1>2. CASE work' \in ParsedOutput /\ verdict' = "parsed" /\ answer' = answer
    <2>1. work' = RepairedAnswer
        BY <1>2 DEF ParsedOutput
    <2>2. /\ answer.hypotheses \in Seq(AnyHypothesis)
          /\ answer.changes \in Seq(AnyChange)
          /\ answer.dossier \in AnyDossier
        BY DEF ReviewInv, AnswerType
    <2>3. /\ work'.hypotheses = Named(answer.hypotheses)
          /\ work'.changes = answer.changes
          /\ work'.dossier = Repaired(answer.dossier)
          /\ work' = [hypotheses |-> work'.hypotheses, changes |-> work'.changes,
                      dossier |-> work'.dossier]
        BY <2>1 DEF RepairedAnswer
    <2>4. /\ Named(answer.hypotheses) \in Seq(AnyHypothesis)
          /\ Len(Named(answer.hypotheses)) = Len(answer.hypotheses)
          /\ IdsOf(answer.hypotheses) \subseteq IdsOf(Named(answer.hypotheses))
        BY <2>2, NamedHypotheses
    <2>5. Repaired(answer.dossier) \in AnyDossier
        BY <2>2, RepairedDossier
    <2>6. work' \in [hypotheses : Seq(AnyHypothesis), changes : Seq(AnyChange),
                     dossier : [sources : Seq(Source), claims : Seq(AnyClaim)]]
        BY <2>2, <2>3, <2>4, <2>5 DEF AnyDossier
    <2>7. Generated(work)' = IdsOf(Named(answer.hypotheses))
        BY <2>3 DEF Generated, IdsOf
    <2>8. Made'
        BY <1>2, <2>3, <2>4, <2>6, <2>7 DEF Made
    <2>9. AnswerType(answer)'
        BY <1>2 DEF ReviewInv, AnswerType
    <2>10. verdict' \in Verdicts
        BY <1>2 DEF Verdicts
    <2> QED BY <1>2, <2>8, <2>9, <2>10 DEF ReviewInv
<1> QED BY <1>1, <1>2 DEF Parse

LEMMA CalibrateKeepsReviewInv ==
    ASSUME ReviewInv, Calibrate
    PROVE  ReviewInv'
<1>1. Made /\ answer' = answer /\ verdict' = "calibrated"
    BY DEF ReviewInv, Calibrate
<1> DEFINE hs == [i \in DOMAIN work.hypotheses |-> CappedHypothesis(work.hypotheses[i])]
           cs == [i \in DOMAIN work.changes |-> CappedChange(work.changes[i], work)]
<1>2. work \in [hypotheses : Seq(AnyHypothesis), changes : Seq(AnyChange),
                dossier : [sources : Seq(Source), claims : Seq(AnyClaim)]]
    BY <1>1 DEF Made
<1>3. /\ work.hypotheses \in Seq(AnyHypothesis) /\ work.changes \in Seq(AnyChange)
      /\ DOMAIN work.hypotheses = 1 .. Len(work.hypotheses)
      /\ DOMAIN work.changes = 1 .. Len(work.changes)
      /\ Len(work.hypotheses) \in Nat /\ Len(work.changes) \in Nat
    BY <1>2
<1>4. work' = [hypotheses |-> hs, changes |-> cs, dossier |-> work.dossier]
    BY <1>2 DEF Calibrate
<1>5. ASSUME NEW i \in DOMAIN work.hypotheses
      PROVE  /\ hs[i] \in AnyHypothesis /\ hs[i].id = work.hypotheses[i].id
             /\ hs[i].confidence = High => Supported(hs[i])
    <2>1. work.hypotheses[i] \in AnyHypothesis
        BY <1>3
    <2>2. hs[i] = CappedHypothesis(work.hypotheses[i])
        OBVIOUS
    <2> HIDE DEF hs
    <2> QED BY <2>1, <2>2, CappedHypothesisIsEarned
<1>6. ASSUME NEW i \in DOMAIN work.changes
      PROVE  /\ cs[i] \in AnyChange /\ cs[i].subject = work.changes[i].subject
             /\ Earned(cs[i], work.changes[i].subject \in Generated(work))
    <2>1. work.changes[i] \in AnyChange
        BY <1>3
    <2>2. cs[i] = CappedChange(work.changes[i], work)
        OBVIOUS
    <2> HIDE DEF cs
    <2> QED BY <2>1, <2>2, CappedChangeIsEarned
<1>7. /\ hs \in Seq(AnyHypothesis) /\ Len(hs) = Len(work.hypotheses)
      /\ DOMAIN hs = DOMAIN work.hypotheses
    <2>1. hs \in [1 .. Len(work.hypotheses) -> AnyHypothesis]
        BY <1>3, <1>5
    <2> HIDE DEF hs
    <2> QED BY <1>3, <2>1
<1>8. cs \in Seq(AnyChange) /\ DOMAIN cs = DOMAIN work.changes
    <2>1. cs \in [1 .. Len(work.changes) -> AnyChange]
        BY <1>3, <1>6
    <2> HIDE DEF cs
    <2> QED BY <1>3, <2>1
<1> HIDE DEF hs, cs
<1>9. /\ work'.hypotheses = hs /\ work'.changes = cs
      /\ work'.dossier = work.dossier
      /\ work' \in [hypotheses : Seq(AnyHypothesis), changes : Seq(AnyChange),
                    dossier : [sources : Seq(Source), claims : Seq(AnyClaim)]]
    BY <1>2, <1>4, <1>7, <1>8
<1>10. Generated(work)' = Generated(work)
    BY <1>5, <1>7, <1>9 DEF Generated
<1>11. Made'
    BY <1>1, <1>7, <1>9, <1>10 DEF Made
<1>12. Capped'
    <2>1. \A i \in DOMAIN work'.hypotheses :
             work'.hypotheses[i].confidence = High => Supported(work'.hypotheses[i])
        BY <1>5, <1>7, <1>9
    <2>2. \A i \in DOMAIN work'.changes :
             Earned(work'.changes[i], work'.changes[i].subject \in Generated(work))
        BY <1>6, <1>8, <1>9
    <2> QED BY <1>10, <2>1, <2>2 DEF Capped, Supported
<1>13. AnswerType(answer)'
    BY <1>1 DEF ReviewInv, AnswerType
<1>14. verdict' \in Verdicts
    BY <1>1 DEF Verdicts
<1> QED BY <1>1, <1>11, <1>12, <1>13, <1>14 DEF ReviewInv

THEOREM ReviewInvariant == ReviewSpec => []ReviewInv
<1>1. ReviewInit => ReviewInv
    <2> SUFFICES ASSUME ReviewInit PROVE ReviewInv
        OBVIOUS
    <2>1. work = Blank /\ verdict = "arrived" /\ AnswerType(answer)
        BY AnswersAreTyped DEF ReviewInit, Blank
    <2> QED BY <2>1 DEF ReviewInv, Verdicts
<1>2. ReviewInv /\ [ReviewNext]_reviewVars => ReviewInv'
    <2> SUFFICES ASSUME ReviewInv, [ReviewNext]_reviewVars PROVE ReviewInv'
        OBVIOUS
    <2>1. CASE Receive
        BY <2>1, ReceiveKeepsReviewInv
    <2>2. CASE Parse
        BY <2>2, ParseKeepsReviewInv
    <2>3. CASE CheckResearch
        BY <2>3, CheckResearchKeepsReviewInv
    <2>4. CASE Calibrate
        BY <2>4, CalibrateKeepsReviewInv
    <2>5. CASE CheckReferences
        BY <2>5, CheckReferencesKeepsReviewInv
    <2>6. CASE CheckQuality
        BY <2>6, CheckQualityKeepsReviewInv
    <2>7. CASE UNCHANGED reviewVars
        BY <2>7 DEF reviewVars, ReviewInv, AnswerType, Made, Capped, Generated
    <2> QED BY <2>1, <2>2, <2>3, <2>4, <2>5, <2>6, <2>7 DEF ReviewNext
<1> QED BY <1>1, <1>2, PTL DEF ReviewSpec

\* A repair always meets the contract, and no claim of the answer is promoted
\* or moved to a page it did not cite, for answers of any length.
THEOREM RepairsAreConservative == ReviewSpec => []RepairIsConservative
<1>1. ReviewInv => RepairIsConservative
    <2> SUFFICES ASSUME ReviewInv PROVE RepairIsConservative
        OBVIOUS
    <2>1. /\ answer.hypotheses \in Seq(AnyHypothesis)
          /\ answer.dossier \in AnyDossier
        BY DEF ReviewInv, AnswerType
    <2>2. ValidAnswer(RepairedAnswer)
        BY <2>1, RepairedAnswersAreValid DEF RepairedAnswer
    <2>3. CASE work = Blank
        <3>1. /\ work.hypotheses = << >> /\ DOMAIN work.dossier.claims = {}
            BY <2>3 DEF Blank
        <3> QED BY <2>2, <3>1 DEF RepairIsConservative
    <2>4. CASE Made
        <3>1. IdsOf(answer.hypotheses) \subseteq Generated(work)
            BY <2>4 DEF Made
        <3>2. Conservative(answer.dossier, work.dossier)
            BY <2>1, <2>4, RepairedDossier DEF Made
        <3>3. ASSUME NEW i \in DOMAIN work.dossier.claims
              PROVE  /\ PagesKept(work.dossier.claims[i].from)
                           \subseteq PagesOf(answer.dossier.claims[i].from)
                     /\ work.dossier.claims[i].status
                           \in {answer.dossier.claims[i].status, "unverified"}
            BY <3>2 DEF Conservative, PagesKept, PagesOf
        <3> QED BY <2>2, <3>1, <3>3 DEF RepairIsConservative, IdsOf
    <2> QED BY <2>3, <2>4 DEF ReviewInv
<1> QED BY <1>1, ReviewInvariant, PTL

\* No confidence is returned that the epistemic ceiling does not allow, for
\* answers of any length.
THEOREM ReturnedConfidenceIsEarned == ReviewSpec => []ConfidenceIsEarned
<1>1. ReviewInv => ConfidenceIsEarned
    BY DEF ReviewInv, Capped, Earned, ConfidenceIsEarned
<1> QED BY <1>1, ReviewInvariant, PTL

\* A review ends in one of its verdicts and keeps what it works on of its type.
THEOREM ReviewsOfAnswersKeepTheirTypes == ReviewSpec => []ReviewTypes
<1>1. ReviewInv => ReviewTypes
    <2> SUFFICES ASSUME ReviewInv PROVE ReviewTypes
        OBVIOUS
    <2>1. CASE work = Blank
        <3>1. Len(work.hypotheses) = 0 /\ Generated(work) = {}
            BY <2>1 DEF Blank, Generated
        <3> QED BY <3>1 DEF ReviewInv, ReviewTypes, Verdicts
    <2>2. CASE Made
        <3>1. work.hypotheses \in Seq(AnyHypothesis)
              /\ Len(work.hypotheses) = Len(answer.hypotheses)
            BY <2>2 DEF Made
        <3>2. \A h \in AnyHypothesis : h.id \in Seq(Nat)
            BY DEF AnyHypothesis
        <3>3. Generated(work) \subseteq Seq(Nat)
            <4>1. \A i \in DOMAIN work.hypotheses : work.hypotheses[i] \in AnyHypothesis
                BY <3>1
            <4> QED BY <3>2, <4>1 DEF Generated
        <3> QED BY <3>1, <3>3 DEF ReviewInv, ReviewTypes, Verdicts
    <2> QED BY <2>1, <2>2 DEF ReviewInv
<1> QED BY <1>1, ReviewInvariant, PTL

-----------------------------------------------------------------------------
(***************************************************************************)
(* The archive's index.  Nobody writes the excerpts of a source that a     *)
(* request has inserted and not committed, and a source whose excerpts are *)
(* inserted stays: what the request will commit replaces all there is.     *)
(***************************************************************************)

\* The fields a request's record has.
Shaped(x) == x = [at |-> x.at, picked |-> x.picked, found |-> x.found, wrote |-> x.wrote]

IndexShaped ==
    /\ index = [s \in ArchiveSources |-> index[s]]
    /\ hand = [h \in Indexers |-> hand[h]]
    /\ \A h \in Indexers : Shaped(hand[h])

HandStands(h) ==
    /\ hand[h].picked \subseteq ArchiveSources
    /\ hand[h].at \in {"backfilling", "indexing"} =>
            hand[h].picked \subseteq stored
    /\ hand[h].at = "indexing" => \A f \in hand[h].found : f.source \in hand[h].picked
    /\ \A w \in hand[h].wrote :
            w.source \in stored /\ index[w.source] \subseteq w.rows

CutByOne(s) == index[s] = {} \/ \E h \in Indexers : index[s] = Cuttings(s, h)

ArchiveInv ==
    /\ IndexShaped
    /\ stored \subseteq ArchiveSources
    /\ \A s \in ArchiveSources : CutByOne(s)
    /\ \A h \in Indexers : HandStands(h)
    /\ \A h, o \in Indexers, s \in ArchiveSources : Inserting(h, s) /\ Inserting(o, s) => h = o

LEMMA AtChanges ==
    ASSUME NEW x, Shaped(x), NEW v, NEW y, y = [x EXCEPT !.at = v]
    PROVE  Shaped(y) /\ y.at = v /\ y.picked = x.picked /\ y.found = x.found /\ y.wrote = x.wrote
BY DEF Shaped

LEMMA PickedChanges ==
    ASSUME NEW x, Shaped(x), NEW v, NEW y, y = [x EXCEPT !.picked = v]
    PROVE  Shaped(y) /\ y.at = x.at /\ y.picked = v /\ y.found = x.found /\ y.wrote = x.wrote
BY DEF Shaped

LEMMA FoundChanges ==
    ASSUME NEW x, Shaped(x), NEW v, NEW y, y = [x EXCEPT !.found = v]
    PROVE  Shaped(y) /\ y.at = x.at /\ y.picked = x.picked /\ y.found = v /\ y.wrote = x.wrote
BY DEF Shaped

Picking(x, v, w) == [x EXCEPT !.at = v, !.picked = w]
Finding(x, v, w) == [x EXCEPT !.at = v, !.found = w]

LEMMA PickingChanges ==
    ASSUME NEW x, Shaped(x), NEW v, NEW w, NEW y, y = Picking(x, v, w)
    PROVE  Shaped(y) /\ y.at = v /\ y.picked = w /\ y.found = x.found /\ y.wrote = x.wrote
<1> DEFINE z == [x EXCEPT !.at = v]
<1>1. y = [z EXCEPT !.picked = w]
    BY DEF Picking
<1>2. Shaped(z) /\ z.at = v /\ z.found = x.found /\ z.wrote = x.wrote
    BY AtChanges
<1> HIDE DEF z
<1> QED BY <1>1, <1>2, PickedChanges

LEMMA FindingChanges ==
    ASSUME NEW x, Shaped(x), NEW v, NEW w, NEW y, y = Finding(x, v, w)
    PROVE  Shaped(y) /\ y.at = v /\ y.found = w /\ y.picked = x.picked /\ y.wrote = x.wrote
<1> DEFINE z == [x EXCEPT !.at = v]
<1>1. y = [z EXCEPT !.found = w]
    BY DEF Finding
<1>2. Shaped(z) /\ z.at = v /\ z.picked = x.picked /\ z.wrote = x.wrote
    BY AtChanges
<1> HIDE DEF z
<1> QED BY <1>1, <1>2, FoundChanges

LEMMA UnhandedIsShaped ==
    /\ Shaped(Unhanded) /\ Unhanded.at = "idle"
    /\ Unhanded.picked = {} /\ Unhanded.found = {} /\ Unhanded.wrote = {}
BY DEF Shaped, Unhanded

LEMMA ArchiveBegins == ArchiveInit => ArchiveInv
BY DEF ArchiveInit, ArchiveInv, IndexShaped, Shaped, HandStands, CutByOne, Inserting, Unhanded

\* A request takes another state, in which it has written no more.
LEMMA HandsMove ==
    ASSUME ArchiveInv, NEW h \in Indexers, NEW x, Shaped(x), hand' = [hand EXCEPT ![h] = x],
           x.wrote \subseteq hand[h].wrote,
           x.picked \subseteq ArchiveSources,
           x.at \in {"backfilling", "indexing"} => x.picked \subseteq stored,
           x.at = "indexing" => \A f \in x.found : f.source \in x.picked,
           UNCHANGED <<text, stored, index>>
    PROVE  ArchiveInv'
<1>1. hand' = [g \in Indexers |-> hand'[g]] /\ hand'[h] = x /\ \A o \in Indexers \ {h} : hand'[o] = hand[o]
    BY DEF ArchiveInv, IndexShaped
<1>2. IndexShaped'
    BY <1>1 DEF ArchiveInv, IndexShaped, Shaped
<1>3. ASSUME NEW o \in Indexers PROVE HandStands(o)'
    BY <1>1, <1>3 DEF ArchiveInv, HandStands
<1>4. \A o \in Indexers : \A s : Inserting(o, s)' => Inserting(o, s)
    BY <1>1 DEF Inserting
<1>5. ASSUME NEW s \in ArchiveSources PROVE CutByOne(s)'
    BY DEF ArchiveInv, CutByOne, Cuttings
<1> QED BY <1>2, <1>3, <1>4, <1>5 DEF ArchiveInv

LEMMA ArchiveSteps ==
    ASSUME ArchiveInv, [ArchiveNext]_archiveVars
    PROVE  ArchiveInv'
<1>t. /\ IndexShaped /\ stored \subseteq ArchiveSources
      /\ \A s \in ArchiveSources : CutByOne(s)
      /\ \A h \in Indexers : HandStands(h) /\ Shaped(hand[h])
    BY DEF ArchiveInv, IndexShaped
<1>1. CASE UNCHANGED archiveVars
    BY <1>1 DEF archiveVars, ArchiveInv, IndexShaped, HandStands, CutByOne, Inserting, Cuttings
<1>2. ASSUME NEW h \in Indexers, NEW s \in ArchiveSources, BeginStore(h, s)
      PROVE  ArchiveInv'
    <2> DEFINE x == Picking(Unhanded, "storing", {s})
    <2>1. Shaped(x) /\ x.at = "storing" /\ x.wrote = Unhanded.wrote /\ x.picked = {s}
        BY UnhandedIsShaped, PickingChanges
    <2>2. hand' = [hand EXCEPT ![h] = x] /\ UNCHANGED <<text, stored, index>>
        BY <1>2 DEF BeginStore, Picking
    <2> HIDE DEF x
    <2> QED BY <2>1, <2>2, UnhandedIsShaped, HandsMove
<1>3. ASSUME NEW h \in Indexers, NEW s \in ArchiveSources, LookUpIndex(h, s)
      PROVE  ArchiveInv'
    <2> DEFINE x == Finding(hand[h], "indexing", {[source |-> s, rows |-> index[s]]})
    <2>1. /\ Shaped(x) /\ x.at = "indexing" /\ x.picked = hand[h].picked /\ x.wrote = hand[h].wrote
          /\ x.found = {[source |-> s, rows |-> index[s]]}
        BY <1>t, FindingChanges
    <2>2. hand' = [hand EXCEPT ![h] = x] /\ UNCHANGED <<text, stored, index>>
        BY <1>3, <1>t DEF LookUpIndex, IndexShaped, Finding
    <2>3. s \in hand[h].picked /\ hand[h].picked \subseteq ArchiveSources \cap stored
        BY <1>3, <1>t DEF LookUpIndex, HandStands
    <2> HIDE DEF x
    <2>4. \A f \in x.found : f.source \in x.picked
        BY <2>1, <2>3
    <2> QED BY <2>1, <2>2, <2>3, <2>4, HandsMove
<1>4. ASSUME NEW h \in Indexers, NEW picked \in SUBSET ArchiveSources, BeginBackfill(h, picked)
      PROVE  ArchiveInv'
    <2> DEFINE x == Picking(Unhanded, "backfilling", picked)
    <2>1. Shaped(x) /\ x.at = "backfilling" /\ x.wrote = Unhanded.wrote /\ x.picked = picked
        BY UnhandedIsShaped, PickingChanges
    <2>2. hand' = [hand EXCEPT ![h] = x] /\ UNCHANGED <<text, stored, index>>
        BY <1>4 DEF BeginBackfill, Picking
    <2>3. picked \subseteq stored
        BY <1>4 DEF BeginBackfill
    <2> HIDE DEF x
    <2> QED BY <2>1, <2>2, <2>3, UnhandedIsShaped, HandsMove
<1>5. ASSUME NEW h \in Indexers, StoreSource(h)
      PROVE  ArchiveInv'
    <2>1. PICK s \in hand[h].picked :
              /\ s \notin stored /\ stored' = stored \cup {s}
              /\ index' = [index EXCEPT ![s] = Cuttings(s, h)]
        BY <1>5 DEF StoreSource
    <2>2. hand' = [hand EXCEPT ![h] = Unhanded] /\ text' = text
        BY <1>5 DEF StoreSource
    <2>3. /\ hand'[h] = Unhanded /\ \A o \in Indexers \ {h} : hand'[o] = hand[o]
          /\ hand' = [g \in Indexers |-> hand'[g]]
        BY <2>2, <1>t DEF IndexShaped
    <2>4. /\ index' = [r \in ArchiveSources |-> index'[r]]
          /\ \A r \in ArchiveSources : index'[r] = IF r = s THEN Cuttings(s, h) ELSE index[r]
        BY <2>1, <1>t DEF IndexShaped
    <2>5. IndexShaped'
        BY <2>3, <2>4, <1>t, UnhandedIsShaped DEF IndexShaped, Shaped
    <2>6. ASSUME NEW r \in ArchiveSources PROVE CutByOne(r)'
        BY <2>2, <2>4, <1>t DEF CutByOne, Cuttings
    <2>7. ASSUME NEW o \in Indexers PROVE HandStands(o)'
        BY <2>1, <2>3, <1>t, UnhandedIsShaped DEF HandStands, IndexShaped
    <2>8. \A o \in Indexers : \A r : Inserting(o, r)' => Inserting(o, r)
        BY <2>3, UnhandedIsShaped DEF Inserting
    <2>9. stored' \subseteq ArchiveSources
        BY <2>1, <1>t DEF HandStands
    <2> QED BY <2>5, <2>6, <2>7, <2>8, <2>9 DEF ArchiveInv
<1>6. ASSUME NEW h \in Indexers, InsertExcerpts(h)
      PROVE  ArchiveInv'
    <2>1. PICK f \in hand[h].found :
              /\ \A o \in Indexers \ {h} : ~Inserting(o, f.source)
              /\ KeyIsFree(f.source, f.rows)
              /\ hand' = [hand EXCEPT ![h] =
                            [at |-> "backfilling", picked |-> hand[h].picked \ {f.source},
                             found |-> {}, wrote |-> hand[h].wrote \cup {f}]]
        BY <1>6 DEF InsertExcerpts
    <2> DEFINE x == [at |-> "backfilling", picked |-> hand[h].picked \ {f.source},
                     found |-> {}, wrote |-> hand[h].wrote \cup {f}]
    <2>2. /\ Shaped(x) /\ x.at = "backfilling" /\ x.picked \subseteq hand[h].picked
          /\ x.wrote = hand[h].wrote \cup {f}
        BY DEF Shaped
    <2>3. f.source \in stored /\ hand[h].picked \subseteq ArchiveSources \cap stored
        BY <1>6, <1>t DEF InsertExcerpts, HandStands
    <2>4. UNCHANGED <<text, stored, index>>
        BY <1>6 DEF InsertExcerpts
    <2>5. /\ hand'[h] = x /\ \A o \in Indexers \ {h} : hand'[o] = hand[o]
          /\ hand' = [g \in Indexers |-> hand'[g]]
        BY <2>1, <1>t DEF IndexShaped
    <2> HIDE DEF x
    <2>6. IndexShaped'
        BY <2>2, <2>4, <2>5, <1>t DEF IndexShaped, Shaped
    <2>7. ASSUME NEW o \in Indexers PROVE HandStands(o)'
        <3>1. CASE o = h
            BY <2>1, <2>2, <2>3, <2>4, <2>5, <3>1, <1>t DEF HandStands, KeyIsFree
        <3>2. CASE o # h
            BY <2>4, <2>5, <3>2, <1>t DEF HandStands
        <3> QED BY <3>1, <3>2
    <2>8. \A o \in Indexers : \A r : Inserting(o, r)' => Inserting(o, r) \/ (o = h /\ r = f.source)
        BY <2>2, <2>5 DEF Inserting
    <2>9. \A g, o \in Indexers, r \in ArchiveSources : Inserting(g, r)' /\ Inserting(o, r)' => g = o
        BY <2>1, <2>8 DEF ArchiveInv
    <2>10. ASSUME NEW s \in ArchiveSources PROVE CutByOne(s)'
        BY <2>4, <1>t DEF CutByOne, Cuttings
    <2> QED BY <2>4, <2>6, <2>7, <2>9, <2>10, <1>t DEF ArchiveInv
<1>7. ASSUME NEW h \in Indexers, EndBackfill(h)
      PROVE  ArchiveInv'
    <2>1. /\ text' = text /\ stored' = stored /\ hand' = [hand EXCEPT ![h] = Unhanded]
          /\ index' = [s \in ArchiveSources |->
                IF Inserting(h, s)
                THEN Cuttings(s, h) \cup (index[s] \ UNION { w.rows : w \in hand[h].wrote })
                ELSE index[s]]
        BY <1>7 DEF EndBackfill
    <2>2. /\ hand'[h] = Unhanded /\ \A o \in Indexers \ {h} : hand'[o] = hand[o]
          /\ hand' = [g \in Indexers |-> hand'[g]]
        BY <2>1, <1>t DEF IndexShaped
    <2>3. ASSUME NEW s \in ArchiveSources, Inserting(h, s)
          PROVE  index'[s] = Cuttings(s, h)
        <3>1. index[s] \subseteq UNION { w.rows : w \in hand[h].wrote }
            BY <2>3, <1>t DEF Inserting, HandStands
        <3> QED BY <2>1, <2>3, <3>1
    <2>4. \A s \in ArchiveSources : ~Inserting(h, s) => index'[s] = index[s]
        BY <2>1
    <2>5. IndexShaped'
        BY <2>1, <2>2, <1>t, UnhandedIsShaped DEF IndexShaped, Shaped
    <2>6. ASSUME NEW s \in ArchiveSources PROVE CutByOne(s)'
        BY <2>1, <2>3, <2>4, <1>t DEF CutByOne, Cuttings
    <2>7. ASSUME NEW o \in Indexers PROVE HandStands(o)'
        <3>1. CASE o = h
            BY <2>2, <3>1, UnhandedIsShaped DEF HandStands
        <3>2. CASE o # h
            <4>1. HandStands(o) /\ hand'[o] = hand[o]
                BY <2>2, <3>2, <1>t
            <4>2. ASSUME NEW w \in hand[o].wrote
                  PROVE  w.source \in stored' /\ index'[w.source] \subseteq w.rows
                <5>1. w.source \in stored /\ index[w.source] \subseteq w.rows
                    BY <4>1 DEF HandStands
                <5>2. w.source \in ArchiveSources
                    BY <5>1 DEF ArchiveInv
                <5>3. ~Inserting(h, w.source)
                    BY <3>2, <5>2 DEF Inserting, ArchiveInv
                <5> QED BY <2>1, <2>4, <5>1, <5>2, <5>3
            <4> QED BY <2>1, <4>1, <4>2 DEF HandStands
        <3> QED BY <3>1, <3>2
    <2>8. \A o \in Indexers : \A s : Inserting(o, s)' => Inserting(o, s)
        BY <2>2, UnhandedIsShaped DEF Inserting
    <2> QED BY <2>1, <2>5, <2>6, <2>7, <2>8 DEF ArchiveInv
<1>8. ASSUME NEW h \in Indexers, Undo(h)
      PROVE  ArchiveInv'
    BY <1>8, UnhandedIsShaped, HandsMove DEF Undo
<1>9. ASSUME NEW f \in Uploads, DeleteSource(f)
      PROVE  ArchiveInv'
    <2>1. /\ text' = text /\ stored' = stored \ {f} /\ index' = [index EXCEPT ![f] = {}]
          /\ \A h \in Indexers : ~Inserting(h, f)
          /\ hand' = [h \in Indexers |->
                        IF hand[h].at # "storing" /\ f \in hand[h].picked
                        THEN [hand[h] EXCEPT !.at = "failing"] ELSE hand[h]]
        BY <1>9 DEF DeleteSource
    <2>2. /\ hand' = [h \in Indexers |-> hand'[h]]
          /\ \A h \in Indexers : /\ Shaped(hand[h])'
                                 /\ hand'[h].picked = hand[h].picked /\ hand'[h].found = hand[h].found
                                 /\ hand'[h].wrote = hand[h].wrote
                                 /\ hand'[h].at \in {hand[h].at, "failing"}
                                 /\ f \in hand[h].picked /\ hand[h].at # "storing" => hand'[h].at = "failing"
        <3>1. ASSUME NEW h \in Indexers, NEW y, y = [hand[h] EXCEPT !.at = "failing"]
              PROVE  /\ Shaped(y) /\ y.picked = hand[h].picked /\ y.found = hand[h].found
                     /\ y.wrote = hand[h].wrote /\ y.at = "failing"
            BY <3>1, <1>t, AtChanges
        <3>2. ASSUME NEW h \in Indexers, NEW y, y = hand'[h], y = hand[h]
              PROVE  Shaped(hand[h])' /\ hand'[h].picked = hand[h].picked
            BY <3>2, <1>t DEF Shaped
        <3>3. \A h \in Indexers :
                \/ hand'[h] = [hand[h] EXCEPT !.at = "failing"]
                \/ hand'[h] = hand[h] /\ ~(hand[h].at # "storing" /\ f \in hand[h].picked)
            BY <2>1
        <3>4. \A y : Shaped(y) <=> y = [at |-> y.at, picked |-> y.picked, found |-> y.found, wrote |-> y.wrote]
            BY DEF Shaped
        <3>5. hand' = [h \in Indexers |-> hand'[h]]
            BY <2>1
        <3>6. \A h \in Indexers : Shaped(hand'[h])
            BY <3>1, <3>3, <1>t
        <3> QED BY <3>1, <3>3, <3>5, <3>6 DEF Shaped
    <2>3. /\ index' = [s \in ArchiveSources |-> index'[s]]
          /\ \A s \in ArchiveSources : index'[s] = IF s = f THEN {} ELSE index[s]
        BY <2>1, <1>t DEF IndexShaped, ArchiveSources
    <2>4. IndexShaped'
        BY <2>2, <2>3 DEF IndexShaped
    <2>5. ASSUME NEW s \in ArchiveSources PROVE CutByOne(s)'
        BY <2>1, <2>3, <1>t DEF CutByOne, Cuttings
    <2>6. ASSUME NEW h \in Indexers PROVE HandStands(h)'
        <3>1. HandStands(h) /\ ~Inserting(h, f)
            BY <2>1, <1>t
        <3>2. ASSUME NEW w \in hand[h].wrote
              PROVE  w.source \in stored' /\ index'[w.source] \subseteq w.rows
            BY <2>1, <3>1 DEF HandStands, Inserting
        <3> QED BY <2>1, <2>2, <3>1, <3>2 DEF HandStands
    <2>7. \A o \in Indexers : \A s : Inserting(o, s)' <=> Inserting(o, s)
        BY <2>2 DEF Inserting
    <2> QED BY <2>1, <2>4, <2>5, <2>6, <2>7 DEF ArchiveInv
<1> QED BY <1>1, <1>2, <1>3, <1>4, <1>5, <1>6, <1>7, <1>8, <1>9 DEF ArchiveNext

(***************************************************************************)
(* For any sources, texts, requests and batches: the index of a source is  *)
(* empty or what one request has cut of it.                                *)
(***************************************************************************)
THEOREM ArchiveStaysWhole == ArchiveSpec => []IndexIsWhole
<1>1. ArchiveInit => ArchiveInv
    BY ArchiveBegins
<1>2. ArchiveInv /\ [ArchiveNext]_archiveVars => ArchiveInv'
    BY ArchiveSteps
<1>3. ArchiveInv => IndexIsWhole
    BY DEF ArchiveInv, CutByOne, IndexIsWhole
<1> QED BY <1>1, <1>2, <1>3, PTL DEF ArchiveSpec

-----------------------------------------------------------------------------
(***************************************************************************)
(* Rulings.  What a call writes over the row it has seen is the ruling it  *)
(* was sent, whatever columns it leaves out.                               *)
(***************************************************************************)

Columns == {"decision", "comment", "by"}

CallStands(c) ==
    opinion[c] # NoOpinion =>
        /\ opinion[c].of \in Proposals /\ opinion[c].says \in Rulings
        /\ opinion[c].seen # NoRuling => ruling[opinion[c].of] \in Rulings

AuthorInv ==
    /\ ruling \in [Proposals -> Rulings \cup {NoRuling}]
    /\ logged \in [Proposals -> Rulings \cup {NoRuling}]
    /\ opinion = [c \in Calls |-> opinion[c]]
    /\ \A c \in Calls : CallStands(c)
    /\ RulingsHaveOneAuthor

\* The columns that differ, written over the row that was seen.
LEMMA WrittenOverWhatWasSeen ==
    ASSUME NEW row \in Rulings, NEW says \in Rulings
    PROVE  Overwritten(row, row, says) = says
<1>1. DOMAIN row = Columns /\ row = [col \in Columns |-> row[col]]
    BY DEF Rulings, Columns
<1>2. says = [col \in Columns |-> says[col]]
    BY DEF Rulings, Columns
<1>3. \A col \in Columns : (IF says[col] # row[col] THEN says[col] ELSE row[col]) = says[col]
    OBVIOUS
<1>4. Overwritten(row, row, says) = [col \in Columns |-> IF says[col] # row[col] THEN says[col] ELSE row[col]]
    BY <1>1 DEF Overwritten
<1> QED BY <1>2, <1>3, <1>4

LEMMA OverwrittenIsARuling ==
    ASSUME NEW row \in Rulings, NEW seen, NEW says \in Rulings
    PROVE  Overwritten(row, seen, says) \in Rulings
<1> DEFINE new == [col \in Columns |-> IF says[col] # seen[col] THEN says[col] ELSE row[col]]
<1>1. DOMAIN row = Columns
    BY DEF Rulings, Columns
<1>2. Overwritten(row, seen, says) = new
    BY <1>1 DEF Overwritten
<1>3. /\ new["decision"] \in Decisions /\ new["comment"] \in Comments /\ new["by"] \in Reviewers
    BY DEF Rulings, Columns
<1>4. new = [decision |-> new["decision"], comment |-> new["comment"], by |-> new["by"]]
    BY DEF Columns
<1> HIDE DEF new
<1> QED BY <1>2, <1>3, <1>4 DEF Rulings

\* A call ends, having written row or nothing.
LEMMA CallsWrite ==
    ASSUME AuthorInv, NEW c \in Calls, opinion[c] # NoOpinion, NEW row \in Rulings, Wrote(c, row),
           opinion[c].seen = ruling[opinion[c].of] => row = opinion[c].says
    PROVE  AuthorInv'
<1>1. opinion[c].of \in Proposals /\ opinion[c].says \in Rulings
    BY DEF AuthorInv, CallStands
<1>2. /\ ruling' = [ruling EXCEPT ![opinion[c].of] = row]
      /\ logged' = [logged EXCEPT ![opinion[c].of] = opinion[c].says]
      /\ mixed' = IF opinion[c].seen = ruling[opinion[c].of] THEN mixed \ {opinion[c].of}
                  ELSE mixed \cup {opinion[c].of}
      /\ opinion' = [opinion EXCEPT ![c] = NoOpinion]
    BY DEF Wrote
<1>3. /\ ruling' \in [Proposals -> Rulings \cup {NoRuling}]
      /\ logged' \in [Proposals -> Rulings \cup {NoRuling}]
    BY <1>1, <1>2 DEF AuthorInv
<1>4. opinion' = [d \in Calls |-> opinion'[d]] /\ \A d \in Calls : opinion'[d] \in {opinion[d], NoOpinion}
    BY <1>2 DEF AuthorInv
<1>6. \A p \in Proposals : ruling'[p] \in {ruling[p], row}
    BY <1>1, <1>2 DEF AuthorInv
<1>5. \A p \in Proposals \ mixed' : ruling'[p] = logged'[p]
    BY <1>1, <1>2 DEF AuthorInv, RulingsHaveOneAuthor
<1> QED BY <1>3, <1>4, <1>5, <1>6 DEF AuthorInv, CallStands, RulingsHaveOneAuthor

LEMMA AuthorSteps ==
    ASSUME AuthorInv, [ReviewsNext]_reviewsVars
    PROVE  AuthorInv'
<1>1. CASE UNCHANGED reviewsVars
    BY <1>1 DEF reviewsVars, AuthorInv, CallStands, RulingsHaveOneAuthor
<1>2. ASSUME NEW p \in Proposals, Offer(p)
      PROVE  AuthorInv'
    BY <1>2 DEF Offer, AuthorInv, CallStands, RulingsHaveOneAuthor
<1>3. ASSUME NEW c \in Calls, NEW p \in Proposals, NEW said_ \in Rulings, LookUp(c, p, said_)
      PROVE  AuthorInv'
    <2> DEFINE x == [of |-> p, says |-> said_, seen |-> ruling[p]]
    <2>1. /\ opinion' = [opinion EXCEPT ![c] = x]
          /\ UNCHANGED <<ruling, logged, mixed>>
        BY <1>3 DEF LookUp
    <2>2. /\ x.of \in Proposals /\ x.says \in Rulings
          /\ x.seen # NoRuling => ruling[x.of] \in Rulings
        BY DEF AuthorInv
    <2> HIDE DEF x
    <2>3. opinion' = [d \in Calls |-> opinion'[d]] /\ \A d \in Calls : opinion'[d] \in {opinion[d], x}
        BY <2>1 DEF AuthorInv
    <2> QED BY <2>1, <2>2, <2>3 DEF AuthorInv, CallStands, RulingsHaveOneAuthor
<1>4. ASSUME NEW c \in Calls, Insert(c)
      PROVE  AuthorInv'
    BY <1>4, CallsWrite DEF Insert, AuthorInv, CallStands
<1>5. ASSUME NEW c \in Calls, Update(c)
      PROVE  AuthorInv'
    <2>1. /\ opinion[c] # NoOpinion
          /\ opinion[c].of \in Proposals /\ opinion[c].says \in Rulings
        BY <1>5 DEF Update, AuthorInv, CallStands
    <2> DEFINE seen == ruling[opinion[c].of]
               row == Overwritten(seen, opinion[c].seen, opinion[c].says)
    <2>2. Wrote(c, row)
        BY <1>5 DEF Update
    <2>3. seen \in Rulings
        BY <1>5 DEF Update, AuthorInv, CallStands
    <2> HIDE DEF seen
    <2>4. row \in Rulings
        BY <2>1, <2>3, OverwrittenIsARuling
    <2>5. opinion[c].seen = seen => row = opinion[c].says
        BY <2>1, <2>3, WrittenOverWhatWasSeen
    <2> HIDE DEF row
    <2> QED BY <2>1, <2>2, <2>4, <2>5, CallsWrite DEF seen
<1>6. ASSUME NEW c \in Calls, Collide(c) \/ Abandon(c)
      PROVE  AuthorInv'
    <2>1. /\ opinion' = [opinion EXCEPT ![c] = NoOpinion]
          /\ UNCHANGED <<ruling, logged, mixed>>
        BY <1>6 DEF Collide, Abandon
    <2>2. opinion' = [d \in Calls |-> opinion'[d]] /\ \A d \in Calls : opinion'[d] \in {opinion[d], NoOpinion}
        BY <2>1 DEF AuthorInv
    <2> QED BY <2>1, <2>2 DEF AuthorInv, CallStands, RulingsHaveOneAuthor
<1> QED BY <1>1, <1>2, <1>3, <1>4, <1>5, <1>6 DEF ReviewsNext, ReviewCalls

(***************************************************************************)
(* For any proposals, reviewers and calls: a row nobody wrote over unseen  *)
(* is one reviewer's ruling, and the audit names that reviewer.            *)
(***************************************************************************)
THEOREM RulingsStayWhole == ReviewsSpec => []RulingsHaveOneAuthor
<1>1. ReviewsInit => AuthorInv
    BY DEF ReviewsInit, AuthorInv, CallStands, RulingsHaveOneAuthor
<1>2. AuthorInv /\ [ReviewsNext]_reviewsVars => AuthorInv'
    BY AuthorSteps
<1>3. AuthorInv => RulingsHaveOneAuthor
    BY DEF AuthorInv
<1> QED BY <1>1, <1>2, <1>3, PTL DEF ReviewsSpec

-----------------------------------------------------------------------------
(***************************************************************************)
(* The cutting of texts.  Where an excerpt begins is a recursive function, *)
(* proved about by the least number at which a claim would fail.           *)
(***************************************************************************)

\* An excerpt has text and fits; one that ends before the text ends before
\* the next one does.
GoodEnds(t, end) ==
    \A p \in 0 .. Len(t) - 1 :
        /\ end[p] \in p + 1 .. Len(t)
        /\ end[p] - p <= ChunkSize
        /\ end[p] < Len(t) =>
            \A q \in 0 .. Len(t) - 1 : q = NextStart(p, end[p]) => end[p] < end[q]

\* g is where the first n excerpts begin.
Begins(g, n, t, end) ==
    g = [i \in 0 .. n |-> IF i = 0 THEN 0 ELSE Following(t, end, g[i - 1])]

LEMMA FollowingType ==
    ASSUME ChunksAssumption, NEW t \in Seq(Characters), NEW end, GoodEnds(t, end),
           NEW p \in 0 .. Len(t)
    PROVE  /\ Following(t, end, p) \in 0 .. Len(t)
           /\ p < Len(t) => Following(t, end, p) > p
           /\ Following(t, end, p) < Len(t) =>
                p < Len(t) /\ end[p] < end[Following(t, end, p)]
           /\ p < Len(t) => Following(t, end, p) <= end[p] \/ Following(t, end, p) = p + 1
<1>1. Len(t) \in Nat
    OBVIOUS
<1>2. CASE p = Len(t)
    BY <1>1, <1>2 DEF Following
<1>3. CASE p < Len(t)
    <2>1. end[p] \in p + 1 .. Len(t)
        BY <1>1, <1>3 DEF GoodEnds
    <2>2. CASE end[p] = Len(t)
        BY <1>1, <1>3, <2>1, <2>2 DEF Following
    <2>3. CASE end[p] < Len(t)
        <3>1. Following(t, end, p) = NextStart(p, end[p])
            BY <1>1, <1>3, <2>1, <2>3 DEF Following
        <3>2. /\ NextStart(p, end[p]) \in p + 1 .. end[p]
            BY <1>1, <1>3, <2>1 DEF NextStart, Larger, ChunksAssumption
        <3>3. NextStart(p, end[p]) \in 0 .. Len(t) - 1
            BY <1>1, <1>3, <2>1, <2>3, <3>2
        <3>4. end[p] < end[NextStart(p, end[p])]
            BY <1>1, <1>3, <2>3, <3>3 DEF GoodEnds
        <3> QED BY <1>1, <1>3, <2>1, <2>3, <3>1, <3>2, <3>3, <3>4
    <2> QED BY <1>1, <2>1, <2>2, <2>3
<1> QED BY <1>1, <1>2, <1>3

LEMMA BeginningsExist ==
    ASSUME ChunksAssumption, NEW t \in Seq(Characters), NEW end, GoodEnds(t, end),
           NEW n \in Nat
    PROVE  \E g \in [0 .. n -> 0 .. Len(t)] : Begins(g, n, t, end)
<1>1. Len(t) \in Nat
    OBVIOUS
<1> DEFINE Exists(m) == \E g \in [0 .. m -> 0 .. Len(t)] : Begins(g, m, t, end)
           T == {m \in Nat : ~ Exists(m)}
<1>2. SUFFICES ASSUME T # {} PROVE FALSE
    OBVIOUS
<1>3. PICK m \in T : \A x \in T : m <= x
    <2>1. T \subseteq Nat
        OBVIOUS
    <2> HIDE DEF T
    <2> QED BY <1>2, <2>1, LeastNumber
<1>4. CASE m = 0
    <2> DEFINE g == [i \in 0 .. 0 |-> 0]
    <2>1. g \in [0 .. 0 -> 0 .. Len(t)] /\ Begins(g, 0, t, end)
        BY <1>1 DEF Begins
    <2> QED BY <1>3, <1>4, <2>1
<1>5. CASE m # 0
    <2>1. m \in Nat /\ m - 1 \in Nat /\ ~ (m <= m - 1)
        BY <1>3, <1>5
    <2>2. Exists(m - 1)
        BY <1>3, <2>1
    <2>3. PICK g \in [0 .. m - 1 -> 0 .. Len(t)] : Begins(g, m - 1, t, end)
        BY <2>2
    <2> DEFINE h == [i \in 0 .. m |->
                        IF i = m THEN Following(t, end, g[m - 1]) ELSE g[i]]
    <2>4. Following(t, end, g[m - 1]) \in 0 .. Len(t)
        BY <2>1, <2>3, FollowingType
    <2>5. h \in [0 .. m -> 0 .. Len(t)]
        BY <2>1, <2>3, <2>4
    <2>6. \A i \in 0 .. m - 1 : g[i] = IF i = 0 THEN 0 ELSE Following(t, end, g[i - 1])
        BY <2>3 DEF Begins
    <2>7. \A i \in 0 .. m : h[i] = IF i = 0 THEN 0 ELSE Following(t, end, h[i - 1])
        <3> TAKE i \in 0 .. m
        <3>1. CASE i = m
            <4>1. h[i] = Following(t, end, g[m - 1]) /\ h[i - 1] = g[m - 1] /\ i # 0
                BY <1>5, <2>1, <3>1
            <4> QED BY <3>1, <4>1
        <3>2. CASE i # m
            <4>1. i \in 0 .. m - 1 /\ h[i] = g[i]
                BY <2>1, <3>2
            <4>2. i # 0 => h[i - 1] = g[i - 1]
                BY <2>1, <3>2
            <4> HIDE DEF h
            <4> QED BY <2>6, <4>1, <4>2
        <3> QED BY <3>1, <3>2
    <2>8. h = [i \in 0 .. m |-> h[i]]
        OBVIOUS
    <2>9. Begins(h, m, t, end)
        <3> HIDE DEF h
        <3> QED BY <2>7, <2>8 DEF Begins
    <2>10. Exists(m)
        BY <2>5, <2>9
    <2> QED BY <1>3, <2>10
<1> QED BY <1>4, <1>5

LEMMA StartsBegin ==
    ASSUME ChunksAssumption, NEW t \in Seq(Characters), NEW end, GoodEnds(t, end)
    PROVE  /\ \A n \in 0 .. Len(t) : Starts(t, end)[n] \in 0 .. Len(t)
           /\ Starts(t, end)[0] = 0
           /\ \A n \in 1 .. Len(t) :
                Starts(t, end)[n] = Following(t, end, Starts(t, end)[n - 1])
<1>1. Len(t) \in Nat
    OBVIOUS
<1> DEFINE f == Starts(t, end)
           L == Len(t)
<1>2. f = CHOOSE g : Begins(g, L, t, end)
    BY DEF Starts, Begins
<1>3. \E g : Begins(g, L, t, end)
    BY <1>1, BeginningsExist
<1> HIDE DEF f
<1>4. Begins(f, L, t, end)
    BY <1>2, <1>3
<1>5. \A n \in 0 .. L : f[n] = IF n = 0 THEN 0 ELSE Following(t, end, f[n - 1])
    BY <1>4 DEF Begins
<1>6. \A n \in 1 .. L : f[n] = Following(t, end, f[n - 1])
    BY <1>1, <1>5
<1>7. f[0] = 0
    BY <1>1, <1>5
<1>8. \A n \in 0 .. L : f[n] \in 0 .. L
    <2> DEFINE T == {n \in 0 .. L : f[n] \notin 0 .. L}
    <2>1. SUFFICES ASSUME T # {} PROVE FALSE
        OBVIOUS
    <2>2. PICK n \in T : \A x \in T : n <= x
        <3>1. T \subseteq Nat
            BY <1>1
        <3> HIDE DEF T
        <3> QED BY <2>1, <3>1, LeastNumber
    <2>3. n \in 1 .. L
        BY <1>1, <1>7, <2>2
    <2>4. n - 1 \in 0 .. L /\ ~ (n <= n - 1)
        BY <1>1, <2>3
    <2>5. f[n - 1] \in 0 .. L
        BY <2>2, <2>4
    <2>6. f[n] \in 0 .. L
        BY <1>6, <2>3, <2>5, FollowingType
    <2> QED BY <2>2, <2>6
<1> QED BY <1>6, <1>7, <1>8 DEF f

\* Each excerpt begins and ends after those before it.
LEMMA StartsAscend ==
    ASSUME ChunksAssumption, NEW t \in Seq(Characters), NEW end, GoodEnds(t, end),
           NEW n \in 0 .. Len(t)
    PROVE  /\ Starts(t, end)[n] >= n
           /\ \A i \in 0 .. n :
                /\ Starts(t, end)[i] <= Starts(t, end)[n]
                /\ i < n /\ Starts(t, end)[n] < Len(t) =>
                    end[Starts(t, end)[i]] < end[Starts(t, end)[n]]
<1> DEFINE f == Starts(t, end)
           L == Len(t)
           Good(m) == /\ f[m] >= m
                      /\ \A i \in 0 .. m :
                            /\ f[i] <= f[m]
                            /\ i < m /\ f[m] < L => end[f[i]] < end[f[m]]
           T == {m \in 0 .. L : ~ Good(m)}
<1>1. L \in Nat
    OBVIOUS
<1>2. /\ \A m \in 0 .. L : f[m] \in 0 .. L
      /\ f[0] = 0
      /\ \A m \in 1 .. L : f[m] = Following(t, end, f[m - 1])
    BY StartsBegin
<1>3. \A p \in 0 .. L - 1 : end[p] \in Nat
    BY <1>1 DEF GoodEnds
<1>4. ASSUME T # {} PROVE FALSE
    <2>1. PICK m \in T : \A x \in T : m <= x
        <3>1. T \subseteq Nat
            BY <1>1
        <3> HIDE DEF T
        <3> QED BY <1>4, <3>1, LeastNumber
    <2>2. Good(0)
        <3> HIDE DEF f
        <3> QED BY <1>1, <1>2
    <2>3. m \in 1 .. L
        BY <1>1, <2>1, <2>2
    <2>4. m - 1 \in 0 .. L /\ ~ (m <= m - 1)
        BY <1>1, <2>3
    <2>5. Good(m - 1)
        BY <2>1, <2>4
    <2> DEFINE p == f[m - 1]
    <2>6. /\ p \in 0 .. L /\ f[m] \in 0 .. L
          /\ f[m] = Following(t, end, p)
        BY <1>2, <2>3, <2>4
    <2>7. /\ p < L => f[m] > p
          /\ f[m] < L => p < L /\ end[p] < end[f[m]]
        BY <2>6, FollowingType
    <2>8. p = L => f[m] = L
        BY <1>1, <2>6 DEF Following
    <2> HIDE DEF f
    <2>9. f[m] >= m /\ f[m] >= p
        BY <1>1, <2>3, <2>5, <2>6, <2>7, <2>8
    <2>10. ASSUME NEW i \in 0 .. m
           PROVE  f[i] <= f[m] /\ (i < m /\ f[m] < L => end[f[i]] < end[f[m]])
        <3>1. CASE i = m
            BY <1>1, <2>3, <2>6, <3>1
        <3>2. CASE i = m - 1
            BY <1>1, <2>3, <2>6, <2>7, <2>9, <3>2
        <3>3. CASE i # m /\ i # m - 1
            <4>1. i \in 0 .. m - 1 /\ i < m - 1 /\ i \in 0 .. L
                BY <1>1, <2>3, <3>3
            <4>2. f[i] <= p /\ (p < L => end[f[i]] < end[p]) /\ f[i] \in 0 .. L
                BY <1>2, <2>5, <4>1
            <4>3. f[m] < L => f[i] \in 0 .. L - 1 /\ p \in 0 .. L - 1 /\ f[m] \in 0 .. L - 1
                BY <1>1, <2>6, <2>7, <4>2
            <4>4. f[i] <= f[m]
                <5> HIDE DEF p
                <5> QED BY <1>1, <2>6, <2>9, <4>2
            <4>5. ASSUME f[m] < L PROVE end[f[i]] < end[f[m]]
                <5>1. /\ end[f[i]] \in Nat /\ end[p] \in Nat /\ end[f[m]] \in Nat
                    BY <1>3, <4>3, <4>5
                <5>2. end[f[i]] < end[p] /\ end[p] < end[f[m]]
                    BY <2>7, <4>2, <4>5
                <5> QED BY <5>1, <5>2
            <4> QED BY <4>4, <4>5
        <3> QED BY <3>1, <3>2, <3>3
    <2>11. Good(m)
        BY <2>9, <2>10
    <2> QED BY <2>1, <2>11
<1>5. Good(n)
    BY <1>4
<1> QED BY <1>5

\* A cutting whose excerpts end well covers its text.
LEMMA CutCovers ==
    ASSUME ChunksAssumption, NEW t \in Seq(Characters), NEW end, GoodEnds(t, end)
    PROVE  Covers(t, Cut(t, end))
<1> DEFINE f == Starts(t, end)
           L == Len(t)
<1>1. L \in Nat
    OBVIOUS
<1>2. /\ \A m \in 0 .. L : f[m] \in 0 .. L
      /\ f[0] = 0
      /\ \A m \in 1 .. L : f[m] = Following(t, end, f[m - 1])
    BY StartsBegin
<1>3. ASSUME NEW r \in Cut(t, end)
      PROVE  \E n \in 0 .. L :
                f[n] < L /\ r = [start |-> f[n], end |-> end[f[n]]]
    BY DEF Cut
<1>4. ASSUME NEW p \in 0 .. L - 1, t[p + 1] # "line"
      PROVE  \E r \in Cut(t, end) : r.start <= p /\ p < r.end
    <2> DEFINE T == {n \in 0 .. L : f[n] > p}
    <2>1. T \subseteq Nat /\ L \in T
        <3>1. f[L] >= L /\ f[L] \in 0 .. L
            BY <1>1, <1>2, StartsAscend
        <3> HIDE DEF f
        <3> QED BY <1>1, <1>4, <3>1
    <2>2. PICK n \in T : \A x \in T : n <= x
        <3> HIDE DEF T
        <3> QED BY <2>1, LeastNumber
    <2>3. n \in 0 .. L /\ f[n] > p /\ f[n] \in 0 .. L
        BY <1>2, <2>2
    <2>4. n # 0
        <3> HIDE DEF f
        <3> QED BY <1>1, <1>2, <1>4, <2>3
    <2>5. n - 1 \in 0 .. L /\ ~ (n <= n - 1) /\ n \in 1 .. L
        BY <1>1, <2>3, <2>4
    <2> DEFINE s == f[n - 1]
    <2>6. s \in 0 .. L /\ f[n] = Following(t, end, s)
        BY <1>2, <2>5
    <2>7. ~ (s > p)
        BY <2>2, <2>5
    <2> HIDE DEF T
    <2>8. s <= p /\ s < L
        <3> HIDE DEF s
        <3> QED BY <1>1, <1>4, <2>6, <2>7
    <2>9. f[n] <= end[s] \/ f[n] = s + 1
        BY <2>6, <2>8, FollowingType
    <2>10. end[s] \in s + 1 .. L
        BY <1>1, <2>6, <2>8 DEF GoodEnds
    <2>11. p < end[s]
        <3> HIDE DEF f, s
        <3> QED BY <1>1, <1>4, <2>3, <2>6, <2>8, <2>9, <2>10
    <2>12. p \in s .. end[s] - 1
        <3> HIDE DEF s
        <3> QED BY <1>1, <1>4, <2>6, <2>8, <2>10, <2>11
    <2>13. s \in { x \in { f[m] : m \in 0 .. L } :
                /\ x < L /\ \E q \in x .. end[x] - 1 : t[q + 1] # "line" }
        BY <1>4, <2>5, <2>8, <2>12
    <2>14. [start |-> s, end |-> end[s]] \in Cut(t, end)
        BY <2>13 DEF Cut
    <2> QED BY <2>8, <2>11, <2>14
<1>5. ASSUME NEW r \in Cut(t, end)
      PROVE  r.start < r.end /\ r.end - r.start <= ChunkSize
    <2>1. PICK n \in 0 .. L : f[n] < L /\ r = [start |-> f[n], end |-> end[f[n]]]
        BY <1>3
    <2>2. f[n] \in 0 .. L - 1
        BY <1>1, <1>2, <2>1
    <2>3. end[f[n]] \in f[n] + 1 .. L /\ end[f[n]] - f[n] <= ChunkSize
        BY <2>2 DEF GoodEnds
    <2> HIDE DEF f
    <2> QED BY <1>1, <2>1, <2>2, <2>3
<1>6. ASSUME NEW r \in Cut(t, end), NEW s \in Cut(t, end), r.start < s.start
      PROVE  r.end < s.end
    <2>1. PICK i \in 0 .. L : f[i] < L /\ r = [start |-> f[i], end |-> end[f[i]]]
        BY <1>3
    <2>2. PICK j \in 0 .. L : f[j] < L /\ s = [start |-> f[j], end |-> end[f[j]]]
        BY <1>3
    <2>3. f[i] < f[j] /\ f[i] \in Nat /\ f[j] \in Nat
        BY <1>1, <1>2, <1>6, <2>1, <2>2
    <2>4. i < j
        <3>1. CASE j <= i
            <4>1. j \in 0 .. i
                BY <1>1, <3>1
            <4>2. f[j] <= f[i]
                BY <4>1, StartsAscend
            <4> HIDE DEF f
            <4> QED BY <2>3, <4>2
        <3> QED BY <1>1, <3>1
    <2>5. i \in 0 .. j
        BY <1>1, <2>4
    <2>6. end[f[i]] < end[f[j]]
        BY <2>2, <2>4, <2>5, StartsAscend
    <2> QED BY <2>1, <2>2, <2>6
<1> QED BY <1>4, <1>5, <1>6 DEF Covers

LEMMA MarksAreFound ==
    ASSUME NEW t, NEW mark, NEW from \in Nat, NEW to \in Nat
    PROVE  LastMark(t, mark, from, to) \in {-1} \cup (from .. to - 1)
<1> DEFINE places == { p \in from .. to - 1 : t[p + 1] = mark }
<1>1. CASE places = {}
    BY <1>1 DEF LastMark
<1>2. CASE places # {}
    <2> DEFINE T == { to - p : p \in places }
    <2>1. T \subseteq Nat /\ T # {}
        BY <1>2
    <2>2. PICK n \in T : \A m \in T : n <= m
        <3> HIDE DEF T
        <3> QED BY <2>1, LeastNumber
    <2>3. PICK p \in places : n = to - p
        BY <2>2
    <2>4. \A q \in places : q <= p
        <3> TAKE q \in places
        <3>1. to - p <= to - q
            BY <2>2, <2>3
        <3>2. p \in Int /\ q \in Int
            OBVIOUS
        <3> QED BY <3>1, <3>2
    <2>5. LastMark(t, mark, from, to) = CHOOSE x \in places : \A q \in places : q <= x
        BY <1>2 DEF LastMark
    <2>6. LastMark(t, mark, from, to) \in places
        <3> HIDE DEF places
        <3> QED BY <2>4, <2>5
    <2> QED BY <2>6
<1> QED BY <1>1, <1>2

\* Where an excerpt ends, whichever way a text is cut: at its end, or beyond
\* the overlap of the excerpt before.
EndsWell(t, start, stop) ==
    /\ stop \in start + 1 .. Len(t)
    /\ stop - start <= ChunkSize
    /\ stop < Len(t) => stop >= start + ChunkSize \div 2

LEMMA HalfIsPositive ==
    ASSUME ChunksAssumption
    PROVE  /\ ChunkSize \div 2 \in Nat /\ ChunkSize \div 2 > ChunkOverlap
           /\ ChunkSize \div 2 <= ChunkSize /\ ChunkSize \div 2 > 0
           /\ ChunkSize \in Nat /\ ChunkOverlap \in Nat
    BY DEF ChunksAssumption

LEMMA ArchiveEndsWell ==
    ASSUME ChunksAssumption, NEW t \in Seq(Characters), NEW p \in 0 .. Len(t) - 1
    PROVE  EndsWell(t, p, ArchiveEnd(t, p))
<1> DEFINE L == Len(t)
           half == ChunkSize \div 2
           hard == Smaller(L, p + ChunkSize)
           line == LastMark(t, "line", p + half, hard)
           stop == LastMark(t, "stop", p + half, hard)
           boundary == Larger(line, IF stop >= 0 THEN stop + 1 ELSE -1)
<1>1. L \in Nat /\ p \in Nat /\ p < L
    OBVIOUS
<1>2. /\ half \in Nat /\ half <= ChunkSize /\ half > 0 /\ ChunkSize \in Nat
    BY HalfIsPositive
<1>3. ArchiveEnd(t, p) = IF hard < L /\ boundary > p THEN boundary ELSE hard
    BY DEF ArchiveEnd
<1> HIDE DEF L, half
<1>4. hard \in Nat /\ p + half \in Nat
    BY <1>1, <1>2 DEF Smaller
<1>5. /\ line \in {-1} \cup (p + half .. hard - 1)
      /\ stop \in {-1} \cup (p + half .. hard - 1)
    <2> HIDE DEF hard
    <2> QED BY <1>4, MarksAreFound
<1> HIDE DEF line, stop
<1>6. /\ hard <= L /\ hard <= p + ChunkSize /\ hard > p
      /\ hard < L => hard = p + ChunkSize
    BY <1>1, <1>2 DEF Smaller
<1> HIDE DEF hard
<1>7. boundary > p => boundary \in p + half .. hard
    BY <1>1, <1>2, <1>4, <1>5 DEF Larger
<1> HIDE DEF boundary
<1>8. /\ ArchiveEnd(t, p) \in p + 1 .. L
      /\ ArchiveEnd(t, p) - p <= ChunkSize
      /\ ArchiveEnd(t, p) < L => ArchiveEnd(t, p) >= p + half
    BY <1>1, <1>2, <1>3, <1>4, <1>6, <1>7
<1> QED BY <1>8 DEF EndsWell, L, half

LEMMA PilotEndsWell ==
    ASSUME ChunksAssumption, NEW t \in Seq(Characters), NEW p \in 0 .. Len(t) - 1
    PROVE  EndsWell(t, p, PilotEnd(t, p))
<1> DEFINE L == Len(t)
           half == ChunkSize \div 2
           hard == Smaller(L, p + ChunkSize)
           line == LastMark(t, "line", p + half, hard)
           stop == LastMark(t, "stop", p + half, hard)
           boundary == Larger(line, stop)
<1>1. L \in Nat /\ p \in Nat /\ p < L
    OBVIOUS
<1>2. /\ half \in Nat /\ half <= ChunkSize /\ half > 0 /\ ChunkSize \in Nat
    BY HalfIsPositive
<1>3. PilotEnd(t, p) = IF hard < L /\ boundary > p THEN boundary + 1 ELSE hard
    BY DEF PilotEnd
<1> HIDE DEF L, half
<1>4. hard \in Nat /\ p + half \in Nat
    BY <1>1, <1>2 DEF Smaller
<1>5. /\ line \in {-1} \cup (p + half .. hard - 1)
      /\ stop \in {-1} \cup (p + half .. hard - 1)
    <2> HIDE DEF hard
    <2> QED BY <1>4, MarksAreFound
<1> HIDE DEF line, stop
<1>6. /\ hard <= L /\ hard <= p + ChunkSize /\ hard > p
      /\ hard < L => hard = p + ChunkSize
    BY <1>1, <1>2 DEF Smaller
<1> HIDE DEF hard
<1>7. boundary > p => boundary \in p + half .. hard - 1
    BY <1>1, <1>2, <1>4, <1>5 DEF Larger
<1> HIDE DEF boundary
<1>8. /\ PilotEnd(t, p) \in p + 1 .. L
      /\ PilotEnd(t, p) - p <= ChunkSize
      /\ PilotEnd(t, p) < L => PilotEnd(t, p) >= p + half
    BY <1>1, <1>2, <1>3, <1>4, <1>6, <1>7
<1> QED BY <1>8 DEF EndsWell, L, half

\* The next excerpt begins less than half an excerpt before the end of this
\* one, so it ends after it.
LEMMA WellIsGood ==
    ASSUME ChunksAssumption, NEW t \in Seq(Characters), NEW end,
           \A p \in 0 .. Len(t) - 1 : EndsWell(t, p, end[p])
    PROVE  GoodEnds(t, end)
<1> DEFINE L == Len(t)
           half == ChunkSize \div 2
<1>1. L \in Nat
    OBVIOUS
<1>2. half \in Nat /\ half > ChunkOverlap /\ ChunkOverlap \in Nat
    BY HalfIsPositive
<1>3. ASSUME NEW p \in 0 .. L - 1, end[p] < L,
             NEW q \in 0 .. L - 1, q = NextStart(p, end[p])
      PROVE  end[p] < end[q]
    <2> DEFINE a == end[p]
               b == end[q]
    <2>1. a \in p + 1 .. L /\ b \in q + 1 .. L /\ (b < L => b >= q + half)
        BY DEF EndsWell
    <2>2. q >= a - ChunkOverlap
        BY <1>1, <1>2, <1>3, <2>1 DEF NextStart, Larger
    <2>3. a < L
        BY <1>3
    <2> HIDE DEF a, b, half, L
    <2>4. a < b
        BY <1>1, <1>2, <2>1, <2>2, <2>3
    <2> QED BY <2>4 DEF a, b
<1> QED BY <1>3 DEF GoodEnds, EndsWell

\* Neither way of cutting a text leaves a character of it out, makes an
\* excerpt longer than allowed or one that lies inside another: _chunk_ranges
\* and _chunk_text, whatever the text.
THEOREM NoTextIsLost ==
    ASSUME ChunksAssumption, NEW t \in Seq(Characters)
    PROVE  Covers(t, ArchiveRanges(t)) /\ Covers(t, PilotRanges(t))
<1> DEFINE a == [p \in 0 .. Len(t) - 1 |-> ArchiveEnd(t, p)]
           b == [p \in 0 .. Len(t) - 1 |-> PilotEnd(t, p)]
<1>1. GoodEnds(t, a)
    <2>1. \A p \in 0 .. Len(t) - 1 : EndsWell(t, p, a[p])
        BY ArchiveEndsWell
    <2> HIDE DEF a
    <2> QED BY <2>1, WellIsGood
<1>2. GoodEnds(t, b)
    <2>1. \A p \in 0 .. Len(t) - 1 : EndsWell(t, p, b[p])
        BY PilotEndsWell
    <2> HIDE DEF b
    <2> QED BY <2>1, WellIsGood
<1>3. Covers(t, Cut(t, a)) /\ Covers(t, Cut(t, b))
    <2> HIDE DEF a, b
    <2> QED BY <1>1, <1>2, CutCovers
<1> QED BY <1>3 DEF ArchiveRanges, PilotRanges

\* The excerpts of every source of the archive, and those the pilot would cut
\* of it, cover its text.
THEOREM ExcerptsCover == ArchiveSpec => []ExcerptsLoseNothing
<1> DEFINE Texted == text \in [ArchiveSources -> Seq(Characters)]
<1>1. ArchiveInit => Texted
    BY TextsAssumption DEF ArchiveInit, TextsAssumption
<1>2. Texted /\ [ArchiveNext]_archiveVars => Texted'
    <2>1. [ArchiveNext]_archiveVars => UNCHANGED text
        BY DEF ArchiveNext, archiveVars, BeginStore, StoreSource, LookUpIndex,
               BeginBackfill, InsertExcerpts, EndBackfill, Undo, DeleteSource
    <2> QED BY <2>1
<1>3. Texted => ExcerptsLoseNothing
    BY ChunksAssumption, NoTextIsLost DEF ExcerptsLoseNothing
<1> QED
    BY <1>1, <1>2, <1>3, PTL DEF ArchiveSpec

-----------------------------------------------------------------------------
(***************************************************************************)
(* What a prompt is told of the rulings: as many of the newest as fit.     *)
(* The rulings by age hold each proposal with a row once.                  *)
(***************************************************************************)

QueueInv ==
    /\ AuthorInv
    /\ offered \subseteq Proposals
    /\ ages \in Seq(Proposals)
    /\ \A i, j \in DOMAIN ages : ages[i] = ages[j] => i = j
    /\ \A p \in Proposals : ruling[p] # NoRuling <=> \E i \in DOMAIN ages : ages[i] = p
    /\ \A p \in Proposals : ruling[p] # NoRuling => p \in offered
    /\ \A c \in Calls : opinion[c] # NoOpinion => opinion[c].of \in offered

LEMMA OthersKeepTheirOrder ==
    ASSUME ages \in Seq(Proposals), NEW p \in Proposals,
           \A i, j \in DOMAIN ages : ages[i] = ages[j] => i = j
    PROVE  /\ OtherRulings(p) \in Seq(Proposals)
           /\ \A i, j \in DOMAIN OtherRulings(p) :
                OtherRulings(p)[i] = OtherRulings(p)[j] => i = j
           /\ \A q \in Proposals :
                (\E i \in DOMAIN OtherRulings(p) : OtherRulings(p)[i] = q)
                    <=> q # p /\ \E i \in DOMAIN ages : ages[i] = q
<1> DEFINE rest == OtherRulings(p)
           n == Len(ages)
<1>1. n \in Nat /\ DOMAIN ages = 1 .. n
    OBVIOUS
<1>2. CASE ~ \E i \in DOMAIN ages : ages[i] = p
    <2>1. rest = ages
        BY <1>2 DEF OtherRulings
    <2> HIDE DEF rest
    <2> QED BY <1>2, <2>1 DEF rest
<1>3. CASE \E i \in DOMAIN ages : ages[i] = p
    <2> DEFINE place == CHOOSE i \in DOMAIN ages : ages[i] = p
               front == SubSeq(ages, 1, place - 1)
               back == SubSeq(ages, place + 1, n)
    <2>1. place \in 1 .. n /\ ages[place] = p
        BY <1>1, <1>3
    <2>2. rest = front \o back
        BY <1>3 DEF OtherRulings
    <2> HIDE DEF place
    <2>3. /\ front \in Seq(Proposals) /\ Len(front) = place - 1
          /\ \A i \in 1 .. place - 1 : front[i] = ages[i]
        BY <1>1, <2>1
    <2>4. /\ back \in Seq(Proposals) /\ Len(back) = n - place
          /\ \A i \in 1 .. n - place : back[i] = ages[place + i]
        <3>1. /\ place + 1 \in Int /\ n \in Int
              /\ \A i \in place + 1 .. n : ages[i] \in Proposals
            BY <1>1, <2>1
        <3>2. /\ back \in Seq(Proposals)
              /\ Len(back) = IF place + 1 <= n THEN n - (place + 1) + 1 ELSE 0
              /\ \A i \in 1 .. n - (place + 1) + 1 : back[i] = ages[(place + 1) + i - 1]
            BY <3>1, SubSeqProperties
        <3> HIDE DEF back
        <3>3. Len(back) = n - place /\ n - (place + 1) + 1 = n - place
            <4>1. n \in Nat /\ place \in Nat /\ place <= n
                BY <1>1, <2>1
            <4> HIDE DEF n
            <4>2. n - (place + 1) + 1 = n - place
                BY <4>1
            <4>3. CASE place + 1 <= n
                BY <3>2, <4>2, <4>3
            <4>4. CASE ~ (place + 1 <= n)
                <5>1. n - place = 0
                    BY <4>1, <4>4
                <5> QED BY <3>2, <4>2, <4>4, <5>1
            <4> QED BY <4>2, <4>3, <4>4
        <3>4. \A i \in 1 .. n - place : (place + 1) + i - 1 = place + i
            BY <1>1, <2>1
        <3> QED BY <3>2, <3>3, <3>4
    <2> HIDE DEF front, back, rest
    <2>5. rest \in Seq(Proposals) /\ Len(rest) = n - 1 /\ DOMAIN rest = 1 .. n - 1
        <3>1. rest \in Seq(Proposals) /\ Len(rest) = Len(front) + Len(back)
            BY <2>2, <2>3, <2>4, ConcatProperties
        <3>2. Len(rest) = n - 1
            BY <1>1, <2>1, <2>3, <2>4, <3>1
        <3> QED BY <3>1, <3>2
    <2>6. \A i \in 1 .. n - 1 : i < place => rest[i] = ages[i]
        BY <1>1, <2>1, <2>2, <2>3, <2>4
    <2>7. \A i \in 1 .. n - 1 : i >= place => rest[i] = ages[i + 1]
        <3> TAKE i \in 1 .. n - 1
        <3>1. ASSUME i >= place PROVE rest[i] = ages[i + 1]
            <4>1. rest[i] = back[i - (place - 1)]
                BY <1>1, <2>1, <2>2, <2>3, <2>4, <3>1
            <4>2. i - (place - 1) \in 1 .. n - place
                BY <1>1, <2>1, <3>1
            <4>3. place + (i - (place - 1)) = i + 1
                BY <1>1, <2>1
            <4>4. back[i - (place - 1)] = ages[place + (i - (place - 1))]
                BY <2>4, <4>2
            <4> QED BY <4>1, <4>3, <4>4
        <3> QED BY <3>1
    <2>8. ASSUME NEW i \in 1 .. n - 1, NEW j \in 1 .. n - 1, rest[i] = rest[j]
          PROVE  i = j
        BY <1>1, <2>1, <2>6, <2>7, <2>8
    <2>9. ASSUME NEW q \in Proposals, q # p, NEW i \in 1 .. n, ages[i] = q
          PROVE  \E j \in 1 .. n - 1 : rest[j] = q
        <3>1. i # place
            BY <2>1, <2>9
        <3>2. CASE i < place
            BY <1>1, <2>1, <2>6, <2>9, <3>2
        <3>3. CASE i > place
            <4>1. i - 1 \in 1 .. n - 1 /\ i - 1 >= place /\ (i - 1) + 1 = i
                BY <1>1, <2>1, <3>3
            <4>2. rest[i - 1] = ages[i]
                BY <2>7, <4>1
            <4> QED BY <2>9, <4>1, <4>2
        <3> QED BY <1>1, <2>1, <3>1, <3>2, <3>3
    <2>10. ASSUME NEW j \in 1 .. n - 1
           PROVE  rest[j] # p /\ \E i \in 1 .. n : ages[i] = rest[j]
        BY <1>1, <2>1, <2>6, <2>7
    <2> QED
        BY <1>1, <2>5, <2>8, <2>9, <2>10 DEF rest
<1> QED BY <1>2, <1>3

LEMMA QueueWrite ==
    ASSUME QueueInv, NEW c \in Calls, opinion[c] # NoOpinion,
           NEW row \in Rulings, Wrote(c, row), AuthorInv'
    PROVE  QueueInv'
<1> DEFINE p == opinion[c].of
           rest == OtherRulings(p)
<1>1. /\ p \in Proposals /\ p \in offered
      /\ ruling \in [Proposals -> Rulings \cup {NoRuling}]
    BY DEF QueueInv, AuthorInv, CallStands
<1>2. /\ ruling' = [ruling EXCEPT ![p] = row]
      /\ ages' = Append(rest, p)
      /\ opinion' = [opinion EXCEPT ![c] = NoOpinion]
      /\ offered' = offered
    BY DEF Wrote
<1>3. /\ rest \in Seq(Proposals)
      /\ \A i, j \in DOMAIN rest : rest[i] = rest[j] => i = j
      /\ \A q \in Proposals :
            (\E i \in DOMAIN rest : rest[i] = q)
                <=> q # p /\ \E i \in DOMAIN ages : ages[i] = q
    BY <1>1, OthersKeepTheirOrder DEF QueueInv
<1> HIDE DEF rest
<1>4. row # NoRuling
    BY DEF Rulings, NoRuling, Decisions
<1>5. /\ ruling'[p] = row
      /\ \A q \in Proposals \ {p} : ruling'[q] = ruling[q]
    BY <1>1, <1>2
<1>6. \A d \in Calls : opinion'[d] \in {opinion[d], NoOpinion}
    BY <1>2 DEF QueueInv, AuthorInv
<1> HIDE DEF p
<1>7. /\ ages' \in Seq(Proposals) /\ Len(ages') = Len(rest) + 1
      /\ DOMAIN ages' = DOMAIN rest \cup {Len(rest) + 1}
      /\ ages'[Len(rest) + 1] = p
      /\ \A i \in DOMAIN rest : ages'[i] = rest[i]
      /\ Len(rest) + 1 \notin DOMAIN rest
    BY <1>1, <1>2, <1>3
<1>8. \A i \in DOMAIN rest : rest[i] \in Proposals /\ rest[i] # p
    BY <1>3
<1>9. \A i, j \in DOMAIN ages' : ages'[i] = ages'[j] => i = j
    BY <1>3, <1>7, <1>8
<1>10. ASSUME NEW q \in Proposals
       PROVE  ruling'[q] # NoRuling <=> \E i \in DOMAIN ages' : ages'[i] = q
    <2>1. CASE q = p
        BY <1>4, <1>5, <1>7, <2>1
    <2>2. CASE q # p
        <3>1. ruling[q] # NoRuling <=> \E i \in DOMAIN ages : ages[i] = q
            BY DEF QueueInv
        <3>2. (\E i \in DOMAIN ages' : ages'[i] = q) <=> \E i \in DOMAIN rest : rest[i] = q
            BY <1>7, <2>2
        <3> QED BY <1>3, <1>5, <2>2, <3>1, <3>2
    <2> QED BY <2>1, <2>2
<1>11. \A q \in Proposals : ruling'[q] # NoRuling => q \in offered'
    BY <1>1, <1>2, <1>5 DEF QueueInv
<1>12. \A d \in Calls : opinion'[d] # NoOpinion => opinion'[d].of \in offered'
    BY <1>2, <1>6 DEF QueueInv
<1> QED
    BY <1>2, <1>7, <1>9, <1>10, <1>11, <1>12 DEF QueueInv

LEMMA QueueSteps ==
    ASSUME QueueInv, [ReviewsNext]_reviewsVars
    PROVE  QueueInv'
<1>1. AuthorInv'
    BY AuthorSteps DEF QueueInv
<1>2. CASE UNCHANGED reviewsVars
    <2>1. UNCHANGED <<offered, ruling, ages, opinion>>
        BY <1>2 DEF reviewsVars
    <2> QED BY <1>1, <2>1 DEF QueueInv
<1>3. ASSUME NEW p \in Proposals, Offer(p) PROVE QueueInv'
    BY <1>1, <1>3 DEF Offer, QueueInv
<1>4. ASSUME NEW c \in Calls, NEW p \in Proposals, NEW said_ \in Rulings,
             LookUp(c, p, said_)
      PROVE  QueueInv'
    <2>1. /\ p \in offered
          /\ opinion'[c].of = p
          /\ \A d \in Calls \ {c} : opinion'[d] = opinion[d]
          /\ UNCHANGED <<offered, ruling, ages>>
        BY <1>4 DEF LookUp, QueueInv, AuthorInv
    <2> QED BY <1>1, <2>1 DEF QueueInv
<1>5. ASSUME NEW c \in Calls, Insert(c) PROVE QueueInv'
    BY <1>1, <1>5, QueueWrite DEF Insert, QueueInv, AuthorInv, CallStands
<1>6. ASSUME NEW c \in Calls, Update(c) PROVE QueueInv'
    <2>1. /\ opinion[c] # NoOpinion
          /\ opinion[c].of \in Proposals /\ opinion[c].says \in Rulings
          /\ ruling[opinion[c].of] \in Rulings
        BY <1>6 DEF Update, QueueInv, AuthorInv, CallStands
    <2> DEFINE row == Overwritten(ruling[opinion[c].of], opinion[c].seen, opinion[c].says)
    <2>2. Wrote(c, row)
        BY <1>6 DEF Update
    <2>3. row \in Rulings
        BY <2>1, OverwrittenIsARuling
    <2> HIDE DEF row
    <2> QED BY <1>1, <2>1, <2>2, <2>3, QueueWrite
<1>7. ASSUME NEW c \in Calls, Collide(c) \/ Abandon(c) PROVE QueueInv'
    <2>1. /\ opinion' = [opinion EXCEPT ![c] = NoOpinion]
          /\ UNCHANGED <<offered, ruling, ages>>
        BY <1>7 DEF Collide, Abandon
    <2>2. \A d \in Calls : opinion'[d] \in {opinion[d], NoOpinion}
        BY <2>1 DEF QueueInv, AuthorInv
    <2> QED BY <1>1, <2>1, <2>2 DEF QueueInv
<1> QED
    BY <1>2, <1>3, <1>4, <1>5, <1>6, <1>7 DEF ReviewsNext, ReviewCalls

\* The room the newest rulings take, none of them being negative.
Takes(g, n) ==
    g = [i \in 0 .. n |-> IF i = 0 THEN 0
                          ELSE g[i - 1] + ruling[ages[Len(ages) - i + 1]].comment]

LEMMA CommentsAreNumbers ==
    ASSUME ReviewsAssumption, QueueInv, NEW i \in 1 .. Len(ages)
    PROVE  ruling[ages[Len(ages) - i + 1]].comment \in Nat
<1>1. Len(ages) \in Nat /\ DOMAIN ages = 1 .. Len(ages)
    BY DEF QueueInv
<1>2. Len(ages) - i + 1 \in 1 .. Len(ages)
    BY <1>1
<1>3. ages[Len(ages) - i + 1] \in Proposals
    BY <1>1, <1>2 DEF QueueInv
<1>4. ruling[ages[Len(ages) - i + 1]] \in Rulings \cup {NoRuling}
    BY <1>3 DEF QueueInv, AuthorInv
<1>5. ASSUME NEW r \in Rulings PROVE r.comment \in Nat
    BY DEF Rulings, ReviewsAssumption
<1>6. NoRuling.comment \in Nat
    BY DEF NoRuling
<1> QED BY <1>4, <1>5, <1>6

LEMMA RoomExists ==
    ASSUME ReviewsAssumption, QueueInv, NEW n \in 0 .. Len(ages)
    PROVE  \E g \in [0 .. n -> Nat] : Takes(g, n)
<1> DEFINE L == Len(ages)
           add(i) == ruling[ages[L - i + 1]].comment
           Exists(m) == \E g \in [0 .. m -> Nat] : Takes(g, m)
           T == {m \in 0 .. L : ~ Exists(m)}
<1>1. L \in Nat
    BY DEF QueueInv
<1>2. \A i \in 1 .. L : add(i) \in Nat
    BY CommentsAreNumbers
<1>3. SUFFICES ASSUME T # {} PROVE FALSE
    OBVIOUS
<1>4. PICK m \in T : \A x \in T : m <= x
    <2>1. T \subseteq Nat
        BY <1>1
    <2> HIDE DEF T
    <2> QED BY <1>3, <2>1, LeastNumber
<1>5. CASE m = 0
    <2> DEFINE g == [i \in 0 .. 0 |-> 0]
    <2>1. g \in [0 .. 0 -> Nat] /\ Takes(g, 0)
        BY DEF Takes
    <2> QED BY <1>4, <1>5, <2>1
<1>6. CASE m # 0
    <2>1. m \in 1 .. L /\ m - 1 \in 0 .. L /\ ~ (m <= m - 1)
        BY <1>1, <1>4, <1>6
    <2>2. Exists(m - 1)
        BY <1>4, <2>1
    <2>3. PICK g \in [0 .. m - 1 -> Nat] : Takes(g, m - 1)
        BY <2>2
    <2> HIDE DEF add
    <2> DEFINE h == [i \in 0 .. m |-> IF i = m THEN g[m - 1] + add(m) ELSE g[i]]
    <2>4. g[m - 1] + add(m) \in Nat
        BY <1>1, <1>2, <2>1, <2>3
    <2>5. h \in [0 .. m -> Nat]
        BY <1>1, <2>1, <2>3, <2>4
    <2>6. \A i \in 0 .. m - 1 : g[i] = IF i = 0 THEN 0 ELSE g[i - 1] + add(i)
        BY <2>3 DEF Takes, add
    <2>7. \A i \in 0 .. m : h[i] = IF i = 0 THEN 0 ELSE h[i - 1] + add(i)
        <3> TAKE i \in 0 .. m
        <3>1. CASE i = m
            <4>1. h[i] = g[m - 1] + add(m) /\ h[i - 1] = g[m - 1] /\ i # 0
                BY <1>1, <1>6, <2>1, <3>1
            <4> QED BY <3>1, <4>1
        <3>2. CASE i # m
            <4>1. i \in 0 .. m - 1 /\ h[i] = g[i]
                BY <1>1, <2>1, <3>2
            <4>2. i # 0 => h[i - 1] = g[i - 1]
                BY <1>1, <2>1, <3>2
            <4> HIDE DEF h
            <4> QED BY <2>6, <4>1, <4>2
        <3> QED BY <3>1, <3>2
    <2>8. h = [i \in 0 .. m |-> h[i]]
        OBVIOUS
    <2>9. Takes(h, m)
        <3> HIDE DEF h
        <3> QED BY <2>7, <2>8 DEF Takes, add
    <2>10. Exists(m)
        BY <2>5, <2>9
    <2> QED BY <1>4, <2>10
<1> QED BY <1>5, <1>6

LEMMA RoomGrows ==
    ASSUME ReviewsAssumption, QueueInv
    PROVE  /\ Room[0] = 0
           /\ \A n \in 1 .. Len(ages) :
                Room[n] = Room[n - 1] + ruling[ages[Len(ages) - n + 1]].comment
           /\ \A n \in 0 .. Len(ages) : Room[n] \in Nat
<1> DEFINE L == Len(ages)
           add(i) == ruling[ages[L - i + 1]].comment
<1>1. L \in Nat /\ L \in 0 .. L
    BY DEF QueueInv
<1>2. Room = CHOOSE g : Takes(g, L)
    BY DEF Room, Takes
<1>3. \E g : Takes(g, L)
    BY <1>1, RoomExists
<1>4. Takes(Room, L)
    BY <1>2, <1>3
<1>5. \A n \in 0 .. L : Room[n] = IF n = 0 THEN 0 ELSE Room[n - 1] + add(n)
    BY <1>4 DEF Takes
<1>6. \A i \in 1 .. L : add(i) \in Nat
    BY CommentsAreNumbers
<1> HIDE DEF add
<1>7. /\ Room[0] = 0
      /\ \A n \in 1 .. L : Room[n] = Room[n - 1] + add(n)
    BY <1>1, <1>5
<1>8. \A n \in 0 .. L : Room[n] \in Nat
    <2> DEFINE T == {n \in 0 .. L : Room[n] \notin Nat}
    <2>1. SUFFICES ASSUME T # {} PROVE FALSE
        OBVIOUS
    <2>2. PICK n \in T : \A x \in T : n <= x
        <3>1. T \subseteq Nat
            BY <1>1
        <3> HIDE DEF T
        <3> QED BY <2>1, <3>1, LeastNumber
    <2>3. n \in 1 .. L
        BY <1>1, <1>7, <2>2
    <2>4. n - 1 \in 0 .. L /\ ~ (n <= n - 1)
        BY <1>1, <2>3
    <2>5. Room[n - 1] \in Nat
        BY <2>2, <2>4
    <2>6. Room[n] \in Nat
        BY <1>6, <1>7, <2>3, <2>5
    <2> QED BY <2>2, <2>6
<1> QED BY <1>7, <1>8 DEF add

\* How many rulings are told: as many as fit.
LEMMA ManyFit ==
    ASSUME ReviewsAssumption, QueueInv
    PROVE  /\ HowMany \in 0 .. Len(ages)
           /\ HowMany <= ReviewItems /\ Room[HowMany] <= ReviewRoom
           /\ HowMany < ReviewItems /\ HowMany < Len(ages) =>
                Room[HowMany + 1] > ReviewRoom
<1> DEFINE L == Len(ages)
           Full(m) == \/ m = ReviewItems \/ m = L
                      \/ Room[m + 1] > ReviewRoom
           T == {m \in 0 .. L : Full(m)}
           IsTold(m) == /\ m <= ReviewItems /\ Room[m] <= ReviewRoom
                        /\ m < ReviewItems /\ m < L => Room[m + 1] > ReviewRoom
<1>1. L \in Nat /\ ReviewItems \in Nat /\ ReviewRoom \in Nat
    BY DEF QueueInv, ReviewsAssumption
<1>2. Room[0] = 0 /\ \A m \in 0 .. L : Room[m] \in Nat
    BY RoomGrows
<1>3. PICK n \in T : \A x \in T : n <= x
    <2>1. T \subseteq Nat /\ L \in T
        BY <1>1
    <2> HIDE DEF T
    <2> QED BY <2>1, LeastNumber
<1>4. n <= ReviewItems
    <2>1. CASE n > ReviewItems
        <3>1. ReviewItems \in T
            BY <1>1, <1>3, <2>1
        <3> QED BY <1>3, <3>1
    <2> QED BY <1>1, <1>3, <2>1
<1>5. Room[n] <= ReviewRoom
    <2>1. CASE n = 0
        BY <1>1, <1>2, <2>1
    <2>2. CASE n # 0
        <3>1. n - 1 \in 0 .. L /\ ~ (n <= n - 1) /\ (n - 1) + 1 = n
            BY <1>1, <1>3, <2>2
        <3>2. ~ Full(n - 1)
            BY <1>3, <3>1
        <3>3. ~ (Room[n] > ReviewRoom)
            BY <3>1, <3>2
        <3> QED BY <1>1, <1>2, <1>3, <3>3
    <2> QED BY <2>1, <2>2
<1>6. n \in 0 .. L /\ IsTold(n)
    BY <1>1, <1>3, <1>4, <1>5
<1>7. HowMany = CHOOSE m \in 0 .. L : IsTold(m)
    BY DEF HowMany
<1> HIDE DEF IsTold
<1>8. HowMany \in 0 .. L /\ IsTold(HowMany)
    BY <1>6, <1>7
<1> QED BY <1>8 DEF IsTold

LEMMA TheNewestAreTold ==
    ASSUME ReviewsAssumption, QueueInv
    PROVE  LatestRulingsAreTold
<1> SUFFICES ASSUME ages # <<>>, ReviewItems > 0
             PROVE  LET last == ages[Len(ages)]
                        among == {Told[i] : i \in DOMAIN Told}
                    IN  /\ ruling[last].comment <= ReviewRoom => last \in among
                        /\ \A i, j \in DOMAIN ages :
                              ages[i] \in among /\ j > i => ages[j] \in among
    BY DEF LatestRulingsAreTold
<1> DEFINE L == Len(ages)
           n == HowMany
           among == {Told[i] : i \in DOMAIN Told}
<1>1. L \in Nat /\ L > 0 /\ DOMAIN ages = 1 .. L /\ ReviewItems \in Nat /\ ReviewRoom \in Nat
    BY DEF QueueInv, ReviewsAssumption
<1>2. /\ n \in 0 .. L
      /\ n < ReviewItems /\ n < L => Room[n + 1] > ReviewRoom
    BY ManyFit
<1> HIDE DEF n
<1>3. Told = SubSeq(ages, L - n + 1, L)
    BY DEF Told, ToldOf, Newest, n
<1>4. /\ DOMAIN Told = 1 .. n
      /\ \A i \in 1 .. n : Told[i] = ages[L - n + i]
    <2>1. ages \in Seq(Proposals) /\ L - n + 1 \in 1 .. L + 1 /\ L - (L - n + 1) + 1 = n
        BY <1>1, <1>2 DEF QueueInv
    <2>2. Told \in Seq(Proposals) /\ Len(Told) = n
        BY <1>1, <1>2, <1>3, <2>1
    <2>3. \A i \in 1 .. n : Told[i] = ages[(L - n + 1) + i - 1]
        BY <1>1, <1>2, <1>3, <2>1
    <2>4. \A i \in 1 .. n : (L - n + 1) + i - 1 = L - n + i
        BY <1>1, <1>2
    <2> QED BY <2>2, <2>3, <2>4
<1>5. \A i \in 1 .. L : i > L - n => ages[i] \in among
    <2> TAKE i \in 1 .. L
    <2>1. ASSUME i > L - n PROVE ages[i] \in among
        <3>1. i - (L - n) \in 1 .. n /\ L - n + (i - (L - n)) = i
            BY <1>1, <1>2, <2>1
        <3>2. Told[i - (L - n)] = ages[i]
            BY <1>4, <3>1
        <3> QED BY <1>4, <3>1, <3>2
    <2> QED BY <2>1
<1>6. \A i \in 1 .. L : ages[i] \in among => i > L - n
    <2> TAKE i \in 1 .. L
    <2>1. ASSUME ages[i] \in among PROVE i > L - n
        <3>1. PICK k \in 1 .. n : Told[k] = ages[i]
            BY <1>4, <2>1
        <3>2. L - n + k \in 1 .. L /\ ages[L - n + k] = ages[i]
            BY <1>1, <1>2, <1>4, <3>1
        <3>3. i = L - n + k
            BY <1>1, <3>2 DEF QueueInv
        <3> QED BY <1>1, <1>2, <3>1, <3>3
    <2> QED BY <2>1
<1>7. ASSUME ruling[ages[L]].comment <= ReviewRoom PROVE ages[L] \in among
    <2>1. L - 1 + 1 = L /\ 1 \in 1 .. L
        BY <1>1
    <2>2. Room[1] = ruling[ages[L]].comment
        <3>1. Room[1] = Room[1 - 1] + ruling[ages[L - 1 + 1]].comment
            BY <2>1, RoomGrows
        <3>2. Room[1 - 1] = 0
            BY RoomGrows
        <3>3. ruling[ages[L - 1 + 1]].comment \in Nat
            BY <2>1, CommentsAreNumbers
        <3> QED BY <2>1, <3>1, <3>2, <3>3
    <2>3. n # 0
        <3>1. CASE n = 0
            <4>1. Room[1] > ReviewRoom
                BY <1>1, <1>2, <3>1
            <4>2. Room[1] \in Nat
                BY <2>1, RoomGrows
            <4> QED BY <1>1, <1>7, <2>2, <4>1, <4>2
        <3> QED BY <3>1
    <2>4. L \in 1 .. L /\ L > L - n
        BY <1>1, <1>2, <2>3
    <2> QED BY <1>5, <2>4
<1> HIDE DEF among
<1>8. ASSUME NEW i \in 1 .. L, NEW j \in 1 .. L, ages[i] \in among, j > i
      PROVE  ages[j] \in among
    <2>1. i > L - n
        BY <1>6, <1>8
    <2>2. j > L - n
        BY <1>1, <1>2, <1>8, <2>1
    <2> QED BY <1>5, <2>2
<1> QED
    BY <1>1, <1>7, <1>8 DEF among

LEMMA QueueInitInv ==
    ASSUME ReviewsInit
    PROVE  QueueInv
<1>1. AuthorInv
    BY DEF ReviewsInit, AuthorInv, CallStands, RulingsHaveOneAuthor
<1> QED BY <1>1 DEF ReviewsInit, QueueInv

LEMMA QueueLasts == ReviewsSpec => []QueueInv
<1>1. ReviewsInit => QueueInv
    BY QueueInitInv
<1>2. QueueInv /\ [ReviewsNext]_reviewsVars => QueueInv'
    BY QueueSteps
<1> QED BY <1>1, <1>2, PTL DEF ReviewsSpec

\* A ruling is its author's, the prompt prepared next is told the last one
\* made if it fits at all, and none older than one it is not told.
THEOREM RulingsReachThePrompt == ReviewsSpec => []RulingsAreHeard
<1>1. QueueInv => RulingsAreHeard
    BY ReviewsAssumption, TheNewestAreTold DEF QueueInv, AuthorInv, RulingsAreHeard
<1> QED BY <1>1, QueueLasts, PTL

\* Rows exist for offered proposals only, each with one place by age.
THEOREM ReviewsKeepTheirTypes == ReviewsSpec => []ReviewsTypes
<1>1. QueueInv => ReviewsTypes
    <2> SUFFICES ASSUME QueueInv PROVE ReviewsTypes
        OBVIOUS
    <2> DEFINE S == {ages[i] : i \in DOMAIN ages}
    <2>1. S = {p \in Proposals : ruling[p] # NoRuling}
        BY DEF QueueInv
    <2>2. ages \in Bijection(1 .. Len(ages), S)
        BY DEF QueueInv, Bijection, Injection, IsInjective, Surjection
    <2>3. Cardinality(S) = Len(ages)
        <3>1. Len(ages) \in Nat
            BY DEF QueueInv
        <3> HIDE DEF S
        <3>2. ExistsBijection(1 .. Len(ages), S)
            BY <2>2 DEF ExistsBijection
        <3> QED BY <3>1, <3>2, FS_CountingElements
    <2> QED BY <2>1, <2>3 DEF ReviewsTypes, QueueInv, AuthorInv
<1> QED BY <1>1, QueueLasts, PTL

-----------------------------------------------------------------------------
(***************************************************************************)
(* The parts together.  They share no variable: a step of one leaves the   *)
(* others as they are, so that each runs by its own specification.  What   *)
(* is cut where nothing is indexed is any text, not one of Texts: of the   *)
(* archive it is the invariant that carries over.                          *)
(***************************************************************************)

LEMMA TurnsRunTheirParts ==
    TurnsSpec => Spec /\ WindowSpec /\ ReviewSpec /\ ReviewsSpec /\ GroundSpec
<1>1. TurnsInit => Init /\ WindowInit /\ ReviewInit /\ ReviewsInit /\ GroundInit
    BY DEF TurnsInit
<1>2. [TurnsNext]_<<part, vars, windowVars, reviewVars, archiveVars, reviewsVars, groundVars>> =>
            /\ [Next]_vars /\ [WindowNext]_windowVars /\ [ReviewNext]_reviewVars
            /\ [ReviewsNext]_reviewsVars /\ [GroundNext]_groundVars
    BY DEF TurnsNext
<1> QED
    BY <1>1, <1>2, PTL
    DEF TurnsSpec, Spec, WindowSpec, ReviewSpec, ReviewsSpec, GroundSpec

\* Texts of characters, and an index that is whole and of what is stored.
ArchiveStands ==
    /\ ArchiveInv /\ ArchiveTypes
    /\ text \in [ArchiveSources -> Seq(Characters)]

LEMMA CutTextsAreTexts == MCTexts \subseteq Seq(Characters)
<1>1. \A n \in 0 .. 7 : [1 .. n -> Characters] \subseteq Seq(Characters)
    BY DEF Seq
<1> QED BY <1>1 DEF MCTexts

LEMMA TurnsBeginArchived == TurnsInit => ArchiveStands
<1> SUFFICES ASSUME TurnsInit PROVE ArchiveStands
    OBVIOUS
<1>1. /\ stored \subseteq ArchiveSources
      /\ index = [s \in ArchiveSources |-> {}]
      /\ hand = [h \in Indexers |-> Unhanded]
    BY DEF TurnsInit
<1>2. ArchiveInv /\ ArchiveTypes
    BY <1>1
    DEF ArchiveInv, ArchiveTypes, IndexShaped, Shaped, HandStands, CutByOne, Inserting, Unhanded
<1>3. text \in [ArchiveSources -> Seq(Characters)]
    <2>1. CASE part = "cutting"
        <3>1. PICK t \in MCTexts : text = [s \in ArchiveSources |-> t]
            BY <2>1 DEF TurnsInit
        <3> QED BY <3>1, CutTextsAreTexts
    <2>2. CASE part # "cutting"
        BY <2>2, TextsAssumption DEF TurnsInit, TextsAssumption
    <2> QED BY <2>1, <2>2
<1> QED BY <1>2, <1>3 DEF ArchiveStands

LEMMA StoredStaysIndexed ==
    ArchiveInv /\ ArchiveTypes /\ [ArchiveNext]_archiveVars => ArchiveTypes' /\ UNCHANGED text
<1> SUFFICES ASSUME ArchiveInv, ArchiveTypes, [ArchiveNext]_archiveVars
             PROVE  ArchiveTypes' /\ UNCHANGED text
    OBVIOUS
<1>1. CASE UNCHANGED <<text, stored, index>>
    BY <1>1 DEF ArchiveTypes
<1>2. ASSUME NEW h \in Indexers, StoreSource(h) PROVE ArchiveTypes' /\ UNCHANGED text
    BY <1>2 DEF ArchiveTypes, StoreSource, ArchiveInv, IndexShaped
<1>3. ASSUME NEW h \in Indexers, EndBackfill(h) PROVE ArchiveTypes' /\ UNCHANGED text
    <2>1. ASSUME NEW s \in ArchiveSources, index'[s] # {} PROVE s \in stored
        <3>1. CASE Inserting(h, s)
            BY <3>1 DEF Inserting, ArchiveInv, HandStands
        <3>2. CASE ~ Inserting(h, s)
            BY <1>3, <2>1, <3>2 DEF EndBackfill, ArchiveTypes
        <3> QED BY <3>1, <3>2
    <2> QED BY <1>3, <2>1 DEF ArchiveTypes, EndBackfill
<1>4. ASSUME NEW f \in Uploads, DeleteSource(f) PROVE ArchiveTypes' /\ UNCHANGED text
    BY <1>4 DEF ArchiveTypes, DeleteSource, ArchiveInv, IndexShaped
<1> QED
    BY <1>1, <1>2, <1>3, <1>4
    DEF ArchiveNext, archiveVars, BeginStore, LookUpIndex, BeginBackfill, InsertExcerpts, Undo

LEMMA TurnsStayArchived == TurnsSpec => []ArchiveStands
<1>1. TurnsInit => ArchiveStands
    BY TurnsBeginArchived
<1>2. ArchiveStands /\ [ArchiveNext]_archiveVars => ArchiveStands'
    BY ArchiveSteps, StoredStaysIndexed DEF ArchiveStands
<1>3. [TurnsNext]_<<part, vars, windowVars, reviewVars, archiveVars, reviewsVars, groundVars>> =>
            [ArchiveNext]_archiveVars
    BY DEF TurnsNext
<1> QED BY <1>1, <1>2, <1>3, PTL DEF TurnsSpec

\* Every part of a turn keeps its types, whatever there is of requests, files,
\* profiles, answers, sources, proposals and records: only what is stored is
\* indexed, and rulings are on what was offered.
THEOREM TurnsKeepTheirTypes == TurnsSpec => []TurnsTypes
<1>1. ArchiveStands => ArchiveTypes
    BY DEF ArchiveStands
<1> QED
    BY <1>1, TurnsRunTheirParts, TurnsStayArchived, DialogueTypes, WindowsKeepTheirTypes,
       ReviewsOfAnswersKeepTheirTypes, ReviewsKeepTheirTypes, WindowsFitTheirProfiles, PTL
    DEF TurnsTypes

\* What each part of a turn promises holds of all of them together.
THEOREM TurnsKeepTheirPromises ==
    TurnsSpec =>
        /\ []TurnsAreNumbered /\ []HistoryIsABeginning /\ []TurnsAnalyseOneSnapshot
        /\ []SelectedFilesAreHonoured /\ []RepairIsConservative /\ []ConfidenceIsEarned
        /\ []IndexIsWhole /\ []ExcerptsLoseNothing /\ []RulingsAreHeard
        /\ []ConversationsKeepTheirGround
<1>1. ArchiveStands => IndexIsWhole /\ ExcerptsLoseNothing
    <2>1. ArchiveStands => IndexIsWhole
        BY DEF ArchiveStands, ArchiveInv, CutByOne, IndexIsWhole
    <2>2. ArchiveStands => ExcerptsLoseNothing
        <3>1. ArchiveStands => \A s \in ArchiveSources : text[s] \in Seq(Characters)
            BY DEF ArchiveStands
        <3> QED BY <3>1, ChunksAssumption, NoTextIsLost DEF ExcerptsLoseNothing
    <2> QED BY <2>1, <2>2
<1> QED
    BY <1>1, TurnsRunTheirParts, TurnsStayArchived, LockNumbersTurns, TurnsAreToldABeginning,
       TurnsAnalyseTheirSnapshot, SelectedFilesStay, RepairsAreConservative,
       ReturnedConfidenceIsEarned, RulingsReachThePrompt, TheConversationStays, PTL

=============================================================================
