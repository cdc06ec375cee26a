------------------------ MODULE MissionPortfolioProofs -----------------------
(***************************************************************************)
(* The unique key of the history is what makes edits atomic: with it, for  *)
(* any number of handlers, missions and fields, the history is complete    *)
(* and reading a document and writing it back edits the document in place. *)
(* The inductive invariant says what each handler holds: a revision that   *)
(* may be behind the row, and, if it is not, a document one edit away from *)
(* the row's.  A second one follows the walks up the tree: as long as      *)
(* nobody has placed a mission, what they saw is what there is.            *)
(***************************************************************************)
EXTENDS MissionPortfolioProperties, FiniteSetTheorems, WellFoundedInduction,
        TLAPS

\* A create that has no code yet.
Unnamed(c) ==
    /\ c.mission = NoMission
    /\ c.revision = 0
    /\ c.expected = 0
    /\ c.moves
    /\ c.document.text = BlankDocument.text

\* A first revision, about to be written.
First(c) ==
    /\ c.mission \in Missions
    /\ c.revision = 0
    /\ c.expected = 0
    /\ \E f \in Fields, v \in Values :
        c.document.text = [BlankDocument.text EXCEPT ![f] = v]
    /\ ~ c.moves => c.document.parent = NoMission

\* A later revision: one edit away from the row, unless the row moved on.
Later(c, row) ==
    /\ c.mission \in Missions
    /\ c.revision \in 1 .. row.revision
    /\ c.expected \in {0, c.revision}
    /\ c.revision = row.revision =>
        /\ \E f \in Fields, v \in Values :
            c.document.text = [row.document.text EXCEPT ![f] = v]
        /\ ~ c.moves => c.document.parent = row.document.parent

Holds(h) ==
    LET c   == ctx[h]
        row == mission[c.mission]
    IN  /\ pc[h] = "viewing" => c.mission \in Missions /\ c.expected > 0
        /\ pc[h] = "climbing" => c.next \in Missions /\ (Unnamed(c) \/ Later(c, row))
        /\ pc[h] = "measuring" => Later(c, row)
        /\ pc[h] = "naming" => Unnamed(c)
        /\ pc[h] = "writing" => First(c) \/ Later(c, row)

HandlersHoldTheirRead == \A h \in Handlers : Holds(h)

AbsentRowsAreBlank == \A m \in Missions : mission[m].revision = 0 => mission[m] = NoRow

Inv ==
    /\ TypeOK
    /\ HistoryMatchesMissions
    /\ AbsentRowsAreBlank
    /\ HandlersHoldTheirRead

-----------------------------------------------------------------------------

\* Documents stay documents under an edit of one field.
LEMMA EditedType ==
    ASSUME NEW d \in Document, NEW f \in Fields, NEW v \in Values
    PROVE  Edited(d, f, v) \in Document
BY DEF Edited, Document

\* The blank document, row and context have their types.
LEMMA BlankType ==
    BlankDocument \in Document /\ NoRow \in Row /\ NoContext \in Context
BY PortfolioAssumption
   DEF BlankDocument, NoRow, NoContext, Document, Row, Context, Link

\* The unique keys let only the holder of the present revision write.
LEMMA WriterIsCurrent ==
    ASSUME Inv, NEW h \in Handlers, Write(h)
    PROVE  /\ ctx[h].mission \in Missions
           /\ ctx[h].revision = mission[ctx[h].mission].revision
           /\ First(ctx[h]) \/ Later(ctx[h], mission[ctx[h].mission])
<1> DEFINE c == ctx[h]
<1>1. c.mission \in Missions /\ (First(c) \/ Later(c, mission[c.mission]))
  BY DEF Inv, HandlersHoldTheirRead, Holds, Write, Goto, First, Later
<1>2. mission[c.mission].revision \in Nat /\ c.revision \in Nat
  BY <1>1 DEF Inv, TypeOK, Row, Context
<1>3. CASE First(c)
  BY <1>1, <1>2, <1>3 DEF First, Write, KeyFree, Exists
<1>4. CASE Later(c, mission[c.mission])
  <2>1. SUFFICES ASSUME c.revision # mission[c.mission].revision
                 PROVE  FALSE
    BY <1>1
  <2>2. c.revision + 1 \in 1 .. mission[c.mission].revision
    BY <1>2, <1>4, <2>1 DEF Later
  <2>3. \E e \in history : e.mission = c.mission /\ e.revision = c.revision + 1
    BY <1>1, <2>2 DEF Inv, HistoryMatchesMissions
  <2> QED
    BY <2>3 DEF Write, KeyFree
<1> QED
  BY <1>1, <1>3, <1>4

\* What a writer leaves in the row and in the history.
LEMMA WriteEffect ==
    ASSUME Inv, NEW h \in Handlers, Write(h)
    PROVE  LET c == ctx[h]
               m == c.mission
               row == [revision |-> mission[m].revision + 1, parent |-> c.document.parent,
                       document |-> c.document]
           IN  /\ m \in Missions
               /\ c.document \in Document
               /\ mission' = [mission EXCEPT ![m] = row]
               /\ history' = history \cup {Entry(m, mission[m].revision + 1, c.document)}
               /\ pc' = [pc EXCEPT ![h] = "done"]
               /\ ctx' = ctx
<1> DEFINE c == ctx[h]
<1>1. /\ c.mission \in Missions
      /\ c.revision = mission[c.mission].revision
      /\ First(c) \/ Later(c, mission[c.mission])
  BY WriterIsCurrent
<1>2. c.document \in Document /\ mission[c.mission] \in Row
  BY <1>1 DEF Inv, TypeOK, Context
<1>3. Placed(h) = c.document.parent
  <2>1. CASE c.moves
    BY <2>1 DEF Placed
  <2>2. CASE ~ c.moves /\ First(c)
    <3>1. mission[c.mission] = NoRow
      BY <1>1, <2>2 DEF First, Inv, AbsentRowsAreBlank
    <3> QED
      BY <2>2, <3>1 DEF First, Placed, NoRow
  <2>3. CASE ~ c.moves /\ Later(c, mission[c.mission])
    BY <1>1, <2>3 DEF Later, Placed, Inv, HistoryMatchesMissions
  <2> QED
    BY <1>1, <2>1, <2>2, <2>3
<1> QED
  BY <1>1, <1>2, <1>3 DEF Write, Goto

\* A read changes neither the rows nor the history, and only one context.
LEMMA ReadFrame ==
    ASSUME NEW h \in Handlers, Read(h)
    PROVE  /\ UNCHANGED <<mission, history>>
           /\ \A g \in Handlers \ {h} : TypeOK => pc'[g] = pc[g] /\ ctx'[g] = ctx[g]
<1>1. CASE \E m \in Missions : View(h, m)
  BY <1>1 DEF View, Goto, TypeOK
<1>2. CASE \E p \in Link : ReadForCreate(h, p)
  BY <1>2 DEF ReadForCreate, Goto, TypeOK
<1>3. CASE \E f \in Fields, v \in Values, p \in Link : ReadForUpdate(h, f, v, p)
  BY <1>3 DEF ReadForUpdate, Goto, TypeOK
<1>4. CASE \E f \in Fields, v \in Values : ReadForLearning(h, f, v)
  BY <1>4 DEF ReadForLearning, Goto, TypeOK
<1>5. CASE \E f \in Fields, v \in Values, m \in Missions : ReadForAnalysis(h, m, f, v)
  BY <1>5 DEF ReadForAnalysis, Goto, TypeOK
<1>6. CASE Climb(h)
  BY <1>6 DEF Climb, Goto, TypeOK
<1>7. CASE Measure(h)
  BY <1>7 DEF Measure, Goto, TypeOK
<1>8. CASE \E f \in Fields, v \in Values, m \in Missions : Name(h, m, f, v)
  BY <1>8 DEF Name, Goto, TypeOK
<1> QED
  BY <1>1, <1>2, <1>3, <1>4, <1>5, <1>6, <1>7, <1>8 DEF Read

\* An error answer changes only where its handler is.
LEMMA StopFrame ==
    ASSUME NEW h \in Handlers, Stop(h)
    PROVE  /\ UNCHANGED <<mission, history, ctx>>
           /\ \E to \in {"refused", "failed"} : pc' = [pc EXCEPT ![h] = to]
BY DEF Stop, RefuseUnknownParent, RefuseStale, RefuseParent, RefuseHeight,
       RefuseCode, FailOnKey, Refuse, Goto

\* What a handler holds after its own read.
LEMMA ReadHolds ==
    ASSUME Inv, NEW h \in Handlers, Read(h)
    PROVE  /\ pc' \in [Handlers -> Stage]
           /\ ctx' \in [Handlers -> Context]
           /\ Holds(h)'
<1>0. /\ TypeOK /\ Holds(h) /\ HistoryMatchesMissions /\ AbsentRowsAreBlank
      /\ NoContext \in Context /\ BlankDocument \in Document
  BY BlankType DEF Inv, HandlersHoldTheirRead
<1>1. CASE \E m \in Missions : View(h, m)
  <2>1. PICK m \in Missions : View(h, m)
    BY <1>1
  <2> DEFINE n == [NoContext EXCEPT !.mission = m, !.expected = mission[m].revision]
  <2>2. mission[m].revision \in Nat /\ mission[m].revision > 0
    BY <1>0, <2>1 DEF TypeOK, Row, View, Exists
  <2>3. n \in Context /\ n.mission = m /\ n.expected > 0
    <3>1. n = [NoContext EXCEPT !.mission = m, !.expected = mission[m].revision]
      OBVIOUS
    <3>2. m \in Link /\ mission[m].revision \in Nat
      BY <2>2 DEF Link
    <3> HIDE DEF n
    <3>3. n \in Context /\ n.mission = m /\ n.expected = mission[m].revision
      BY <1>0, <3>1, <3>2 DEF Context
    <3> QED
      BY <2>2, <3>3
  <2>4. pc' = [pc EXCEPT ![h] = "viewing"] /\ ctx' = [ctx EXCEPT ![h] = n]
    BY <2>1 DEF View, Goto
  <2> HIDE DEF n
  <2>5. pc'[h] = "viewing" /\ ctx'[h] = n
    BY <1>0, <2>4 DEF TypeOK
  <2>6. Holds(h)'
    BY <2>3, <2>5 DEF Holds
  <2> QED
    BY <1>0, <2>3, <2>4, <2>6 DEF TypeOK, Stage
<1>2. CASE \E p \in Link : ReadForCreate(h, p)
  <2>1. PICK p \in Link : ReadForCreate(h, p)
    BY <1>2
  <2> DEFINE d == [BlankDocument EXCEPT !.parent = p]
             n == [NoContext EXCEPT !.document = d, !.moves = TRUE, !.next = p]
             to == IF p = NoMission THEN "naming" ELSE "climbing"
  <2>2. d \in Document /\ d.text = BlankDocument.text
    BY <1>0 DEF Document
  <2>3. n \in Context /\ n.document = d /\ n.next = p /\ Unnamed(n)
    BY <1>0, <2>2 DEF Context, NoContext, Unnamed
  <2>4. pc' = [pc EXCEPT ![h] = to] /\ ctx' = [ctx EXCEPT ![h] = n]
    BY <2>1 DEF ReadForCreate, Goto
  <2>5. pc'[h] = to /\ ctx'[h] = n
    BY <1>0, <2>4 DEF TypeOK
  <2>7. to = "climbing" => n.next \in Missions
    BY <2>3 DEF Link
  <2>8. Holds(h)'
    BY <2>3, <2>5, <2>7 DEF Holds
  <2>9. to \in Stage
    BY DEF Stage
  <2> HIDE DEF n, to
  <2> QED
    BY <1>0, <2>3, <2>4, <2>8, <2>9 DEF TypeOK
<1>3. CASE \E f \in Fields, v \in Values, p \in Link : ReadForUpdate(h, f, v, p)
  <2>1. PICK f \in Fields, v \in Values, p \in Link : ReadForUpdate(h, f, v, p)
    BY <1>3
  <2> DEFINE c == ctx[h]
             row == mission[c.mission]
             d == [Edited(row.document, f, v) EXCEPT !.parent = p]
             n == [c EXCEPT !.revision = row.revision, !.document = d, !.moves = TRUE,
                            !.next = p, !.seen = {c.mission}]
             to == IF p = NoMission THEN "writing" ELSE "climbing"
  <2>2. c \in Context /\ c.mission \in Missions /\ c.expected > 0
    BY <1>0, <2>1 DEF TypeOK, Holds, ReadForUpdate, Goto
  <2>3. row \in Row /\ c.expected = row.revision
    BY <1>0, <2>1, <2>2 DEF TypeOK, ReadForUpdate, Current
  <2>4. d \in Document /\ d.text = [row.document.text EXCEPT ![f] = v]
    BY <2>3, EditedType DEF Row, Document, Edited
  <2>5. n \in Context /\ n.mission = c.mission /\ n.revision = row.revision
          /\ n.document = d /\ n.moves /\ n.next = p /\ n.expected = row.revision
    BY <2>2, <2>3, <2>4 DEF Context, Row
  <2>6. pc' = [pc EXCEPT ![h] = to]
    BY <2>1 DEF ReadForUpdate, Goto
  <2>7. ctx' = [ctx EXCEPT ![h] = n] /\ mission' = mission
    BY <1>0, <2>1 DEF ReadForUpdate, TypeOK
  <2> HIDE DEF n
  <2>8. pc'[h] = to /\ ctx'[h] = n
    BY <1>0, <2>6, <2>7 DEF TypeOK
  <2>9. Later(n, row)
    <3>1. row.revision \in 1 .. row.revision
      BY <2>2, <2>3 DEF Row
    <3> QED
      BY <2>2, <2>4, <2>5, <3>1 DEF Later
  <2>10. to = "climbing" => n.next \in Missions
    BY <2>5 DEF Link
  <2>11. Holds(h)' /\ to \in Stage
    BY <2>5, <2>7, <2>8, <2>9, <2>10 DEF Holds, Stage
  <2> HIDE DEF to
  <2> QED
    BY <1>0, <2>5, <2>6, <2>7, <2>11 DEF TypeOK
<1>4. CASE \E f \in Fields, v \in Values : ReadForLearning(h, f, v)
  <2>1. PICK f \in Fields, v \in Values : ReadForLearning(h, f, v)
    BY <1>4
  <2> DEFINE c == ctx[h]
             row == mission[c.mission]
             d == Edited(row.document, f, v)
             n == [c EXCEPT !.revision = row.revision, !.document = d]
  <2>2. c \in Context /\ c.mission \in Missions /\ c.expected > 0
    BY <1>0, <2>1 DEF TypeOK, Holds, ReadForLearning, Goto
  <2>3. row \in Row /\ c.expected = row.revision
    BY <1>0, <2>1, <2>2 DEF TypeOK, ReadForLearning, Current
  <2>4. /\ d \in Document
        /\ d.text = [row.document.text EXCEPT ![f] = v]
        /\ d.parent = row.document.parent
    BY <2>3, EditedType DEF Row, Document, Edited
  <2>5. n \in Context /\ n.mission = c.mission /\ n.revision = row.revision
          /\ n.document = d /\ n.expected = row.revision
    BY <2>2, <2>3, <2>4 DEF Context, Row
  <2>6. pc' = [pc EXCEPT ![h] = "writing"]
    BY <2>1 DEF ReadForLearning, Goto
  <2>7. ctx' = [ctx EXCEPT ![h] = n] /\ mission' = mission
    BY <1>0, <2>1 DEF ReadForLearning, TypeOK
  <2> HIDE DEF n
  <2>8. pc'[h] = "writing" /\ ctx'[h] = n
    BY <1>0, <2>6, <2>7 DEF TypeOK
  <2>9. Later(n, row)
    <3>1. row.revision \in 1 .. row.revision
      BY <2>2, <2>3 DEF Row
    <3> QED
      BY <2>2, <2>4, <2>5, <3>1 DEF Later
  <2>10. Holds(h)'
    BY <2>5, <2>7, <2>8, <2>9 DEF Holds
  <2> QED
    BY <1>0, <2>5, <2>6, <2>7, <2>10 DEF TypeOK, Stage
<1>5. CASE \E f \in Fields, v \in Values, m \in Missions : ReadForAnalysis(h, m, f, v)
  <2>1. PICK f \in Fields, v \in Values, m \in Missions : ReadForAnalysis(h, m, f, v)
    BY <1>5
  <2> DEFINE row == mission[m]
             d == Edited(row.document, f, v)
             n == [NoContext EXCEPT !.mission = m, !.document = d, !.revision = row.revision]
             to == IF Exists(m) /\ d = row.document THEN "done" ELSE "writing"
  <2>2. row \in Row
    BY <1>0 DEF TypeOK
  <2>3. /\ d \in Document
        /\ d.text = [row.document.text EXCEPT ![f] = v]
        /\ d.parent = row.document.parent
    BY <2>2, EditedType DEF Row, Document, Edited
  <2>4. n \in Context /\ n.mission = m /\ n.revision = row.revision
          /\ n.document = d /\ n.expected = 0 /\ n.moves = FALSE
    BY <1>0, <2>2, <2>3 DEF Context, NoContext, Row, Link
  <2>5. pc' = [pc EXCEPT ![h] = to] /\ ctx' = [ctx EXCEPT ![h] = n] /\ mission' = mission
    BY <2>1 DEF ReadForAnalysis, Goto
  <2> HIDE DEF n
  <2>6. pc'[h] = to /\ ctx'[h] = n
    BY <1>0, <2>5 DEF TypeOK
  <2>7. First(n) \/ Later(n, row)
    <3>1. CASE row.revision = 0
      <4>1. row = NoRow
        BY <1>0, <3>1 DEF AbsentRowsAreBlank
      <4>2. row.document.text = BlankDocument.text /\ row.document.parent = NoMission
        BY <4>1 DEF NoRow, BlankDocument
      <4> QED
        BY <2>3, <2>4, <3>1, <4>2 DEF First
    <3>2. CASE row.revision # 0
      <4>1. row.revision \in 1 .. row.revision
        BY <2>2, <3>2 DEF Row
      <4> QED
        BY <2>3, <2>4, <4>1 DEF Later
    <3> QED
      BY <3>1, <3>2
  <2>8. Holds(h)' /\ to \in Stage
    BY <2>4, <2>5, <2>6, <2>7 DEF Holds, Stage
  <2> HIDE DEF to
  <2> QED
    BY <1>0, <2>4, <2>5, <2>8 DEF TypeOK
<1>6. CASE Climb(h)
  <2> DEFINE c == ctx[h]
             row == mission[c.mission]
             up == mission[c.next].parent
             n == [c EXCEPT !.next = up, !.depth = c.depth + 1,
                            !.seen = c.seen \cup {c.next}]
             to == IF up # NoMission THEN "climbing"
                   ELSE IF c.mission = NoMission THEN "naming" ELSE "measuring"
  <2>1. c \in Context /\ c.next \in Missions /\ (Unnamed(c) \/ Later(c, row))
    BY <1>0, <1>6 DEF TypeOK, Holds, Climb, Goto
  <2>2. up \in Link
    BY <1>0, <2>1 DEF TypeOK, Row
  <2>3. c.depth + 1 \in 0 .. MaxDepth - 1
    BY <1>6, <2>1, PortfolioAssumption DEF Climb, TooDeep, Context
  <2>4. /\ n \in Context /\ n.next = up
        /\ n.mission = c.mission /\ n.revision = c.revision /\ n.expected = c.expected
        /\ n.document = c.document /\ n.moves = c.moves
    BY <2>1, <2>2, <2>3 DEF Context
  <2>5. pc' = [pc EXCEPT ![h] = to] /\ mission' = mission
    BY <1>6 DEF Climb, Goto
  <2>6. ctx' = [ctx EXCEPT ![h] = n]
    BY <1>0, <1>6 DEF Climb, TypeOK
  <2> HIDE DEF n
  <2>7. pc'[h] = to /\ ctx'[h] = n
    BY <1>0, <2>5, <2>6 DEF TypeOK
  <2>8. Unnamed(c) => Unnamed(n)
    BY <2>4 DEF Unnamed
  <2>9. Later(c, row) => Later(n, row)
    BY <2>4 DEF Later
  <2>10. /\ to = "climbing" => n.next \in Missions
         /\ to = "naming" => ~ Later(c, row)
         /\ to = "measuring" => ~ Unnamed(c)
    BY <2>2, <2>4, PortfolioAssumption DEF Later, Unnamed, Link
  <2>11. to \in {"climbing", "naming", "measuring"}
    OBVIOUS
  <2> HIDE DEF to
  <2>12. Holds(h)'
    BY <2>1, <2>4, <2>5, <2>7, <2>8, <2>9, <2>10, <2>11 DEF Holds
  <2>13. to \in Stage
    BY <2>11 DEF Stage
  <2> QED
    BY <1>0, <2>4, <2>5, <2>6, <2>12, <2>13 DEF TypeOK
<1>7. CASE Measure(h)
  BY <1>0, <1>7 DEF Measure, Goto, TypeOK, Stage, Holds, Later
<1>8. CASE \E f \in Fields, v \in Values, m \in Missions : Name(h, m, f, v)
  <2>1. PICK f \in Fields, v \in Values, m \in Missions : Name(h, m, f, v)
    BY <1>8
  <2> DEFINE c == ctx[h]
             d == Edited(c.document, f, v)
             n == [c EXCEPT !.mission = m, !.document = d]
  <2>2. c \in Context /\ Unnamed(c)
    BY <1>0, <2>1 DEF TypeOK, Holds, Name, Goto
  <2>3. d \in Document /\ d.text = [BlankDocument.text EXCEPT ![f] = v]
    BY <2>2, EditedType DEF Context, Unnamed, Document, Edited
  <2>4. /\ n \in Context /\ n.mission = m /\ n.revision = 0 /\ n.expected = 0
        /\ n.document = d /\ n.moves
    BY <2>2, <2>3 DEF Context, Unnamed, Link
  <2>5. pc' = [pc EXCEPT ![h] = "writing"] /\ ctx' = [ctx EXCEPT ![h] = n]
    BY <1>0, <2>1 DEF Name, Goto, TypeOK
  <2> HIDE DEF n
  <2>6. pc'[h] = "writing" /\ ctx'[h] = n
    BY <1>0, <2>5 DEF TypeOK
  <2>7. First(n)
    BY <2>3, <2>4 DEF First
  <2>8. Holds(h)'
    BY <2>6, <2>7 DEF Holds
  <2> QED
    BY <1>0, <2>4, <2>5, <2>8 DEF TypeOK, Stage
<1> QED
  BY <1>1, <1>2, <1>3, <1>4, <1>5, <1>6, <1>7, <1>8 DEF Read

-----------------------------------------------------------------------------

\* A write leaves what the others hold as it was, or behind the row.
LEMMA WriteHolds ==
    ASSUME Inv, NEW h \in Handlers, Write(h), NEW g \in Handlers
    PROVE  Holds(g)'
<1> DEFINE c == ctx[g]
           m == ctx[h].mission
<1>1. /\ TypeOK /\ Holds(g)
      /\ m \in Missions /\ mission[m].revision \in Nat
      /\ mission' = [mission EXCEPT ![m] =
                        [revision |-> mission[m].revision + 1,
                         parent |-> ctx[h].document.parent, document |-> ctx[h].document]]
      /\ pc' = [pc EXCEPT ![h] = "done"]
      /\ ctx' = ctx
  BY WriteEffect DEF Inv, TypeOK, Row, HandlersHoldTheirRead
<1>2. CASE g = h
  <2>1. pc'[g] = "done"
    BY <1>1, <1>2 DEF TypeOK
  <2> QED
    BY <2>1 DEF Holds
<1>3. CASE g # h
  <2>1. pc'[g] = pc[g] /\ ctx'[g] = c
    BY <1>1, <1>3 DEF TypeOK
  <2>2. ASSUME Later(c, mission[c.mission])
        PROVE  Later(c, mission'[c.mission])
    <3>1. CASE c.mission # m
      <4>1. mission'[c.mission] = mission[c.mission]
        BY <1>1, <2>2, <3>1 DEF TypeOK, Later
      <4> QED
        BY <2>2, <4>1
    <3>2. CASE c.mission = m
      <4>1. mission'[c.mission].revision = mission[m].revision + 1
        BY <1>1, <3>2 DEF TypeOK
      <4>2. /\ c.mission \in Missions
            /\ c.revision \in 1 .. mission[m].revision
            /\ c.expected \in {0, c.revision}
        BY <2>2, <3>2 DEF Later
      <4>3. /\ c.revision \in 1 .. mission'[c.mission].revision
            /\ c.revision # mission'[c.mission].revision
        BY <1>1, <4>1, <4>2
      <4> QED
        BY <4>2, <4>3 DEF Later
    <3> QED
      BY <3>1, <3>2
  <2> QED
    BY <1>1, <2>1, <2>2 DEF Holds
<1> QED
  BY <1>2, <1>3

\* A write of the present revision keeps the history complete.
LEMMA WriteHistory ==
    ASSUME Inv, NEW h \in Handlers, Write(h)
    PROVE  HistoryMatchesMissions' /\ AbsentRowsAreBlank'
<1> DEFINE m == ctx[h].mission
           d == ctx[h].document
           n == mission[m].revision + 1
<1>1. /\ TypeOK /\ HistoryMatchesMissions /\ AbsentRowsAreBlank
      /\ m \in Missions /\ mission[m].revision \in Nat
      /\ mission' = [mission EXCEPT ![m] =
                        [revision |-> n, parent |-> d.parent, document |-> d]]
      /\ history' = history \cup {Entry(m, n, d)}
  BY WriteEffect DEF Inv, TypeOK, Row
<1>2. mission'[m] = [revision |-> n, parent |-> d.parent, document |-> d]
  BY <1>1 DEF TypeOK
<1>3. \A k \in Missions \ {m} : mission'[k] = mission[k]
  BY <1>1 DEF TypeOK
<1>4. \A e \in history :
        /\ e.mission \in Missions /\ e.revision \in Nat
        /\ mission[e.mission].revision \in Nat
        /\ e.revision \in 1 .. mission[e.mission].revision
  BY <1>1 DEF TypeOK, Row, HistoryMatchesMissions
<1>5. n \in Nat /\ n > 0 /\ n > mission[m].revision
  BY <1>1
<1> HIDE DEF n
<1>6. ASSUME NEW e \in history'
      PROVE  /\ e.revision \in 1 .. mission'[e.mission].revision
             /\ e.revision = mission'[e.mission].revision =>
                    e.document = mission'[e.mission].document
             /\ \A g \in history' :
                    g.mission = e.mission /\ g.revision = e.revision => g = e
  <2>1. CASE e = Entry(m, n, d)
    <3>1. e.mission = m /\ e.revision = n /\ e.document = d
      BY <2>1 DEF Entry
    <3>2. \A g \in history : g.mission = m => g.revision # n
      BY <1>1, <1>4, <1>5
    <3> QED
      BY <1>1, <1>2, <1>5, <2>1, <3>1, <3>2
  <2>2. CASE e \in history /\ e.mission # m
    <3>1. mission'[e.mission] = mission[e.mission]
      BY <1>3, <1>4, <2>2
    <3>2. Entry(m, n, d).mission = m
      BY DEF Entry
    <3> QED
      BY <1>1, <2>2, <3>1, <3>2 DEF HistoryMatchesMissions
  <2>3. CASE e \in history /\ e.mission = m
    <3>1. e.revision \in 1 .. n /\ e.revision # n
      BY <1>4, <1>5, <2>3
    <3>2. mission'[e.mission].revision = n /\ Entry(m, n, d).revision = n
      BY <1>2, <2>3 DEF Entry
    <3> QED
      BY <1>1, <2>3, <3>1, <3>2 DEF HistoryMatchesMissions
  <2> QED
    BY <1>1, <2>1, <2>2, <2>3
<1>7. ASSUME NEW k \in Missions
      PROVE  /\ \A i \in 1 .. mission'[k].revision :
                    \E e \in history' : e.mission = k /\ e.revision = i
             /\ mission'[k].parent = mission'[k].document.parent
             /\ mission'[k].revision = 0 => mission'[k] = NoRow
  <2>1. CASE k # m
    BY <1>1, <1>3, <2>1 DEF HistoryMatchesMissions, AbsentRowsAreBlank
  <2>2. CASE k = m
    <3>1. ASSUME NEW i \in 1 .. n
          PROVE  \E e \in history' : e.mission = k /\ e.revision = i
      <4>1. CASE i = n
        <5>1. Entry(m, n, d).mission = m /\ Entry(m, n, d).revision = n
          BY DEF Entry
        <5> QED
          BY <1>1, <2>2, <4>1, <5>1
      <4>2. CASE i # n
        <5>1. i \in 1 .. mission[m].revision
          BY <1>1, <4>2 DEF n
        <5> QED
          BY <1>1, <2>2, <5>1 DEF HistoryMatchesMissions
      <4> QED
        BY <4>1, <4>2
    <3> QED
      BY <1>2, <1>5, <2>2, <3>1
  <2> QED
    BY <2>1, <2>2
<1> QED
  BY <1>6, <1>7 DEF HistoryMatchesMissions, AbsentRowsAreBlank

-----------------------------------------------------------------------------

\* The rows the handlers find are in order.
LEMMA InvInit == Init => Inv
<1> SUFFICES ASSUME Init PROVE Inv
  OBVIOUS
<1>0. /\ BlankDocument \in Document /\ NoRow \in Row /\ NoContext \in Context
      /\ NoRow.revision = 0 /\ NoRow.parent = NoMission
      /\ NoRow.document.parent = NoMission
  BY BlankType DEF NoRow, BlankDocument
<1>1. PICK present \in SUBSET Missions, up \in [Missions -> Link] :
        mission = [m \in Missions |->
                    IF m \in present
                    THEN [revision |-> 1, parent |-> up[m],
                          document |-> [BlankDocument EXCEPT !.parent = up[m]]]
                    ELSE NoRow]
  <2>1. PICK present \in SUBSET Missions :
        \E up \in [Missions -> present \cup {NoMission}] :
        mission = [m \in Missions |->
                    IF m \in present
                    THEN [revision |-> 1, parent |-> up[m],
                          document |-> [BlankDocument EXCEPT !.parent = up[m]]]
                    ELSE NoRow]
    BY DEF Init
  <2>2. [Missions -> present \cup {NoMission}] \subseteq [Missions -> Link]
    BY DEF Link
  <2> QED
    BY <2>1, <2>2
<1> DEFINE d(m) == [BlankDocument EXCEPT !.parent = up[m]]
<1>2. ASSUME NEW m \in Missions
      PROVE  /\ up[m] \in Link
             /\ d(m) \in Document /\ d(m).parent = up[m]
             /\ m \in present =>
                    mission[m] = [revision |-> 1, parent |-> up[m], document |-> d(m)]
             /\ m \notin present => mission[m] = NoRow
  <2>1. up[m] \in Link
    BY <1>1 DEF Link
  <2>2. d(m) \in Document /\ d(m).parent = up[m]
    BY <1>0, <2>1 DEF Document
  <2> QED
    BY <1>1, <2>1, <2>2
<1> HIDE DEF d
<1>3. ASSUME NEW m \in Missions
      PROVE  /\ mission[m] \in Row
             /\ mission[m].parent = mission[m].document.parent
             /\ mission[m].revision \in {0, 1}
             /\ mission[m].revision = 0 => mission[m] = NoRow
  <2>1. CASE m \in present
    <3> DEFINE row == [revision |-> 1, parent |-> up[m], document |-> d(m)]
    <3>1. mission[m] = row
      BY <1>2, <2>1
    <3>2. row \in Row /\ row.revision = 1 /\ row.parent = row.document.parent
      BY <1>2 DEF Row
    <3> QED
      BY <3>1, <3>2
  <2>2. CASE m \notin present
    BY <1>0, <1>2, <2>2
  <2> QED
    BY <2>1, <2>2
<1>4. ASSUME NEW e \in history
      PROVE  /\ e \in [mission : Missions, revision : Nat, document : Document]
             /\ e.revision = 1 /\ mission[e.mission].revision = 1
             /\ e.document = mission[e.mission].document
             /\ e = Entry(e.mission, 1, mission[e.mission].document)
  <2>1. PICK m \in Missions : Exists(m) /\ e = Entry(m, 1, mission[m].document)
    BY DEF Init
  <2> QED
    BY <1>3, <2>1 DEF Exists, Entry, Row
<1>5. HistoryMatchesMissions
  <2>1. ASSUME NEW m \in Missions, NEW n \in 1 .. mission[m].revision
        PROVE  \E e \in history : e.mission = m /\ e.revision = n
    <3>1. mission[m].revision = 1 /\ n = 1
      BY <1>3, <2>1
    <3>2. Entry(m, 1, mission[m].document) \in history
      BY <3>1 DEF Init, Exists
    <3> QED
      BY <3>1, <3>2 DEF Entry
  <2> QED
    BY <1>3, <1>4, <2>1 DEF HistoryMatchesMissions
<1>6. mission \in [Missions -> Row]
  <2>1. mission = [m \in Missions |-> mission[m]]
    BY <1>1
  <2> QED
    BY <1>3, <2>1
<1>7. TypeOK
  BY <1>0, <1>4, <1>6 DEF TypeOK, Init, Stage
<1> QED
  BY <1>3, <1>5, <1>7
     DEF Inv, AbsentRowsAreBlank, HandlersHoldTheirRead, Holds, Init

\* No step of any handler breaks the invariant.
LEMMA InvStep == Inv /\ [Next]_vars => Inv'
<1> SUFFICES ASSUME Inv, [Next]_vars PROVE Inv'
  OBVIOUS
<1>0. /\ TypeOK /\ HistoryMatchesMissions /\ AbsentRowsAreBlank
      /\ \A g \in Handlers : Holds(g)
  BY DEF Inv, HandlersHoldTheirRead
<1>1. ASSUME NEW h \in Handlers, Read(h)
      PROVE  Inv'
  <2>1. /\ pc' \in [Handlers -> Stage] /\ ctx' \in [Handlers -> Context] /\ Holds(h)'
        /\ mission' = mission /\ history' = history
        /\ \A g \in Handlers \ {h} : pc'[g] = pc[g] /\ ctx'[g] = ctx[g]
    BY <1>0, <1>1, ReadHolds, ReadFrame
  <2>2. \A g \in Handlers \ {h} : Holds(g)'
    BY <1>0, <2>1 DEF Holds
  <2>3. HandlersHoldTheirRead'
    BY <2>1, <2>2 DEF HandlersHoldTheirRead
  <2> QED
    BY <1>0, <2>1, <2>3 DEF Inv, TypeOK, HistoryMatchesMissions, AbsentRowsAreBlank
<1>2. ASSUME NEW h \in Handlers, Stop(h)
      PROVE  Inv'
  <2>1. PICK to \in {"refused", "failed"} :
            /\ UNCHANGED <<mission, history, ctx>>
            /\ pc' = [pc EXCEPT ![h] = to]
    BY <1>2, StopFrame
  <2>2. pc' \in [Handlers -> Stage]
    BY <1>0, <2>1 DEF TypeOK, Stage
  <2>3. ASSUME NEW g \in Handlers
        PROVE  Holds(g)'
    <3>1. pc'[g] = pc[g] \/ pc'[g] = to
      BY <1>0, <2>1 DEF TypeOK
    <3> QED
      BY <1>0, <2>1, <3>1 DEF Holds
  <2> QED
    BY <1>0, <2>1, <2>2, <2>3
       DEF Inv, TypeOK, HistoryMatchesMissions, AbsentRowsAreBlank, HandlersHoldTheirRead
<1>3. ASSUME NEW h \in Handlers, Write(h)
      PROVE  Inv'
  <2> DEFINE m == ctx[h].mission
             d == ctx[h].document
             row == [revision |-> mission[m].revision + 1, parent |-> d.parent,
                     document |-> d]
  <2>1. /\ m \in Missions /\ d \in Document
        /\ mission' = [mission EXCEPT ![m] = row]
        /\ history' = history \cup {Entry(m, mission[m].revision + 1, d)}
        /\ pc' = [pc EXCEPT ![h] = "done"]
        /\ ctx' = ctx
    BY <1>3, WriteEffect
  <2>2. mission[m].revision + 1 \in Nat /\ d.parent \in Link
    BY <1>0, <2>1 DEF TypeOK, Row, Document
  <2>3. row \in Row
    BY <2>1, <2>2 DEF Row
  <2>4. Entry(m, mission[m].revision + 1, d) \in
            [mission : Missions, revision : Nat, document : Document]
    BY <2>1, <2>2 DEF Entry
  <2> HIDE DEF row, m, d
  <2>5. TypeOK'
    BY <1>0, <2>1, <2>3, <2>4 DEF TypeOK, Stage
  <2> QED
    BY <1>3, <2>5, WriteHolds, WriteHistory DEF Inv, HandlersHoldTheirRead
<1>4. CASE UNCHANGED vars
  BY <1>0, <1>4 DEF vars, Inv, TypeOK, HistoryMatchesMissions, AbsentRowsAreBlank,
                    HandlersHoldTheirRead, Holds
<1> QED
  BY <1>1, <1>2, <1>3, <1>4 DEF Next

\* The strengthened invariant holds in every reachable state.
THEOREM EditingInvariant == Spec => []Inv
  BY InvInit, InvStep, PTL DEF Spec

\* Every variable keeps its type, for any number of requests and missions.
THEOREM PortfolioTypes == Spec => []TypeOK
<1>1. Inv => TypeOK
  BY DEF Inv
<1> QED
  BY <1>1, EditingInvariant, PTL

\* The history of every mission is complete and ends at the row.
THEOREM HistoryIsComplete == Spec => []HistoryMatchesMissions
<1>1. Inv => HistoryMatchesMissions
  BY DEF Inv
<1> QED
  BY <1>1, EditingInvariant, PTL

-----------------------------------------------------------------------------

\* A step that takes a handler from writing to done is its own write.
LEMMA OnlyWritesAreDone ==
    ASSUME Inv, [Next]_vars, NEW h \in Handlers, pc[h] = "writing", pc'[h] = "done"
    PROVE  Write(h)
<1>0. TypeOK
  BY DEF Inv
<1>1. ASSUME NEW g \in Handlers, Read(g)
      PROVE  FALSE
  <2>1. pc[g] # "writing"
    BY <1>1 DEF Read, View, ReadForCreate, ReadForUpdate, ReadForLearning,
                ReadForAnalysis, Climb, Measure, Name, Goto
  <2>2. g # h => pc'[h] = pc[h]
    BY <1>0, <1>1, ReadFrame
  <2> QED
    BY <2>1, <2>2
<1>2. ASSUME NEW g \in Handlers, Stop(g)
      PROVE  FALSE
  <2>1. PICK to \in {"refused", "failed"} : pc' = [pc EXCEPT ![g] = to]
    BY <1>2, StopFrame
  <2>2. pc'[h] = pc[h] \/ pc'[h] = to
    BY <1>0, <2>1 DEF TypeOK
  <2> QED
    BY <2>2
<1>3. ASSUME NEW g \in Handlers, Write(g)
      PROVE  g = h
  BY <1>0, <1>3 DEF Write, Goto, TypeOK
<1>4. CASE UNCHANGED vars
  BY <1>4 DEF vars
<1> QED
  BY <1>1, <1>2, <1>3, <1>4 DEF Next

\* An edit under expected_revision replaces the revision its user was shown.
THEOREM EditsAreOptimistic == Spec => EditsReplaceWhatWasSeen
<1> DEFINE Seen ==
        \A h \in Handlers :
            pc[h] = "writing" /\ pc'[h] = "done" /\ ctx[h].expected > 0 =>
                mission[ctx[h].mission].revision = ctx[h].expected
<1>1. Inv /\ [Next]_vars => Seen
  <2>1. SUFFICES ASSUME Inv, [Next]_vars, NEW h \in Handlers,
                        pc[h] = "writing", pc'[h] = "done", ctx[h].expected > 0
                 PROVE  mission[ctx[h].mission].revision = ctx[h].expected
    OBVIOUS
  <2>2. Write(h)
    BY <2>1, OnlyWritesAreDone
  <2>3. /\ ctx[h].revision = mission[ctx[h].mission].revision
        /\ First(ctx[h]) \/ Later(ctx[h], mission[ctx[h].mission])
    BY <2>1, <2>2, WriterIsCurrent
  <2> QED
    BY <2>1, <2>3 DEF First, Later
<1> QED
  BY <1>1, EditingInvariant, PTL DEF Spec, EditsReplaceWhatWasSeen

\* A handler's write is one atomic edit of the mission it read.
LEMMA WriteEdits ==
    ASSUME Inv, NEW h \in Handlers, Write(h)
    PROVE  Editing!Next
<1> DEFINE c == ctx[h]
           m == c.mission
           d == c.document
           row == [revision |-> mission[m].revision + 1, parent |-> d.parent,
                   document |-> d]
<1>1. /\ m \in Missions /\ d \in Document
      /\ mission' = [mission EXCEPT ![m] = row]
      /\ mission \in [Missions -> Row]
  BY WriteEffect DEF Inv, TypeOK
<1>2. PICK f \in Fields, v \in Values :
        d.text = [mission[m].document.text EXCEPT ![f] = v]
  <2>1. /\ c.revision = mission[m].revision
        /\ First(c) \/ Later(c, mission[m])
    BY WriterIsCurrent
  <2>2. CASE First(c)
    <3>1. mission[m] = NoRow
      BY <1>1, <2>1, <2>2 DEF First, Inv, AbsentRowsAreBlank
    <3> QED
      BY <2>2, <3>1 DEF First, NoRow
  <2>3. CASE Later(c, mission[m])
    BY <2>1, <2>3 DEF Later
  <2> QED
    BY <2>1, <2>2, <2>3
<1>3. d = [text |-> [mission[m].document.text EXCEPT ![f] = v], parent |-> d.parent]
        /\ d.parent \in Link
  BY <1>1, <1>2 DEF Document
<1>4. [k \in Missions |-> mission[k].revision]' =
        [[k \in Missions |-> mission[k].revision] EXCEPT ![m] = @ + 1]
  BY <1>1
<1>5. [k \in Missions |-> mission[k].document]' =
        [[k \in Missions |-> mission[k].document] EXCEPT ![m] = d]
  BY <1>1
<1>6. [k \in Missions |-> mission[k].document][m] = mission[m].document
  BY <1>1
<1> HIDE DEF d
<1> HIDE DEF m
<1>7. PICK k \in Missions, p \in Link : k = m /\ p = d.parent
  BY <1>1, <1>3
<1>8. Editing!Edit(k, f, v, p)
  BY <1>3, <1>4, <1>5, <1>6, <1>7 DEF Editing!Edit
<1> QED
  BY <1>7, <1>8 DEF Editing!Next

\* Reading and writing back, any number of queries apart, implements editing
\* in place: no edit of any handler is lost.
THEOREM NoEditIsLost == Spec => EditingSpec
<1>1. Inv /\ Init => Editing!Init
  <2> SUFFICES ASSUME Inv, Init PROVE Editing!Init
    OBVIOUS
  <2>1. ASSUME NEW m \in Missions
        PROVE  /\ mission[m] \in Row
               /\ mission[m].revision \in {0, 1}
               /\ mission[m].revision = 0 => mission[m].document = BlankDocument
    <3>1. mission[m] \in Row /\ (mission[m].revision = 0 => mission[m] = NoRow)
      BY DEF Inv, TypeOK, AbsentRowsAreBlank
    <3>2. mission[m].revision \in {0, 1}
      <4>1. CASE mission[m].revision = 0
        BY <4>1
      <4>2. CASE mission[m].revision # 0
        <5>1. mission[m].revision \in Nat
          BY <3>1 DEF Row
        <5>2. \E e \in history : e.mission = m /\ e.revision = mission[m].revision
          BY <4>2, <5>1 DEF Inv, HistoryMatchesMissions
        <5> QED
          BY <5>2 DEF Init, Entry
      <4> QED
        BY <4>1, <4>2
    <3> QED
      BY <3>1, <3>2 DEF NoRow
  <2> QED
    BY <2>1 DEF Editing!Init, Row, Document
<1>2. Inv /\ [Next]_vars => [Editing!Next]_(Editing!vars)
  <2> SUFFICES ASSUME Inv, [Next]_vars
               PROVE  Editing!Next \/ UNCHANGED Editing!vars
    OBVIOUS
  <2>1. CASE mission' = mission
    BY <2>1 DEF Editing!vars
  <2>2. ASSUME NEW h \in Handlers, Read(h) \/ Stop(h)
        PROVE  mission' = mission
    BY <2>2, ReadFrame, StopFrame
  <2>3. UNCHANGED vars => mission' = mission
    BY DEF vars
  <2> QED
    BY <2>1, <2>2, <2>3, WriteEdits DEF Next
<1> QED
  BY <1>1, <1>2, InvInit, EditingInvariant, PTL DEF Spec, EditingSpec, Editing!Spec

-----------------------------------------------------------------------------
(***************************************************************************)
(* The tree.  A chain follows the parents from a mission upwards; two      *)
(* chains from one mission are one chain as far as both go.  What Above    *)
(* computes is where chains lead, and DescendantHeight bounds the chains   *)
(* that lead to a mission for the first time.                              *)
(***************************************************************************)

Parents == [m \in Missions |-> mission[m].parent]

Chain(up, s, k) ==
    /\ s \in [0 .. k -> Missions]
    /\ \A i \in 0 .. k - 1 : up[s[i]] = s[i + 1]

Leads(up, d, k, m) ==
    \E s \in [0 .. k -> Missions] : Chain(up, s, k) /\ s[0] = d /\ s[k] = m

\* A chain that meets m at its end and nowhere before.
Ends(up, s, k, m) ==
    Chain(up, s, k) /\ s[k] = m /\ \A i \in 0 .. k - 1 : s[i] # m

Shallow(up) == \A s \in [0 .. MaxDepth -> Missions] : ~ Chain(up, s, MaxDepth)

\* A set of natural numbers has a least one.
LEMMA LeastNumber ==
    ASSUME NEW T, T \subseteq Nat, T # {}
    PROVE  \E n \in T : \A m \in T : n <= m
<1> DEFINE R == OpToRel(<, Nat)
<1>1. IsWellFoundedOn(R, Nat)
  BY NatLessThanWellFounded
<1>2. ASSUME NEW x \in Nat, NEW y \in Nat PROVE <<x, y>> \in R <=> x < y
  BY DEF OpToRel
<1>3. \E x \in T : \A y \in T : ~ (<<y, x>> \in R)
  <2> HIDE DEF R
  <2> QED
    BY <1>1, WFMin
<1> HIDE DEF R
<1>4. PICK x \in T : \A y \in T : ~ (<<y, x>> \in R)
  BY <1>3
<1>5. ASSUME NEW y \in T PROVE x <= y
  <2>1. x \in Nat /\ y \in Nat
    OBVIOUS
  <2>2. ~ (y < x)
    BY <1>2, <1>4, <2>1
  <2> QED
    BY <2>1, <2>2
<1> QED
  BY <1>5

LEMMA SameChain ==
    ASSUME NEW up, NEW j \in Nat, NEW k \in Nat, j <= k, NEW s, NEW t,
           Chain(up, s, j), Chain(up, t, k), s[0] = t[0]
    PROVE  \A i \in 0 .. j : s[i] = t[i]
<1> DEFINE T == {i \in 0 .. j : s[i] # t[i]}
<1>1. SUFFICES ASSUME T # {} PROVE FALSE
  OBVIOUS
<1>2. PICK n \in T : \A i \in T : n <= i
  <2>1. T \subseteq Nat
    OBVIOUS
  <2> HIDE DEF T
  <2> QED
    BY <1>1, <2>1, LeastNumber
<1>3. n \in 1 .. j
  OBVIOUS
<1>4. n - 1 \in 0 .. j - 1 /\ n - 1 \in 0 .. k - 1 /\ (n - 1) + 1 = n
  BY <1>3
<1>5. s[n - 1] = t[n - 1]
  <2>1. ~ (n <= n - 1) /\ n - 1 \in 0 .. j
    BY <1>3
  <2> QED
    BY <1>2, <2>1
<1>6. s[n] = up[s[n - 1]] /\ t[n] = up[t[n - 1]]
  BY <1>4 DEF Chain
<1> QED
  BY <1>5, <1>6

LEMMA ChainParts ==
    ASSUME NEW up, NEW k \in Nat, NEW s, Chain(up, s, k), NEW a \in 0 .. k
    PROVE  /\ Chain(up, [i \in 0 .. a |-> s[i]], a)
           /\ Chain(up, [i \in 0 .. k - a |-> s[a + i]], k - a)
<1> DEFINE head == [i \in 0 .. a |-> s[i]]
           tail == [i \in 0 .. k - a |-> s[a + i]]
<1>1. head \in [0 .. a -> Missions] /\ tail \in [0 .. k - a -> Missions]
  BY DEF Chain
<1>2. ASSUME NEW i \in 0 .. a - 1 PROVE up[head[i]] = head[i + 1]
  BY DEF Chain
<1>3. ASSUME NEW i \in 0 .. (k - a) - 1 PROVE up[tail[i]] = tail[i + 1]
  <2>1. a + i \in 0 .. k - 1 /\ i \in 0 .. k - a /\ i + 1 \in 0 .. k - a
        /\ a + (i + 1) = (a + i) + 1
    OBVIOUS
  <2>2. up[s[a + i]] = s[(a + i) + 1]
    BY <2>1 DEF Chain
  <2> QED
    BY <2>1, <2>2
<1> QED
  BY <1>1, <1>2, <1>3 DEF Chain

\* A chain that meets m has a first meeting.
LEMMA FirstMeeting ==
    ASSUME NEW up, NEW k \in Nat, NEW s, Chain(up, s, k), NEW m,
           NEW i \in 0 .. k, s[i] = m
    PROVE  \E j \in 0 .. i : s[j] = m /\ \A l \in 0 .. j - 1 : s[l] # m
<1> DEFINE T == {j \in 0 .. i : s[j] = m}
<1>1. PICK j \in T : \A l \in T : j <= l
  <2>1. T \subseteq Nat /\ i \in T
    OBVIOUS
  <2> HIDE DEF T
  <2> QED
    BY <2>1, LeastNumber
<1>2. ASSUME NEW l \in 0 .. j - 1 PROVE s[l] # m
  <2>1. l \in 0 .. i /\ ~ (j <= l)
    OBVIOUS
  <2> QED
    BY <1>1, <2>1
<1> QED
  BY <1>1, <1>2

\* No mission is twice on a chain that ends where it meets m.
LEMMA EndingIsShort ==
    ASSUME NEW up, NEW j \in Nat, NEW s, NEW m, Ends(up, s, j, m)
    PROVE  j < Cardinality(Missions)
<1>0. Chain(up, s, j) /\ s[j] = m /\ \A i \in 0 .. j - 1 : s[i] # m
  BY DEF Ends
<1>1. ASSUME NEW a \in 0 .. j, NEW b \in 0 .. j, a < b, s[a] = s[b]
      PROVE  FALSE
  <2> DEFINE one == [i \in 0 .. j - a |-> s[a + i]]
             two == [i \in 0 .. j - b |-> s[b + i]]
  <2>1. Chain(up, one, j - a) /\ Chain(up, two, j - b)
    BY <1>0, ChainParts
  <2>2. one[0] = s[a] /\ two[0] = s[b] /\ one[j - b] = s[a + (j - b)] /\ two[j - b] = s[j]
    BY <1>1
  <2>3. j - a \in Nat /\ j - b \in Nat /\ j - b <= j - a /\ j - b \in 0 .. j - b
    BY <1>1
  <2> HIDE DEF one, two
  <2>4. two[j - b] = one[j - b]
    BY <1>1, <2>1, <2>2, <2>3, SameChain
  <2>5. a + (j - b) \in 0 .. j - 1
    BY <1>1
  <2> QED
    BY <1>0, <2>2, <2>4, <2>5
<1>2. s \in [0 .. j -> Missions] /\ \A a, b \in 0 .. j : s[a] = s[b] => a = b
  <2>1. ASSUME NEW a \in 0 .. j, NEW b \in 0 .. j, s[a] = s[b] PROVE a = b
    BY <1>1, <2>1
  <2> QED
    BY <1>0, <2>1 DEF Chain
<1>3. s \in Injection(0 .. j, Missions)
  BY <1>2 DEF Injection, IsInjective
<1>4. Cardinality(0 .. j) <= Cardinality(Missions) /\ Cardinality(Missions) \in Nat
  BY <1>3, PortfolioAssumption, FS_Injection, FS_CardinalityType
<1>5. Cardinality(0 .. j) = j + 1
  <2>1. 0 \in Int /\ j \in Int /\ ~ (0 > j)
    OBVIOUS
  <2>2. Cardinality(0 .. j) = IF 0 > j THEN 0 ELSE j - 0 + 1
    BY <2>1, FS_Interval
  <2> QED
    BY <2>1, <2>2
<1> QED
  BY <1>4, <1>5

\* A chain of k goes as far as a chain of k - 1 and its end's parent.
LEMMA LeadsUpwards ==
    ASSUME NEW d \in Missions, NEW k \in Nat, NEW p \in Missions
    PROVE  Leads(Parents, d, k, p) <=>
              IF k = 0 THEN p = d
              ELSE \E c \in Missions :
                      Leads(Parents, d, k - 1, c) /\ mission[c].parent = p
<1>1. CASE k = 0
  <2>1. ASSUME Leads(Parents, d, k, p) PROVE p = d
    BY <1>1, <2>1 DEF Leads
  <2>2. ASSUME p = d PROVE Leads(Parents, d, k, p)
    <3> DEFINE s == [i \in 0 .. k |-> d]
    <3>1. s \in [0 .. k -> Missions] /\ Chain(Parents, s, k) /\ s[0] = d /\ s[k] = p
      BY <1>1, <2>2 DEF Chain
    <3> QED
      BY <3>1 DEF Leads
  <2> QED
    BY <1>1, <2>1, <2>2
<1>2. CASE k # 0
  <2>0. k - 1 \in Nat /\ k \in 0 .. k /\ k - 1 \in 0 .. k /\ 0 \in 0 .. k - 1
        /\ k - 1 \in 0 .. k - 1 /\ (k - 1) + 1 = k
    BY <1>2
  <2>1. ASSUME Leads(Parents, d, k, p)
        PROVE  \E c \in Missions : Leads(Parents, d, k - 1, c) /\ mission[c].parent = p
    <3>1. PICK s \in [0 .. k -> Missions] :
              Chain(Parents, s, k) /\ s[0] = d /\ s[k] = p
      BY <2>1 DEF Leads
    <3> DEFINE t == [i \in 0 .. k - 1 |-> s[i]]
               c == s[k - 1]
    <3>2. Chain(Parents, t, k - 1) /\ t[0] = d /\ t[k - 1] = c
      BY <2>0, <3>1, ChainParts
    <3>3. c \in Missions /\ Parents[c] = p
      <4>1. Parents[s[k - 1]] = s[(k - 1) + 1]
        BY <2>0, <3>1 DEF Chain
      <4> QED
        BY <2>0, <3>1, <4>1
    <3> HIDE DEF t
    <3>4. Leads(Parents, d, k - 1, c)
      BY <3>2 DEF Leads, Chain
    <3> QED
      BY <3>3, <3>4 DEF Parents
  <2>2. ASSUME NEW c \in Missions, Leads(Parents, d, k - 1, c), mission[c].parent = p
        PROVE  Leads(Parents, d, k, p)
    <3>1. PICK s \in [0 .. k - 1 -> Missions] :
              Chain(Parents, s, k - 1) /\ s[0] = d /\ s[k - 1] = c
      BY <2>2 DEF Leads
    <3> DEFINE t == [i \in 0 .. k |-> IF i = k THEN p ELSE s[i]]
    <3>2. t \in [0 .. k -> Missions] /\ t[0] = d /\ t[k] = p
      BY <2>0, <3>1
    <3>3. ASSUME NEW i \in 0 .. k - 1 PROVE Parents[t[i]] = t[i + 1]
      <4>1. CASE i = k - 1
        <5>1. t[i] = c /\ t[i + 1] = p
          BY <2>0, <3>1, <4>1
        <5> QED
          BY <2>2, <5>1 DEF Parents
      <4>2. CASE i # k - 1
        <5>1. i \in 0 .. (k - 1) - 1 /\ i + 1 \in 0 .. k - 1 /\ i # k /\ i + 1 # k
          BY <4>2
        <5>2. t[i] = s[i] /\ t[i + 1] = s[i + 1]
          BY <5>1
        <5> QED
          BY <3>1, <5>1, <5>2 DEF Chain
      <4> QED
        BY <4>1, <4>2
    <3> HIDE DEF t
    <3> QED
      BY <3>2, <3>3 DEF Leads, Chain
  <2> QED
    BY <1>2, <2>1, <2>2
<1> QED
  BY <1>1, <1>2

\* What one level of Above makes of the level before it.
Level(F) ==
    [k \in Nat |-> [m \in Missions |->
        IF k = 0 THEN {m}
        ELSE { p \in Missions : \E c \in F[k - 1][m] : mission[c].parent = p }]]

\* The definition of Above has a solution: where the chains lead.
LEMMA AboveUnfolds == Above = Level(Above)
<1> DEFINE F == [k \in Nat |-> [m \in Missions |->
                    { p \in Missions : Leads(Parents, m, k, p) }]]
<1>1. ASSUME NEW k \in Nat, NEW m \in Missions PROVE F[k][m] = Level(F)[k][m]
  <2>1. F[k][m] = { p \in Missions : Leads(Parents, m, k, p) }
    OBVIOUS
  <2>2. Level(F)[k][m] = IF k = 0 THEN {m}
            ELSE { p \in Missions : \E c \in F[k - 1][m] : mission[c].parent = p }
    BY DEF Level
  <2>3. CASE k = 0
    BY <2>1, <2>2, <2>3, LeadsUpwards
  <2>4. CASE k # 0
    <3>1. F[k - 1][m] = { p \in Missions : Leads(Parents, m, k - 1, p) }
      BY <2>4
    <3> HIDE DEF F
    <3> QED
      BY <2>1, <2>2, <2>4, <3>1, LeadsUpwards
  <2> QED
    BY <2>3, <2>4
<1>2. F = Level(F)
  <2>1. /\ F = [k \in Nat |-> F[k]] /\ \A k \in Nat : F[k] = [m \in Missions |-> F[k][m]]
        /\ Level(F) = [k \in Nat |-> Level(F)[k]]
        /\ \A k \in Nat : Level(F)[k] = [m \in Missions |-> Level(F)[k][m]]
    BY DEF Level
  <2> HIDE DEF F
  <2> QED
    BY <1>1, <2>1
<1>3. Above = CHOOSE G : G = Level(G)
  BY DEF Above, Level
<1> HIDE DEF F
<1> QED
  BY <1>2, <1>3

LEMMA AboveIs ==
    ASSUME NEW k \in Nat, NEW m \in Missions
    PROVE  Above[k][m] = { p \in Missions : Leads(Parents, m, k, p) }
<1> DEFINE Reached(d, i) == { p \in Missions : Leads(Parents, d, i, p) }
           T == {i \in Nat : \E d \in Missions : Above[i][d] # Reached(d, i)}
<1>1. SUFFICES ASSUME T # {} PROVE FALSE
  OBVIOUS
<1>2. PICK n \in T : \A i \in T : n <= i
  <2>1. T \subseteq Nat
    OBVIOUS
  <2> HIDE DEF T
  <2> QED
    BY <1>1, <2>1, LeastNumber
<1>3. PICK d \in Missions : Above[n][d] # Reached(d, n)
  OBVIOUS
<1>4. Above[n][d] = IF n = 0 THEN {d}
            ELSE { p \in Missions : \E c \in Above[n - 1][d] : mission[c].parent = p }
  <2>1. Above[n][d] = Level(Above)[n][d]
    BY AboveUnfolds
  <2> QED
    BY <2>1 DEF Level
<1>5. CASE n = 0
  BY <1>3, <1>4, <1>5, LeadsUpwards
<1>6. CASE n # 0
  <2>1. n - 1 \in Nat /\ ~ (n <= n - 1)
    BY <1>6
  <2>2. n - 1 \notin T
    <3> HIDE DEF T
    <3> QED
      BY <1>2, <2>1
  <2>3. Above[n - 1][d] = Reached(d, n - 1)
    BY <2>1, <2>2
  <2> QED
    BY <1>3, <1>4, <1>6, <2>3, LeadsUpwards
<1> QED
  BY <1>5, <1>6

\* The tree is sound when no chain is as long as the tree may be deep.
LEMMA SoundIsShallow == TreeIsSound <=> Shallow(Parents)
<1>0. MaxDepth \in Nat
  BY PortfolioAssumption
<1>1. ASSUME TreeIsSound, NEW s \in [0 .. MaxDepth -> Missions], Chain(Parents, s, MaxDepth)
      PROVE  FALSE
  <2>1. s[0] \in Missions /\ s[MaxDepth] \in Missions
    BY <1>0
  <2>2. Leads(Parents, s[0], MaxDepth, s[MaxDepth])
    BY <1>1 DEF Leads
  <2> QED
    BY <1>0, <1>1, <2>1, <2>2, AboveIs DEF TreeIsSound
<1>2. ASSUME Shallow(Parents), NEW m \in Missions PROVE Above[MaxDepth][m] = {}
  BY <1>0, <1>2, AboveIs DEF Leads, Shallow
<1> QED
  BY <1>1, <1>2 DEF TreeIsSound, Shallow

\* The height of m bounds every chain that ends at m.
LEMMA HeightBounds ==
    ASSUME NEW m \in Missions
    PROVE  /\ DescendantHeight(m) \in Nat
           /\ \A j \in Nat : \A s \in [0 .. j -> Missions] :
                 Ends(Parents, s, j, m) => j <= DescendantHeight(m)
<1> DEFINE most == Cardinality(Missions)
           Levels(d) == LevelsBelow(m, d)
           T == {i \in 0 .. most :
                    \A d \in Missions : Levels(d) = {} \/ \E j \in Levels(d) : j <= i}
<1>0. most \in Nat
  BY PortfolioAssumption, FS_CardinalityType
<1>1. ASSUME NEW d \in Missions, NEW j \in Nat
      PROVE  j \in Levels(d) <=> j <= most /\ Leads(Parents, d, j, m)
  BY <1>0, AboveIs DEF LevelsBelow
<1>2. \A d \in Missions : Levels(d) \subseteq 0 .. most
  BY DEF LevelsBelow
<1> HIDE DEF most
<1>3. PICK k \in T : \A i \in T : k <= i
  <2>1. most \in T
    <3>1. \A d \in Missions : \A j \in Levels(d) : j <= most
      BY <1>0, <1>2
    <3> HIDE DEF Levels
    <3> QED
      BY <1>0, <3>1
  <2>2. T \subseteq Nat
    BY <1>0
  <2> HIDE DEF T
  <2> QED
    BY <2>1, <2>2, LeastNumber
<1>4. \E d \in Missions : k \in Levels(d) /\ \A j \in Levels(d) : k <= j
  <2> SUFFICES ASSUME \A d \in Missions : k \notin Levels(d) \/ \E j \in Levels(d) : ~ (k <= j)
               PROVE  FALSE
    OBVIOUS
  <2>1. 0 \in Levels(m)
    <3>1. Leads(Parents, m, 0, m)
      BY LeadsUpwards
    <3> QED
      BY <1>0, <1>1, <3>1
  <2>2. CASE k = 0
    <3>1. \A j \in Levels(m) : 0 <= j
      BY <1>0, <1>2
    <3> HIDE DEF Levels
    <3> QED
      BY <2>1, <2>2, <3>1
  <2>3. CASE k # 0
    <3>1. k - 1 \in 0 .. most /\ k \in 0 .. most /\ ~ (k <= k - 1)
      BY <1>0, <2>3
    <3>2. ASSUME NEW d \in Missions, Levels(d) # {}
          PROVE  \E j \in Levels(d) : j <= k - 1
      <4>1. PICK j \in Levels(d) : j <= k
        BY <3>2
      <4>2. \A i \in Levels(d) : i \in Nat
        BY <1>0, <1>2
      <4> HIDE DEF Levels, T
      <4>3. CASE j = k
        BY <4>1, <4>2, <4>3, <3>1
      <4>4. CASE j # k
        BY <4>1, <4>2, <4>4, <3>1
      <4> QED
        BY <4>3, <4>4
    <3>3. k - 1 \in T
      <4> HIDE DEF Levels
      <4> QED
        BY <3>1, <3>2
    <3> HIDE DEF T
    <3> QED
      BY <1>3, <3>1, <3>3
  <2> QED
    BY <2>2, <2>3
<1> DEFINE H == DescendantHeight(m)
<1>5. /\ H \in 0 .. most
      /\ \A d \in Missions : Levels(d) = {} \/ \E j \in Levels(d) : j <= H
  <2>1. k \in 0 .. most
        /\ \A d \in Missions : Levels(d) = {} \/ \E j \in Levels(d) : j <= k
    OBVIOUS
  <2> QED
    BY <1>4, <2>1 DEF DescendantHeight, most
<1> HIDE DEF H
<1>6. ASSUME NEW j \in Nat, NEW s \in [0 .. j -> Missions], Ends(Parents, s, j, m)
      PROVE  j <= H
  <2>1. Chain(Parents, s, j) /\ s[j] = m /\ \A i \in 0 .. j - 1 : s[i] # m
    BY <1>6 DEF Ends
  <2>2. j < most
    BY <1>6, EndingIsShort DEF most
  <2>3. s[0] \in Missions /\ Leads(Parents, s[0], j, m)
    BY <2>1 DEF Leads
  <2>4. j \in Levels(s[0])
    BY <1>0, <1>1, <2>2, <2>3
  <2>5. PICK i \in Levels(s[0]) : i <= H
    <3> HIDE DEF Levels
    <3> QED
      BY <1>5, <2>3, <2>4
  <2>6. i \in Nat /\ Leads(Parents, s[0], i, m)
    <3>1. i \in 0 .. most
      BY <1>2, <2>3
    <3> QED
      BY <1>0, <1>1, <2>3, <2>5, <3>1
  <2>7. PICK t \in [0 .. i -> Missions] : Chain(Parents, t, i) /\ t[0] = s[0] /\ t[i] = m
    BY <2>6 DEF Leads
  <2>8. SUFFICES ASSUME i < j PROVE FALSE
    BY <1>0, <1>5, <2>5, <2>6
  <2>9. t[i] = s[i]
    BY <2>1, <2>6, <2>7, <2>8, SameChain
  <2> QED
    BY <2>1, <2>6, <2>7, <2>8, <2>9
<1> QED
  BY <1>0, <1>5, <1>6 DEF H

-----------------------------------------------------------------------------
(***************************************************************************)
(* One placement.  While nobody has placed a mission the parents are what  *)
(* they were, so what a walk has seen stays true until its handler writes: *)
(* the chain above the new parent does not pass the mission that moves,    *)
(* and with it no chain that ends at the mission gets too long.            *)
(***************************************************************************)

\* A chain from p to the top past n missions, none of them m.
Tops(up, m, p, n) ==
    \E t \in [0 .. n -> Missions] :
        /\ Chain(up, t, n) /\ t[0] = p /\ up[t[n]] = NoMission
        /\ \A i \in 0 .. n : t[i] # m

FitsUnder(up, m, p) ==
    \E n \in 0 .. MaxDepth :
        /\ Tops(up, m, p, n)
        /\ \A j \in Nat : \A s \in [0 .. j -> Missions] :
              Ends(up, s, j, m) => j + n + 1 < MaxDepth

\* The walk so far: from the new parent to the next, past other missions.
ClimbStands(h) ==
    LET c == ctx[h]
    IN  /\ c.mission # NoMission => c.mission \in c.seen
        /\ \E t \in [0 .. c.depth -> Missions] :
              /\ Chain(Parents, t, c.depth)
              /\ t[0] = c.document.parent /\ t[c.depth] = c.next
              /\ \A i \in 0 .. c.depth - 1 : t[i] # c.mission

WalkStands(h) ==
    LET c == ctx[h]
        p == c.document.parent
    IN  /\ pc[h] = "climbing" => ClimbStands(h)
        /\ pc[h] \in {"measuring", "naming"} /\ p \in Missions =>
              c.depth > 0 /\ Tops(Parents, c.mission, p, c.depth - 1)
        /\ pc[h] = "writing" /\ c.moves /\ p \in Missions =>
              FitsUnder(Parents, c.mission, p)

ParentsExist == \A m \in Missions : mission[m].parent \in Missions => Exists(mission[m].parent)

\* The parent a handler found, and what a form holds before it is sent.
PlaceStands(h) ==
    LET c == ctx[h]
    IN  /\ pc[h] \in {"climbing", "measuring", "naming", "writing"}
             /\ c.moves /\ c.document.parent \in Missions => Exists(c.document.parent)
        /\ pc[h] \in {"climbing", "measuring", "naming"} => c.moves
        /\ pc[h] = "viewing" => ~ c.moves /\ c.depth = 0

TreeInv ==
    /\ ParentsExist
    /\ \A h \in Handlers : PlaceStands(h)
    /\ IsFiniteSet(Placers)
    /\ Placers = {} => \A h \in Handlers : WalkStands(h)
    /\ Cardinality(Placers) <= 1 => Shallow(Parents)

LEMMA PlacedTreeIsShallow ==
    ASSUME NEW up \in [Missions -> Link], Shallow(up), NEW m \in Missions, NEW p \in Link,
           p \in Missions => FitsUnder(up, m, p)
    PROVE  Shallow([up EXCEPT ![m] = p])
<1> DEFINE new == [up EXCEPT ![m] = p]
           D == MaxDepth
<1>0. D \in Nat /\ D > 0 /\ NoMission \notin Missions
  BY PortfolioAssumption
<1>1. new[m] = p /\ \A x \in Missions : x # m => new[x] = up[x]
  OBVIOUS
<1> HIDE DEF new
<1>2. ASSUME NEW s \in [0 .. D -> Missions], Chain(new, s, D)
      PROVE  FALSE
  <2>1. PICK i \in 0 .. D - 1 : s[i] = m
    <3> SUFFICES ASSUME \A i \in 0 .. D - 1 : s[i] # m PROVE FALSE
      OBVIOUS
    <3>1. \A i \in 0 .. D - 1 : up[s[i]] = s[i + 1]
      <4> SUFFICES ASSUME NEW i \in 0 .. D - 1 PROVE up[s[i]] = s[i + 1]
        OBVIOUS
      <4>1. i \in 0 .. D /\ s[i] \in Missions /\ s[i] # m
        BY <1>0
      <4> QED
        BY <1>1, <1>2, <4>1 DEF Chain
    <3> QED
      BY <3>1 DEF Shallow, Chain
  <2>2. PICK j \in 0 .. i : s[j] = m /\ \A l \in 0 .. j - 1 : s[l] # m
    <3>1. i \in 0 .. D
      BY <1>0
    <3> QED
      BY <1>0, <1>2, <2>1, <3>1, FirstMeeting
  <2>3. j \in 0 .. D - 1 /\ j + 1 \in 0 .. D /\ j \in 0 .. D
    BY <1>0
  <2> DEFINE below == [l \in 0 .. j |-> s[l]]
  <2>4. below \in [0 .. j -> Missions] /\ Ends(up, below, j, m)
    <3>1. below \in [0 .. j -> Missions]
      BY <1>0, <2>3
    <3>2. ASSUME NEW l \in 0 .. j - 1 PROVE up[below[l]] = below[l + 1] /\ below[l] # m
      <4>1. l \in 0 .. D - 1 /\ l \in 0 .. j /\ l + 1 \in 0 .. j /\ l \in 0 .. D
        BY <1>0, <2>3
      <4>2. s[l] \in Missions /\ s[l] # m /\ new[s[l]] = s[l + 1]
        BY <1>2, <2>2, <4>1 DEF Chain
      <4> QED
        BY <1>1, <4>1, <4>2
    <3>3. below[j] = m
      BY <2>2
    <3> HIDE DEF below
    <3> QED
      BY <3>1, <3>2, <3>3 DEF Ends, Chain
  <2>5. s[j + 1] = p /\ p \in Missions
    <3>1. new[s[j]] = s[j + 1]
      BY <1>2, <2>3 DEF Chain
    <3> QED
      BY <1>1, <2>2, <2>3, <3>1
  <2>6. PICK n \in 0 .. D :
            /\ Tops(up, m, p, n)
            /\ \A k \in Nat : \A t \in [0 .. k -> Missions] :
                  Ends(up, t, k, m) => k + n + 1 < D
    BY <2>5 DEF FitsUnder
  <2>7. j + n + 1 < D /\ j \in Nat /\ n \in Nat
    <3> HIDE DEF below
    <3> QED
      BY <2>3, <2>4, <2>6
  <2>8. PICK t \in [0 .. n -> Missions] :
            /\ Chain(up, t, n) /\ t[0] = p /\ up[t[n]] = NoMission
            /\ \A l \in 0 .. n : t[l] # m
    BY <2>6 DEF Tops
  <2> DEFINE k == D - (j + 1)
             above == [l \in 0 .. k |-> s[(j + 1) + l]]
  <2>9. Chain(new, above, k) /\ above[0] = p /\ k \in Nat /\ n + 1 \in 0 .. k
        /\ n \in 0 .. k - 1
    <3>1. Chain(new, above, k)
      BY <1>0, <1>2, <2>3, ChainParts
    <3>2. k \in Nat /\ n + 1 \in 0 .. k /\ n \in 0 .. k - 1
      BY <1>0, <2>3, <2>7
    <3>3. above[0] = p
      <4>1. 0 \in 0 .. k /\ (j + 1) + 0 = j + 1
        BY <2>3, <3>2
      <4> HIDE DEF k
      <4> QED
        BY <2>5, <4>1
    <3> HIDE DEF above, k
    <3> QED
      BY <3>1, <3>2, <3>3
  <2> HIDE DEF above, k
  <2>10. Chain(new, t, n)
    <3> SUFFICES ASSUME NEW l \in 0 .. n - 1 PROVE new[t[l]] = t[l + 1]
      BY DEF Chain
    <3>1. l \in 0 .. n /\ t[l] \in Missions
      BY <2>7
    <3> QED
      BY <1>1, <2>8, <3>1 DEF Chain
  <2>11. above[n] = t[n]
    <3>1. n <= k
      BY <2>7, <2>9
    <3> QED
      BY <2>7, <2>8, <2>9, <2>10, <3>1, SameChain
  <2>12. new[t[n]] = NoMission
    <3>1. n \in 0 .. n
      BY <2>7
    <3> QED
      BY <1>1, <2>8, <3>1
  <2>13. new[above[n]] = above[n + 1] /\ above[n + 1] \in Missions
    BY <2>9 DEF Chain
  <2> QED
    BY <1>0, <2>11, <2>12, <2>13
<1> QED
  BY <1>2 DEF Shallow, new

\* Whatever a chain of parents meets above a mission with a row has a row.
LEMMA ChainsExist ==
    ASSUME ParentsExist, NEW k \in Nat, NEW s, Chain(Parents, s, k), Exists(s[0])
    PROVE  \A i \in 0 .. k : Exists(s[i])
<1> DEFINE T == {i \in 0 .. k : ~ Exists(s[i])}
<1>1. SUFFICES ASSUME T # {} PROVE FALSE
  OBVIOUS
<1>2. PICK n \in T : \A i \in T : n <= i
  <2>1. T \subseteq Nat
    OBVIOUS
  <2> HIDE DEF T
  <2> QED
    BY <1>1, <2>1, LeastNumber
<1>3. n \in 1 .. k
  OBVIOUS
<1>4. n - 1 \in 0 .. k - 1 /\ (n - 1) + 1 = n /\ n - 1 \in 0 .. k
  BY <1>3
<1>5. Parents[s[n - 1]] = s[n] /\ s[n - 1] \in Missions /\ s[n] \in Missions
  BY <1>3, <1>4 DEF Chain
<1>6. mission[s[n - 1]].parent = s[n]
  BY <1>5 DEF Parents
<1> QED
  BY <1>5, <1>6 DEF ParentsExist

LEMMA TreeInit == Init => TreeInv
<1> SUFFICES ASSUME Init PROVE TreeInv
  OBVIOUS
<1>1. ParentsExist
  <2>1. PICK present \in SUBSET Missions :
          \E parent \in { up \in [Missions -> present \cup {NoMission}] :
                             \A m \in Missions \ present : up[m] = NoMission } :
            mission = [m \in Missions |->
                IF m \in present
                THEN [revision |-> 1, parent |-> parent[m],
                      document |-> [BlankDocument EXCEPT !.parent = parent[m]]]
                ELSE NoRow]
    BY DEF Init
  <2>2. PICK parent \in [Missions -> present \cup {NoMission}] :
            mission = [m \in Missions |->
                IF m \in present
                THEN [revision |-> 1, parent |-> parent[m],
                      document |-> [BlankDocument EXCEPT !.parent = parent[m]]]
                ELSE NoRow]
    BY <2>1
  <2>3. \A m \in present : mission[m].parent = parent[m] /\ mission[m].revision = 1
    BY <2>2
  <2>4. \A m \in Missions \ present : mission[m].parent = NoMission
    BY <2>2 DEF NoRow
  <2> QED
    BY <2>2, <2>3, <2>4, PortfolioAssumption DEF ParentsExist, Exists
<1>2. Placers = {}
  BY DEF Init, Placers
<1>3. Shallow(Parents)
  BY SoundIsShallow DEF Init
<1>4. ASSUME NEW h \in Handlers PROVE PlaceStands(h) /\ WalkStands(h)
  <2>1. pc[h] = "idle"
    BY DEF Init
  <2> QED
    BY <2>1 DEF PlaceStands, WalkStands
<1> QED
  BY <1>1, <1>2, <1>3, <1>4, FS_EmptySet DEF TreeInv

\* A read or an error answer places nothing and moves no parent.
LEMMA ReadPlacesNothing ==
    ASSUME Inv, NEW h \in Handlers, Read(h) \/ Stop(h)
    PROVE  /\ mission' = mission /\ Parents' = Parents /\ Placers' = Placers
           /\ \A g \in Handlers \ {h} : pc'[g] = pc[g] /\ ctx'[g] = ctx[g]
<1>1. TypeOK
  BY DEF Inv
<1>2. /\ mission' = mission
      /\ \A g \in Handlers \ {h} : pc'[g] = pc[g] /\ ctx'[g] = ctx[g]
  <2>1. CASE Read(h)
    BY <1>1, <2>1, ReadFrame
  <2>2. CASE Stop(h)
    BY <1>1, <2>2, StopFrame DEF TypeOK
  <2> QED
    BY <2>1, <2>2
<1>3. pc[h] # "done"
  BY DEF Read, View, ReadForCreate, ReadForUpdate, ReadForLearning, ReadForAnalysis, Climb,
         Measure, Name, Stop, RefuseUnknownParent, RefuseStale, RefuseParent, RefuseHeight,
         RefuseCode, FailOnKey, Refuse, Goto
<1>4. ~ (pc'[h] = "done" /\ ctx'[h].moves)
  <2>1. CASE Stop(h)
    BY <1>1, <2>1, StopFrame DEF TypeOK
  <2>2. CASE \E f \in Fields, v \in Values, m \in Missions : ReadForAnalysis(h, m, f, v)
    <3>1. PICK f \in Fields, v \in Values, m \in Missions : ReadForAnalysis(h, m, f, v)
      BY <2>2
    <3>2. ctx' = [ctx EXCEPT ![h] = [NoContext EXCEPT !.mission = m,
                     !.document = Edited(mission[m].document, f, v),
                     !.revision = mission[m].revision]]
      BY <3>1 DEF ReadForAnalysis
    <3>3. ctx'[h].moves = FALSE
      BY <1>1, <3>2 DEF TypeOK, NoContext
    <3> QED
      BY <3>3
  <2>3. CASE Read(h) /\ ~ \E f \in Fields, v \in Values, m \in Missions :
                                ReadForAnalysis(h, m, f, v)
    <3>1. pc'[h] # "done"
      BY <1>1, <2>3 DEF Read, View, ReadForCreate, ReadForUpdate, ReadForLearning, Climb,
                        Measure, Name, Goto, TypeOK
    <3> QED
      BY <3>1
  <2> QED
    BY <2>1, <2>2, <2>3
<1>5. Placers' = Placers
  BY <1>2, <1>3, <1>4 DEF Placers
<1> QED
  BY <1>2, <1>5 DEF Parents

\* What the handlers that do not move have walked, when no parent moves.
LEMMA OthersWalk ==
    ASSUME NEW g \in Handlers, mission' = mission, pc'[g] = pc[g], ctx'[g] = ctx[g]
    PROVE  /\ PlaceStands(g) => PlaceStands(g)'
           /\ WalkStands(g) => WalkStands(g)'
<1>1. Parents' = Parents
  BY DEF Parents
<1> QED
  BY <1>1 DEF PlaceStands, WalkStands, ClimbStands, Exists

LEMMA StopWalks ==
    ASSUME Inv, NEW h \in Handlers, Stop(h)
    PROVE  PlaceStands(h)' /\ WalkStands(h)'
<1>1. pc'[h] \in {"refused", "failed"}
  BY StopFrame DEF Inv, TypeOK
<1> QED
  BY <1>1 DEF PlaceStands, WalkStands

LEMMA ClimbWalks ==
    ASSUME Inv, TreeInv, NEW h \in Handlers, Climb(h)
    PROVE  PlaceStands(h)' /\ (Placers = {} => WalkStands(h)')
<1> DEFINE c  == ctx[h]
           up == mission[c.next].parent
           n  == [c EXCEPT !.next = up, !.depth = c.depth + 1, !.seen = c.seen \cup {c.next}]
           to == IF up # NoMission THEN "climbing"
                 ELSE IF c.mission = NoMission THEN "naming" ELSE "measuring"
<1>1. /\ pc[h] = "climbing" /\ pc'[h] = to /\ ctx'[h] = n /\ mission' = mission
      /\ ~ (c.next \in c.seen) /\ ~ (c.depth + 1 >= MaxDepth)
  BY DEF Climb, Goto, ClosesCycle, TooDeep, Inv, TypeOK
<1>2. c \in Context /\ c.next \in Missions
  BY <1>1 DEF Inv, TypeOK, HandlersHoldTheirRead, Holds
<1>3. /\ n.mission = c.mission /\ n.document = c.document /\ n.moves = c.moves
      /\ n.next = up /\ n.depth = c.depth + 1 /\ n.seen = c.seen \cup {c.next}
  BY <1>2 DEF Context
<1>4. to \in {"climbing", "measuring", "naming"} /\ (to = "climbing" <=> up # NoMission)
  OBVIOUS
<1>a. up \in Link /\ Parents[c.next] = up
  BY <1>2 DEF Inv, TypeOK, Row, Parents
<1>b. c.depth \in 0 .. MaxDepth - 1 /\ MaxDepth \in Nat
  BY <1>2, PortfolioAssumption DEF Context
<1> HIDE DEF n, to, up
<1>5. PlaceStands(h)'
  <2>1. PlaceStands(h)
    BY DEF TreeInv
  <2> QED
    BY <1>1, <1>3, <1>4, <2>1 DEF PlaceStands, Exists
<1>6. ASSUME Placers = {} PROVE WalkStands(h)'
  <2>0. Parents' = Parents
    BY <1>1 DEF Parents
  <2>1. c.mission # NoMission => c.mission \in c.seen
    BY <1>1, <1>6 DEF TreeInv, WalkStands, ClimbStands
  <2>2. PICK t \in [0 .. c.depth -> Missions] :
            /\ Chain(Parents, t, c.depth)
            /\ t[0] = c.document.parent /\ t[c.depth] = c.next
            /\ \A i \in 0 .. c.depth - 1 : t[i] # c.mission
    BY <1>1, <1>6 DEF TreeInv, WalkStands, ClimbStands
  <2>3. \A i \in 0 .. c.depth : t[i] # c.mission
    <3>1. c.next # c.mission
      BY <1>1, <1>2, <2>1, PortfolioAssumption
    <3> QED
      BY <1>b, <2>2, <3>1
  <2>4. CASE up # NoMission
    <3>0. up \in Missions
      BY <1>a, <2>4 DEF Link
    <3> DEFINE u == [i \in 0 .. c.depth + 1 |-> IF i = c.depth + 1 THEN up ELSE t[i]]
    <3>1. u \in [0 .. c.depth + 1 -> Missions] /\ u[0] = c.document.parent
          /\ u[c.depth + 1] = up
      BY <1>b, <2>2, <3>0
    <3>2. ASSUME NEW i \in 0 .. (c.depth + 1) - 1
          PROVE  Parents[u[i]] = u[i + 1] /\ u[i] # c.mission
      <4>1. u[i] = t[i] /\ t[i] # c.mission
        BY <1>b, <2>3
      <4>2. CASE i = c.depth
        <5>1. u[i + 1] = up
          BY <1>b, <4>2
        <5> QED
          BY <1>a, <2>2, <4>1, <4>2, <5>1
      <4>3. CASE i # c.depth
        <5>1. i \in 0 .. c.depth - 1 /\ u[i + 1] = t[i + 1]
          BY <1>b, <4>3
        <5> QED
          BY <2>2, <4>1, <5>1 DEF Chain
      <4> QED
        BY <4>2, <4>3
    <3> HIDE DEF u
    <3>3. ClimbStands(h)'
      <4>1. Chain(Parents, u, c.depth + 1)
        BY <3>1, <3>2 DEF Chain
      <4>2. n.mission # NoMission => n.mission \in n.seen
        BY <1>3, <2>1
      <4>3. /\ u \in [0 .. n.depth -> Missions] /\ Chain(Parents, u, n.depth)
            /\ u[0] = n.document.parent /\ u[n.depth] = n.next
            /\ \A i \in 0 .. n.depth - 1 : u[i] # n.mission
        BY <1>3, <3>1, <3>2, <4>1
      <4> QED
        BY <1>1, <2>0, <4>2, <4>3 DEF ClimbStands
    <3> QED
      BY <1>1, <1>4, <2>4, <3>3 DEF WalkStands
  <2>5. CASE up = NoMission
    <3>1. (c.depth + 1) - 1 = c.depth /\ c.depth + 1 > 0
      BY <1>b
    <3>2. Tops(Parents, c.mission, c.document.parent, c.depth)
      BY <1>a, <2>2, <2>3, <2>5 DEF Tops
    <3> QED
      BY <1>1, <1>3, <1>4, <2>0, <2>5, <3>1, <3>2 DEF WalkStands
  <2> QED
    BY <2>4, <2>5
<1> QED
  BY <1>5, <1>6

LEMMA MeasureWalks ==
    ASSUME Inv, TreeInv, NEW h \in Handlers, Measure(h)
    PROVE  PlaceStands(h)' /\ (Placers = {} => WalkStands(h)')
<1> DEFINE c == ctx[h]
           p == c.document.parent
<1>1. /\ pc[h] = "measuring" /\ pc'[h] = "writing" /\ ctx' = ctx /\ mission' = mission
      /\ c.depth + DescendantHeight(c.mission) < MaxDepth
  BY DEF Measure, Goto, Fits, Inv, TypeOK
<1>2. c \in Context /\ c.mission \in Missions /\ c.depth \in 0 .. MaxDepth - 1
  BY <1>1 DEF Inv, TypeOK, HandlersHoldTheirRead, Holds, Later, Context
<1>3. PlaceStands(h)'
  BY <1>1 DEF TreeInv, PlaceStands, Exists
<1>4. ASSUME Placers = {}, p \in Missions PROVE FitsUnder(Parents, c.mission, p)
  <2>1. c.depth > 0 /\ Tops(Parents, c.mission, p, c.depth - 1)
    BY <1>1, <1>4 DEF TreeInv, WalkStands
  <2>2. MaxDepth \in Nat /\ c.depth - 1 \in 0 .. MaxDepth
    BY <1>2, <2>1, PortfolioAssumption
  <2>3. ASSUME NEW j \in Nat, NEW s \in [0 .. j -> Missions], Ends(Parents, s, j, c.mission)
        PROVE  j + (c.depth - 1) + 1 < MaxDepth
    <3>1. j <= DescendantHeight(c.mission) /\ DescendantHeight(c.mission) \in Nat
      BY <1>2, <2>3, HeightBounds
    <3> QED
      BY <1>1, <1>2, <2>2, <3>1
  <2> QED
    BY <2>1, <2>2, <2>3 DEF FitsUnder
<1>5. ASSUME Placers = {} PROVE WalkStands(h)'
  <2>1. Parents' = Parents
    BY <1>1 DEF Parents
  <2> QED
    BY <1>1, <1>4, <1>5, <2>1 DEF WalkStands
<1> QED
  BY <1>3, <1>5

LEMMA NameWalks ==
    ASSUME Inv, TreeInv, NEW h \in Handlers,
           \E f \in Fields, v \in Values, m \in Missions : Name(h, m, f, v)
    PROVE  PlaceStands(h)' /\ (Placers = {} => WalkStands(h)')
<1> PICK f \in Fields, v \in Values, m \in Missions : Name(h, m, f, v)
  OBVIOUS
<1> DEFINE c == ctx[h]
           n == [c EXCEPT !.mission = m, !.document = Edited(c.document, f, v)]
           p == c.document.parent
<1>1. /\ pc[h] = "naming" /\ pc'[h] = "writing" /\ mission' = mission /\ ~ Exists(m)
  BY DEF Name, Goto, Inv, TypeOK
<1>2. ctx'[h] = n
  BY DEF Name, Inv, TypeOK
<1>3. c \in Context /\ c.depth \in 0 .. MaxDepth - 1
  BY DEF Inv, TypeOK, Context
<1>4. n.mission = m /\ n.moves = c.moves /\ n.document.parent = p
  BY <1>3 DEF Context, Document, Edited
<1> HIDE DEF n
<1>5. PlaceStands(h) /\ c.moves
  BY <1>1 DEF TreeInv, PlaceStands
<1>6. PlaceStands(h)'
  BY <1>1, <1>2, <1>4, <1>5 DEF PlaceStands, Exists
<1>7. ASSUME Placers = {}, p \in Missions PROVE FitsUnder(Parents, m, p)
  <2>1. c.depth > 0 /\ Tops(Parents, c.mission, p, c.depth - 1)
    BY <1>1, <1>7 DEF TreeInv, WalkStands
  <2>2. MaxDepth \in Nat /\ c.depth - 1 \in 0 .. MaxDepth /\ c.depth - 1 \in Nat
    BY <1>3, <2>1, PortfolioAssumption
  <2>3. PICK t \in [0 .. c.depth - 1 -> Missions] :
            Chain(Parents, t, c.depth - 1) /\ t[0] = p /\ Parents[t[c.depth - 1]] = NoMission
    BY <2>1 DEF Tops
  <2>4. Exists(p)
    BY <1>1, <1>5, <1>7 DEF PlaceStands
  <2>5. \A i \in 0 .. c.depth - 1 : t[i] # m
    BY <1>1, <2>2, <2>3, <2>4, ChainsExist DEF TreeInv
  <2>6. Tops(Parents, m, p, c.depth - 1)
    BY <2>3, <2>5 DEF Tops
  <2>7. ASSUME NEW j \in Nat, NEW s \in [0 .. j -> Missions], Ends(Parents, s, j, m)
        PROVE  j + (c.depth - 1) + 1 < MaxDepth
    <3>1. CASE j = 0
      BY <1>3, <2>2, <3>1
    <3>2. CASE j # 0
      <4>1. j - 1 \in 0 .. j - 1 /\ (j - 1) + 1 = j /\ j - 1 \in 0 .. j
        BY <3>2
      <4>2. Parents[s[j - 1]] = m /\ s[j - 1] \in Missions
        BY <2>7, <4>1 DEF Ends, Chain
      <4> QED
        BY <1>1, <4>2 DEF TreeInv, ParentsExist, Parents
    <3> QED
      BY <3>1, <3>2
  <2> QED
    BY <2>2, <2>6, <2>7 DEF FitsUnder
<1>8. ASSUME Placers = {} PROVE WalkStands(h)'
  <2>1. Parents' = Parents
    BY <1>1 DEF Parents
  <2> QED
    BY <1>1, <1>2, <1>4, <1>7, <1>8, <2>1 DEF WalkStands
<1> QED
  BY <1>6, <1>8

LEMMA OpeningWalks ==
    ASSUME Inv, TreeInv, NEW h \in Handlers,
           \/ \E m \in Missions : View(h, m)
           \/ \E f \in Fields, v \in Values : ReadForLearning(h, f, v)
           \/ \E f \in Fields, v \in Values, m \in Missions : ReadForAnalysis(h, m, f, v)
    PROVE  PlaceStands(h)' /\ WalkStands(h)'
<1>1. CASE \E m \in Missions : View(h, m)
  <2>1. PICK m \in Missions : View(h, m)
    BY <1>1
  <2>2. pc'[h] = "viewing"
    BY <2>1 DEF View, Goto, Inv, TypeOK
  <2>3. ctx'[h] = [NoContext EXCEPT !.mission = m, !.expected = mission[m].revision]
    BY <2>1 DEF View, Inv, TypeOK
  <2>4. ctx'[h].moves = FALSE /\ ctx'[h].depth = 0
    BY <2>3 DEF NoContext
  <2> QED
    BY <2>2, <2>4 DEF PlaceStands, WalkStands
<1>2. CASE \E f \in Fields, v \in Values : ReadForLearning(h, f, v)
  <2>1. PICK f \in Fields, v \in Values : ReadForLearning(h, f, v)
    BY <1>2
  <2>2. pc'[h] = "writing" /\ pc[h] = "viewing"
    BY <2>1 DEF ReadForLearning, Goto, Inv, TypeOK
  <2>3. ctx'[h].moves = ctx[h].moves
    <3>1. ctx[h] \in Context
      BY DEF Inv, TypeOK
    <3> QED
      BY <2>1, <3>1 DEF ReadForLearning, Inv, TypeOK, Context
  <2>4. ~ ctx[h].moves
    BY <2>2 DEF TreeInv, PlaceStands
  <2> QED
    BY <2>2, <2>3, <2>4 DEF PlaceStands, WalkStands
<1>3. CASE \E f \in Fields, v \in Values, m \in Missions : ReadForAnalysis(h, m, f, v)
  <2>1. PICK f \in Fields, v \in Values, m \in Missions : ReadForAnalysis(h, m, f, v)
    BY <1>3
  <2>2. pc'[h] \in {"done", "writing"}
    BY <2>1 DEF ReadForAnalysis, Goto, Inv, TypeOK
  <2>3. ctx' = [ctx EXCEPT ![h] = [NoContext EXCEPT !.mission = m,
                     !.document = Edited(mission[m].document, f, v),
                     !.revision = mission[m].revision]]
    BY <2>1 DEF ReadForAnalysis
  <2>4. ctx'[h].moves = FALSE
    BY <2>3 DEF NoContext, Inv, TypeOK
  <2> QED
    BY <2>2, <2>4 DEF PlaceStands, WalkStands
<1> QED
  BY <1>1, <1>2, <1>3

\* A walk of no steps.
LEMMA WalkBegins ==
    ASSUME NEW up, NEW p \in Missions
    PROVE  \E t \in [0 .. 0 -> Missions] : Chain(up, t, 0) /\ t[0] = p
<1> DEFINE t == [i \in 0 .. 0 |-> p]
<1>1. t \in [0 .. 0 -> Missions] /\ t[0] = p /\ Chain(up, t, 0)
  BY DEF Chain
<1> QED
  BY <1>1

LEMMA CreateWalks ==
    ASSUME Inv, TreeInv, NEW h \in Handlers, \E p \in Link : ReadForCreate(h, p)
    PROVE  PlaceStands(h)' /\ WalkStands(h)'
<1> PICK p \in Link : ReadForCreate(h, p)
  OBVIOUS
<1> DEFINE to == IF p = NoMission THEN "naming" ELSE "climbing"
           d == [BlankDocument EXCEPT !.parent = p]
<1>1. pc'[h] = to /\ mission' = mission /\ (p \in Missions => Exists(p))
  BY DEF ReadForCreate, Goto, Inv, TypeOK
<1>2. ctx'[h] = [NoContext EXCEPT !.document = d, !.moves = TRUE, !.next = p]
  BY DEF ReadForCreate, Inv, TypeOK
<1>3. /\ ctx'[h].moves /\ ctx'[h].document.parent = p /\ ctx'[h].next = p
      /\ ctx'[h].mission = NoMission /\ ctx'[h].depth = 0
  BY <1>2 DEF NoContext, BlankDocument
<1>4. p \notin Missions <=> p = NoMission
  BY PortfolioAssumption DEF Link
<1>5. PlaceStands(h)'
  BY <1>1, <1>3 DEF PlaceStands, Exists
<1>6. ASSUME p = NoMission PROVE WalkStands(h)'
  BY <1>1, <1>3, <1>4, <1>6 DEF WalkStands
<1>7. ASSUME p # NoMission PROVE WalkStands(h)'
  <2>1. PICK t \in [0 .. 0 -> Missions] : Chain(Parents', t, 0) /\ t[0] = p
    BY <1>4, <1>7, WalkBegins
  <2>2. ClimbStands(h)'
    BY <1>3, <2>1 DEF ClimbStands
  <2> QED
    BY <1>1, <1>7, <2>2 DEF WalkStands
<1> QED
  BY <1>5, <1>6, <1>7

LEMMA UpdateWalks ==
    ASSUME Inv, TreeInv, NEW h \in Handlers,
           \E f \in Fields, v \in Values, p \in Link : ReadForUpdate(h, f, v, p)
    PROVE  PlaceStands(h)' /\ WalkStands(h)'
<1> PICK f \in Fields, v \in Values, p \in Link : ReadForUpdate(h, f, v, p)
  OBVIOUS
<1> DEFINE to == IF p = NoMission THEN "writing" ELSE "climbing"
           c == ctx[h]
           d == [Edited(mission[c.mission].document, f, v) EXCEPT !.parent = p]
           n == [c EXCEPT !.revision = mission[c.mission].revision, !.document = d,
                          !.moves = TRUE, !.next = p, !.seen = {c.mission}]
<1>1. /\ pc'[h] = to /\ pc[h] = "viewing" /\ mission' = mission
      /\ (p \in Missions => Exists(p))
  BY DEF ReadForUpdate, Goto, Inv, TypeOK
<1>2. ctx'[h] = n
  BY DEF ReadForUpdate, Inv, TypeOK
<1>3. c \in Context /\ c.depth = 0 /\ c.mission \in Missions
  BY <1>1 DEF Inv, TypeOK, TreeInv, PlaceStands, HandlersHoldTheirRead, Holds
<1>4. mission[c.mission].document \in Document
  BY <1>3 DEF Inv, TypeOK, Row
<1>5. d.parent = p
  BY <1>4, EditedType DEF Document, Edited
<1> HIDE DEF d
<1>6. /\ n.moves /\ n.document = d /\ n.next = p /\ n.mission = c.mission
      /\ n.depth = 0 /\ n.seen = {c.mission}
  BY <1>3 DEF Context
<1> HIDE DEF n
<1>7. p \notin Missions <=> p = NoMission
  BY PortfolioAssumption DEF Link
<1>8. PlaceStands(h)'
  BY <1>1, <1>2, <1>5, <1>6 DEF PlaceStands, Exists
<1>9. ASSUME p = NoMission PROVE WalkStands(h)'
  BY <1>1, <1>2, <1>5, <1>6, <1>7, <1>9 DEF WalkStands
<1>10. ASSUME p # NoMission PROVE WalkStands(h)'
  <2>1. PICK t \in [0 .. 0 -> Missions] : Chain(Parents', t, 0) /\ t[0] = p
    BY <1>7, <1>10, WalkBegins
  <2>2. ClimbStands(h)'
    BY <1>2, <1>5, <1>6, <2>1 DEF ClimbStands
  <2> QED
    BY <1>1, <1>10, <2>2 DEF WalkStands
<1> QED
  BY <1>8, <1>9, <1>10

LEMMA TreeReads ==
    ASSUME Inv, TreeInv, NEW h \in Handlers, Read(h) \/ Stop(h)
    PROVE  TreeInv'
<1>1. /\ mission' = mission /\ Parents' = Parents /\ Placers' = Placers
      /\ \A g \in Handlers \ {h} : pc'[g] = pc[g] /\ ctx'[g] = ctx[g]
  BY ReadPlacesNothing
<1>2. PlaceStands(h)' /\ (Placers = {} => WalkStands(h)')
  BY StopWalks, ClimbWalks, MeasureWalks, NameWalks, OpeningWalks, CreateWalks, UpdateWalks
     DEF Read
<1>3. \A g \in Handlers \ {h} : PlaceStands(g)' /\ (Placers = {} => WalkStands(g)')
  BY <1>1, OthersWalk DEF TreeInv
<1>4. ParentsExist'
  BY <1>1 DEF TreeInv, ParentsExist, Exists
<1>5. IsFiniteSet(Placers') /\ (Cardinality(Placers') <= 1 => Shallow(Parents'))
  BY <1>1 DEF TreeInv
<1>6. \A g \in Handlers : PlaceStands(g)' /\ (Placers = {} => WalkStands(g)')
  BY <1>2, <1>3
<1> QED
  BY <1>1, <1>4, <1>5, <1>6 DEF TreeInv

LEMMA TreeWrites ==
    ASSUME Inv, TreeInv, NEW h \in Handlers, Write(h)
    PROVE  TreeInv'
<1> DEFINE c == ctx[h]
           m == c.mission
           p == c.document.parent
<1>1. /\ m \in Missions /\ c.document \in Document /\ p \in Link /\ ctx' = ctx
      /\ pc[h] = "writing" /\ pc' = [pc EXCEPT ![h] = "done"]
      /\ mission' = [mission EXCEPT ![m] =
            [revision |-> mission[m].revision + 1, parent |-> p, document |-> c.document]]
  BY WriteEffect DEF Write, Goto, Document
<1>2. /\ mission \in [Missions -> Row] /\ pc \in [Handlers -> Stage]
      /\ mission[m].revision \in Nat
  BY <1>1 DEF Inv, TypeOK, Row
<1>3. /\ mission'[m].revision = mission[m].revision + 1 /\ mission'[m].parent = p
      /\ \A o \in Missions \ {m} : mission'[o] = mission[o]
  BY <1>1, <1>2
<1>4. \A o \in Missions : Exists(o) => Exists(o)'
  BY <1>2, <1>3 DEF Exists
<1>5. Parents' = [Parents EXCEPT ![m] = p] /\ Parents \in [Missions -> Link]
  <2>1. Parents \in [Missions -> Link]
    BY <1>2 DEF Parents, Row
  <2>2. \A o \in Missions : mission'[o].parent = IF o = m THEN p ELSE mission[o].parent
    BY <1>3
  <2> QED
    BY <2>1, <2>2 DEF Parents
<1>6. pc'[h] = "done" /\ \A g \in Handlers \ {h} : pc'[g] = pc[g]
  BY <1>1, <1>2
<1>7. \A g \in Handlers : PlaceStands(g)'
  BY <1>1, <1>4, <1>6 DEF TreeInv, PlaceStands
<1>8. CASE c.moves
  <2>1. h \notin Placers /\ Placers' = Placers \cup {h}
    BY <1>1, <1>6, <1>8 DEF Placers
  <2>2. IsFiniteSet(Placers') /\ Cardinality(Placers') = Cardinality(Placers) + 1
        /\ Cardinality(Placers) \in Nat /\ IsFiniteSet(Placers)
    BY <2>1, FS_AddElement, FS_CardinalityType DEF TreeInv
  <2>3. ParentsExist'
    <3>1. p \in Missions => Exists(p)
      BY <1>1, <1>8 DEF TreeInv, PlaceStands
    <3> QED
      BY <1>3, <1>4, <3>1 DEF TreeInv, ParentsExist
  <2>4. ASSUME Cardinality(Placers') <= 1 PROVE Shallow(Parents')
    <3>1. Cardinality(Placers) = 0
      BY <2>2, <2>4
    <3>2. Placers = {}
      BY <2>2, <3>1, FS_EmptySet
    <3>3. Shallow(Parents)
      BY <3>1 DEF TreeInv
    <3>4. p \in Missions => FitsUnder(Parents, m, p)
      BY <1>1, <1>8, <3>2 DEF TreeInv, WalkStands
    <3> QED
      BY <1>1, <1>5, <3>3, <3>4, PlacedTreeIsShallow
  <2> QED
    BY <1>7, <2>1, <2>2, <2>3, <2>4 DEF TreeInv
<1>9. CASE ~ c.moves
  <2>1. Placers' = Placers
    BY <1>1, <1>6, <1>9 DEF Placers
  <2>2. p = mission[m].parent
    <3>1. mission' = [mission EXCEPT ![m] =
              [revision |-> c.revision + 1, parent |-> mission[m].parent,
               document |-> c.document]]
      BY <1>9 DEF Write, Placed
    <3> QED
      BY <1>1, <1>2, <1>3, <3>1
  <2>3. Parents' = Parents
    BY <1>1, <1>5, <2>2 DEF Parents
  <2>4. ParentsExist'
    BY <1>3, <1>4, <2>2 DEF TreeInv, ParentsExist
  <2>5. ASSUME Placers = {}, NEW g \in Handlers PROVE WalkStands(g)'
    <3>1. CASE g = h
      BY <1>6, <3>1 DEF WalkStands
    <3>2. CASE g # h
      BY <1>1, <1>6, <2>3, <2>5, <3>2 DEF TreeInv, WalkStands, ClimbStands
    <3> QED
      BY <3>1, <3>2
  <2> QED
    BY <1>7, <2>1, <2>3, <2>4, <2>5 DEF TreeInv
<1> QED
  BY <1>8, <1>9

LEMMA TreeStep == Inv /\ TreeInv /\ [Next]_vars => TreeInv'
<1> SUFFICES ASSUME Inv, TreeInv, [Next]_vars PROVE TreeInv'
  OBVIOUS
<1>1. CASE Next
  BY <1>1, TreeReads, TreeWrites DEF Next
<1>2. CASE UNCHANGED vars
  <2>1. mission' = mission /\ pc' = pc /\ ctx' = ctx
    BY <1>2 DEF vars
  <2>2. ParentsExist' /\ Placers' = Placers /\ Parents' = Parents
    BY <2>1 DEF TreeInv, ParentsExist, Exists, Placers, Parents
  <2>3. \A h \in Handlers : PlaceStands(h)' /\ (Placers = {} => WalkStands(h)')
    BY <2>1, OthersWalk DEF TreeInv
  <2> QED
    BY <2>2, <2>3 DEF TreeInv
<1> QED
  BY <1>1, <1>2

\* From any sound tree, one create or update that places a mission leaves a
\* sound one, whatever the handlers that place none write meanwhile
\* (portfolio._validated_parent and _descendant_height).
THEOREM OnePlacementIsSound == Spec => []LonePlacementKeepsTree
<1>1. TreeInv => LonePlacementKeepsTree
  BY SoundIsShallow DEF TreeInv, LonePlacementKeepsTree
<1>2. Inv /\ TreeInv /\ [Next]_vars => Inv' /\ TreeInv'
  BY InvStep, TreeStep
<1> QED
  BY <1>1, <1>2, InvInit, TreeInit, PTL DEF Spec
==============================================================================
