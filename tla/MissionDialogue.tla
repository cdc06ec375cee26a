--------------------------- MODULE MissionDialogue ---------------------------
(***************************************************************************)
(* The dialogue over one mission: sessions opened on a snapshot of its     *)
(* document, and the turns that run_interactive_turn adds to them.  A turn *)
(* is several transactions around a provider call of minutes; meanwhile    *)
(* the mission is edited, attachments come and go, and other turns of the  *)
(* same session run.  Only the numbering of turns is behind a lock.        *)
(*                                                                         *)
(* A request is one handler; a session is named by the handler that opened *)
(* it.  The provider's budget, which admits the calls, is AIGovernance.    *)
(***************************************************************************)
EXTENDS Integers, FiniteSets

CONSTANTS
    Handlers,       \* requests
    Nobody,         \* no session, or the holder of a free lock
    Snapshots,      \* contents of the mission document, by their hash
    NoSnapshot,     \* a session that was never opened
    Attachments     \* attachment ids

ASSUME DialogueAssumption ==
    /\ Nobody \notin Handlers
    /\ NoSnapshot \notin Snapshots
    /\ IsFiniteSet(Handlers)

VARIABLES
    mission,    \* mi_missions.content_hash
    session,    \* mi_dialogue_sessions.snapshot_hash
    turns,      \* mi_dialogue_turns, each with its run
    files,      \* mi_mission_attachments: absent, stored, condemned, deleted
    lock,       \* who holds each session's row
    pc,         \* where each handler is
    ctx         \* what a handler holds

vars == <<mission, session, turns, files, lock, pc, ctx>>

\* The stages between two steps of run_interactive_turn.
Working == {"opened", "refreshed", "asking", "settled", "storing"}

Ended == {"done", "refused", "crashed"}

NoContext ==
    [session |-> Nobody, document |-> NoSnapshot, snapshot |-> NoSnapshot,
     history |-> {}, files |-> {}, answered |-> FALSE, sequence |-> 0]

Stored == { a \in Attachments : files[a] \in {"stored", "condemned"} }

TurnsOf(s) == { t \in turns : t.session = s }

Init ==
    /\ mission \in Snapshots
    /\ session = [h \in Handlers |-> NoSnapshot]
    /\ turns = {}
    /\ files \in [Attachments -> {"absent", "stored"}]
    /\ lock = [h \in Handlers |-> Nobody]
    /\ pc = [h \in Handlers |-> "idle"]
    /\ ctx = [h \in Handlers |-> NoContext]

Goto(h, from, to) ==
    /\ pc[h] = from
    /\ pc' = [pc EXCEPT ![h] = to]

-----------------------------------------------------------------------------

\* A first turn: persist_mission applies the form, which may make a revision,
\* and the session is opened on the result in the same transaction.
Open(h, d) ==
    /\ Goto(h, "idle", "opened")
    /\ mission' = d
    /\ session' = [session EXCEPT ![h] = d]
    /\ ctx' = [ctx EXCEPT ![h] = [NoContext EXCEPT !.session = h, !.document = d]]
    /\ UNCHANGED <<turns, files, lock>>

\* Mutant: mission_snapshot_changed is not raised.
SnapshotStandsAlways(s) == TRUE

\* The mission is still what the session was opened on.
SnapshotStands(s) == session[s] = mission

\* A further turn, whose form holds nothing but what the session was opened on.
Resume(h, s) ==
    /\ Goto(h, "idle", "opened")
    /\ session[s] # NoSnapshot
    /\ SnapshotStands(s)
    /\ ctx' = [ctx EXCEPT ![h] = [NoContext EXCEPT !.session = s, !.document = mission]]
    /\ UNCHANGED <<mission, session, turns, files, lock>>

\* mission_snapshot_changed, or dialogue_input_changed.
RefuseResume(h) ==
    /\ Goto(h, "idle", "refused")
    /\ \E s \in Handlers : session[s] # NoSnapshot
    /\ UNCHANGED <<mission, session, turns, files, lock, ctx>>

\* db.refresh(mission), after the commit: the row as it is by now.
Refresh(h) ==
    /\ Goto(h, "opened", "refreshed")
    /\ ctx' = [ctx EXCEPT ![h].snapshot = mission]
    /\ UNCHANGED <<mission, session, turns, files, lock>>

\* Mutant: turns without intelligence are given to the model too.
HistoryWithFailures(s) == { t.sequence : t \in TurnsOf(s) }

\* _dialogue_history: the turns the model answered.
History(s) == { t.sequence : t \in { t \in TurnsOf(s) : t.answered } }

\* What the prompt is made of: the turns so far, and the attachments chosen,
\* which must exist.  The queries do not depend on one another.
Gather(h, chosen) ==
    /\ Goto(h, "refreshed", "asking")
    /\ chosen \subseteq Stored
    /\ ctx' = [ctx EXCEPT ![h].history = History(ctx[h].session), ![h].files = chosen]
    /\ UNCHANGED <<mission, session, turns, files, lock>>

\* The provider's answer, or its failure, which is a turn as well.
Answer(h, answered) ==
    /\ Goto(h, "asking", "settled")
    /\ ctx' = [ctx EXCEPT ![h].answered = answered]
    /\ UNCHANGED <<mission, session, turns, files, lock>>

Forgotten(h) == [ctx EXCEPT ![h] = NoContext]

\* No turn: the role, the configuration or an attachment before the prompt is
\* made, the budget after it.
Refuse(h) ==
    /\ Goto(h, "refreshed", "refused") \/ Goto(h, "asking", "refused")
    /\ ctx' = Forgotten(h)
    /\ UNCHANGED <<mission, session, turns, files, lock>>

\* Mutant: the session row is read without a lock.
FreeAlways(s) == TRUE

Free(s) == lock[s] = Nobody

\* Mutant: `or 0` is applied to the next number.
NextSequenceFromZero(s) ==
    IF TurnsOf(s) = {} THEN 0
    ELSE CHOOSE n \in { t.sequence + 1 : t \in TurnsOf(s) } :
            \A t \in TurnsOf(s) : t.sequence < n

\* max(sequence) or 0, plus one.
NextSequence(s) ==
    IF TurnsOf(s) = {} THEN 1
    ELSE CHOOSE n \in { t.sequence + 1 : t \in TurnsOf(s) } :
            \A t \in TurnsOf(s) : t.sequence < n

\* The session row FOR UPDATE, and the number of the turn under it.
Number(h) ==
    LET s == ctx[h].session
    IN  /\ Goto(h, "settled", "storing")
        /\ Free(s)
        /\ lock' = [lock EXCEPT ![s] = h]
        /\ ctx' = [ctx EXCEPT ![h].sequence = NextSequence(s)]
        /\ UNCHANGED <<mission, session, turns, files>>

\* The run, which records the mission's hash of the refresh, and the turn.
Turn(h) ==
    LET c == ctx[h]
    IN  [session |-> c.session, sequence |-> c.sequence, document |-> c.document,
         snapshot |-> c.snapshot, history |-> c.history, files |-> c.files,
         answered |-> c.answered]

\* The database gives back what a transaction locked, when it ends.
ReleasedBy(h) == [s \in Handlers |-> IF lock[s] = h THEN Nobody ELSE lock[s]]

Store(h) ==
    /\ Goto(h, "storing", "done")
    /\ turns' = turns \cup {Turn(h)}
    /\ lock' = ReleasedBy(h)
    /\ ctx' = Forgotten(h)
    /\ UNCHANGED <<mission, session, files>>

\* The worker stops, or settle_ai_usage finds its reservation expired.
Crash(h) ==
    /\ pc[h] \in Working
    /\ pc' = [pc EXCEPT ![h] = "crashed"]
    /\ lock' = ReleasedBy(h)
    /\ ctx' = Forgotten(h)
    /\ UNCHANGED <<mission, session, turns, files>>

-----------------------------------------------------------------------------

\* Another request edits the mission, or puts an earlier text back.
Edit(d) ==
    /\ d # mission
    /\ mission' = d
    /\ UNCHANGED <<session, turns, files, lock, pc, ctx>>

Upload(a) ==
    /\ files[a] = "absent"
    /\ files' = [files EXCEPT ![a] = "stored"]
    /\ UNCHANGED <<mission, session, turns, lock, pc, ctx>>

\* delete_attachment finds no turn that names the attachment,
CheckUnused(a) ==
    /\ files[a] = "stored"
    /\ \A t \in turns : a \notin t.files
    /\ files' = [files EXCEPT ![a] = "condemned"]
    /\ UNCHANGED <<mission, session, turns, lock, pc, ctx>>

\* and deletes it.
Delete(a) ==
    /\ files[a] = "condemned"
    /\ files' = [files EXCEPT ![a] = "deleted"]
    /\ UNCHANGED <<mission, session, turns, lock, pc, ctx>>

-----------------------------------------------------------------------------

Step(h) ==
    \/ Refresh(h)
    \/ \E chosen \in SUBSET Attachments : Gather(h, chosen)
    \/ \E answered \in BOOLEAN : Answer(h, answered)
    \/ Refuse(h)
    \/ Number(h)
    \/ Store(h)

Begin(h) ==
    \/ \E d \in Snapshots : Open(h, d)
    \/ \E s \in Handlers : Resume(h, s)
    \/ RefuseResume(h)

Others ==
    \/ \E d \in Snapshots : Edit(d)
    \/ \E a \in Attachments : Upload(a) \/ CheckUnused(a) \/ Delete(a)

Next == (\E h \in Handlers : Begin(h) \/ Step(h) \/ Crash(h)) \/ Others

Spec == Init /\ [][Next]_vars
==============================================================================
