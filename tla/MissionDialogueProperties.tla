---------------------- MODULE MissionDialogueProperties ----------------------
(***************************************************************************)
(* What a dialogue promises its readers.                                   *)
(***************************************************************************)
EXTENDS MissionDialogue

Numbers == 1 .. Cardinality(Handlers)

TurnRecord ==
    [session : Handlers, sequence : Numbers, document : Snapshots,
     snapshot : Snapshots, history : SUBSET Numbers,
     files : SUBSET Attachments, answered : BOOLEAN]

Context ==
    [session : Handlers \cup {Nobody}, document : Snapshots \cup {NoSnapshot},
     snapshot : Snapshots \cup {NoSnapshot}, history : SUBSET Numbers,
     files : SUBSET Attachments, answered : BOOLEAN, sequence : Numbers \cup {0}]

\* Every variable has its type; a turn is numbered from one, at most once for
\* every request.
TypeOK ==
    /\ mission \in Snapshots
    /\ session \in [Handlers -> Snapshots \cup {NoSnapshot}]
    /\ turns \subseteq TurnRecord
    /\ files \in [Attachments -> {"absent", "stored", "condemned", "deleted"}]
    /\ lock \in [Handlers -> Handlers \cup {Nobody}]
    /\ pc \in [Handlers -> Working \cup Ended \cup {"idle"}]
    /\ ctx \in [Handlers -> Context]

(***************************************************************************)
(* The lock on the session row serialises the numbering: the turns of a    *)
(* session are numbered from one without a gap and without a repetition,   *)
(* so that the unique key (session, sequence) never refuses an answer that *)
(* has been paid for.                                                      *)
(***************************************************************************)
TurnsAreNumbered ==
    \A s \in Handlers :
        /\ { t.sequence : t \in TurnsOf(s) } = 1 .. Cardinality(TurnsOf(s))
        /\ \A t, u \in TurnsOf(s) : t.sequence = u.sequence => t = u

(***************************************************************************)
(* What the model was told of a dialogue is a beginning of it: exactly the *)
(* answered turns up to one before its own, although other turns may have  *)
(* been stored between its question and its number.                        *)
(***************************************************************************)
HistoryIsABeginning ==
    \A t \in turns :
        \E n \in 0 .. t.sequence - 1 :
            t.history = { u.sequence :
                u \in { u \in TurnsOf(t.session) : u.answered /\ u.sequence <= n } }

(***************************************************************************)
(* Every turn of a session analyses the document the session was opened    *)
(* on, whatever is done to the mission meanwhile                           *)
(* (_resume_session_or_conflict).                                          *)
(***************************************************************************)
TurnsAnalyseOneSnapshot == \A t \in turns : t.document = session[t.session]
==============================================================================
