---------------------------- MODULE ContextWindow ----------------------------
(***************************************************************************)
(* How an assisted turn decides what the provider gets to read.            *)
(* mission_archive.retrieve_mission_archive ranks the chunks of the        *)
(* mission's files, interactive.prepare_interactive_request cuts that      *)
(* ranking and the dialogue's history to four ever smaller profiles, the   *)
(* handler refuses a turn whose own files do not all fit, and              *)
(* interactive.analyze_interactively retries with a smaller profile when   *)
(* the provider finds the request too large.                               *)
(*                                                                         *)
(* Files are numbered in the order of their identifiers.  A chunk is a     *)
(* pair of a file and an ordinal; matches is how many of the question's    *)
(* terms its file answers.  Sizes are in units of a few hundred tokens.    *)
(***************************************************************************)
EXTENDS Naturals, Integers, Sequences, FiniteSets, FiniteSetsExt

CONSTANTS
    Files,       \* the files of the mission, numbered as their ids sort
    Lengths,     \* how many chunks a file's text may have
    MaxMatches,  \* most terms of the question one chunk can match
    Retrieval,   \* max_chunks: how many chunks a retrieval returns
    Heads,       \* chunks of a selected file fetched whatever they match
    Boost,       \* added to the score of a file selected in the turn
    Images,      \* files that may be sent as they are
    Profiles,    \* CONTEXT_PROFILES, the largest first
    Frames,      \* what the rest of a request may take in each profile:
                 \* instructions, schema, the mission's records and relations,
                 \* and its report, whose alternatives are shown whole
    Histories,   \* sizes of the earlier turns, the newest last
    Budgets      \* per-request input limits an owner may have set

ASSUME WindowAssumption ==
    /\ Files \in SUBSET (Nat \ {0}) /\ IsFiniteSet(Files)
    /\ Lengths \subseteq Nat \ {0} /\ IsFiniteSet(Lengths)
    /\ MaxMatches \in Nat
    /\ Boost \in Nat /\ Boost > MaxMatches
    /\ {Retrieval, Heads, Images} \subseteq Nat \ {0}
    /\ Histories \subseteq Seq(Nat)
    /\ Profiles # << >>
    /\ Profiles \in Seq([chunks : Nat, clip : Nat, turns : Nat, bytes : Nat])
    /\ Frames \subseteq [DOMAIN Profiles -> Nat]
    /\ \A p, q \in 1 .. Len(Profiles) :
          p < q => /\ Profiles[q].chunks <= Profiles[p].chunks
                   /\ Profiles[q].clip <= Profiles[p].clip
                   /\ Profiles[q].turns <= Profiles[p].turns
                   /\ Profiles[q].bytes <= Profiles[p].bytes

VARIABLES
    turn,      \* what the user asks, with the mission's files as they are
    stage,     \* how far the request has come
    found,     \* the chunks retrieved, the most relevant first
    direct,    \* the files to send as they are
    variants,  \* the profiles the provider may be tried with, in order
    sent       \* the profiles it has been sent

windowVars == <<turn, stage, found, direct, variants, sent>>

\* The size of a whole chunk and what an image reserves.
Whole == 3
ImageReservation == 4

-----------------------------------------------------------------------------
\* The archive and what is retrieved from it

Chunks == {<<f, o>> : f \in {g \in Files : turn.form[g] = "text"},
                      o \in 1 .. Max(Lengths)}
Archive == {c \in Chunks : c[2] <= turn.length[c[1]]}

\* The first n of a set under a strict order.
First(S, n, Before(_, _)) ==
    {c \in S : Cardinality({d \in S : Before(d, c)}) < n}

Hits(c) == turn.matches[c[1]]

\* An order of the files by something other than their names.
Precedes(f, g) == IF turn.ascending THEN f < g ELSE f > g

\* The database's own selection: matching chunks by matches, then ordinal;
\* equal rows come in an order it does not promise.
ByMatches(c, d) ==
    \/ Hits(c) > Hits(d)
    \/ Hits(c) = Hits(d) /\ c[2] < d[2]
    \/ Hits(c) = Hits(d) /\ c[2] = d[2] /\ Precedes(c[1], d[1])
Matching == First({c \in Archive : Hits(c) > 0}, 4 * Retrieval, ByMatches)

\* The opening chunks of the files selected in the turn.
ByFile(c, d) == c[1] < d[1] \/ (c[1] = d[1] /\ c[2] < d[2])
Opening ==
    First({c \in Archive : c[1] \in turn.selected /\ c[2] <= Heads},
          Heads * Retrieval, ByFile)

Score(c, matching) ==
    IF c \in matching
    THEN Hits(c) + IF c[1] \in turn.selected THEN Boost ELSE 0
    ELSE Boost

\* Mutant: score alone.
ScoreFirst(c, d, Leads, Before) == <<c, d>> \in Before

\* A file's best chunk goes before any file's second.
LeadersFirst(c, d, Leads, Before) ==
    \/ Leads[c] /\ ~Leads[d]
    \/ Leads[c] = Leads[d] /\ <<c, d>> \in Before

Ranking ==
    LET matching == Matching
        candidates == matching \cup Opening
        score == [c \in candidates |-> Score(c, matching)]
        before == {p \in candidates \X candidates :
                     \/ score[p[1]] > score[p[2]]
                     \/ score[p[1]] = score[p[2]] /\ ByFile(p[1], p[2])}
        leads == [c \in candidates |->
                    \A d \in candidates : d[1] = c[1] => <<d, c>> \notin before]
        place == [c \in candidates |->
                    1 + Cardinality({d \in candidates :
                                       LeadersFirst(d, c, leads, before)})]
        kept == {c \in candidates : place[c] <= Retrieval}
    IN [i \in 1 .. Cardinality(kept) |-> CHOOSE c \in kept : place[c] = i]

\* The selected files without text that the provider can read itself,
\* the smallest first.
Visual == {f \in turn.selected : turn.form[f] = "visual"}
Unread == First(Visual, Images, Precedes)

Retrieve ==
    /\ stage = "asked"
    /\ found' = Ranking
    /\ direct' = Unread
    /\ stage' = "retrieved"
    /\ UNCHANGED <<turn, variants, sent>>

-----------------------------------------------------------------------------
\* The candidates

Excerpts(p) == SubSeq(found, 1, Min({Len(found), Profiles[p].chunks}))
Delivered(p) == {Excerpts(p)[i][1] : i \in DOMAIN Excerpts(p)} \cup direct
Missing(p) == turn.selected \ Delivered(p)

\* What the newest n turns take.
Taken[n \in 0 .. Len(turn.history)] ==
    IF n = 0 THEN 0
    ELSE Taken[n - 1] + turn.history[Len(turn.history) - n + 1]

\* As many of the newest turns as fit: the loop stops at the first that does
\* not, and no turn takes less than nothing.
HistoryBytes(p) ==
    LET most == Min({Len(turn.history), Profiles[p].turns})
    IN Max({Taken[n] : n \in {m \in 0 .. most : Taken[m] <= Profiles[p].bytes}})

ExcerptBytes(p) ==
    LET own == {i \in DOMAIN Excerpts(p) : Excerpts(p)[i][1] \in turn.selected}
    IN Whole * Cardinality(own)
       + Profiles[p].clip * (Len(Excerpts(p)) - Cardinality(own))

\* What a request carries of the dialogue, the files and the images.
Carried(p) ==
    HistoryBytes(p) + ExcerptBytes(p) + ImageReservation * Cardinality(direct)

\* conservative_input_token_reservation.  A smaller profile selects fewer of
\* the mission's records; the report then shows other alternatives, or all of
\* them when none is selected, so its share may grow.
Reservation(p) == turn.frame[p] + Carried(p)

Complete(p) == Missing(p) = {}
Fits(p) == Reservation(p) <= turn.budget

\* The profiles in S, the largest first.
InOrder(S) == [i \in 1 .. Cardinality(S) |->
                 CHOOSE p \in S : Cardinality({q \in S : q <= p}) = i]

Prepare ==
    LET complete == {p \in DOMAIN Profiles : Complete(p)}
        fitting == {p \in complete : Fits(p)}
    IN /\ stage = "retrieved"
       /\ \/ /\ complete = {}
             /\ stage' = "incomplete"   \* attachment_context_incomplete
             /\ variants' = << >>
          \/ /\ complete # {} /\ fitting = {}
             /\ stage' = "blocked"      \* per-request input limit
             /\ variants' = <<Max(complete)>>
          \/ /\ fitting # {}
             /\ stage' = "calling"
             /\ variants' = InOrder(fitting)
       /\ UNCHANGED <<turn, found, direct, sent>>

-----------------------------------------------------------------------------
\* The provider

Calling == stage = "calling"
Next1 == variants[Len(sent) + 1]

Answered ==
    /\ Calling
    /\ sent' = Append(sent, Next1)
    /\ stage' = "answered"
    /\ UNCHANGED <<turn, found, direct, variants>>

\* The provider finds the request too large for its window.
TooLarge ==
    /\ Calling
    /\ sent' = Append(sent, Next1)
    /\ stage' = IF Len(sent') < Len(variants) THEN stage ELSE "context_limit"
    /\ UNCHANGED <<turn, found, direct, variants>>

\* Any other failure ends the request.
CallFails ==
    /\ Calling
    /\ sent' = Append(sent, Next1)
    /\ stage' = "failed"
    /\ UNCHANGED <<turn, found, direct, variants>>

-----------------------------------------------------------------------------
Turns ==
    [selected : SUBSET Files, form : [Files -> {"text", "visual", "partial"}],
     length : [Files -> Lengths], matches : [Files -> 0 .. MaxMatches],
     ascending : BOOLEAN, history : Histories, budget : Budgets,
     frame : Frames]

\* Files without text have no chunks, so their length and matches do not count.
Canonical(t) ==
    /\ \A f \in Files : t.form[f] # "text" =>
          t.length[f] = Min(Lengths) /\ t.matches[f] = 0
    /\ t.selected = {} => t.ascending

Asked == {t \in Turns : Canonical(t)}

WindowInit ==
    /\ turn \in Asked
    /\ stage = "asked"
    /\ found = << >> /\ direct = {} /\ variants = << >> /\ sent = << >>

WindowNext == Retrieve \/ Prepare \/ Answered \/ TooLarge \/ CallFails

WindowSpec == WindowInit /\ [][WindowNext]_windowVars

------------------------------------------------------------------------------
\* What a prepared turn promises about the files its user selected.

\* Every variable holds what the request's stage allows; what is retrieved are
\* distinct chunks of the archive.
WindowTypes ==
    /\ stage \in {"asked", "retrieved", "incomplete", "blocked", "calling",
                  "answered", "context_limit", "failed"}
    /\ \A i, j \in DOMAIN found :
          found[i] \in Archive /\ (i # j => found[i] # found[j])
    /\ Len(found) <= Retrieval /\ Cardinality(direct) <= Images
    /\ Len(sent) <= Len(variants)

\* A request that reaches the provider, the first or a smaller retry, carries
\* every file its user selected for the turn and fits the limit its
\* reservation was made for, though what the report shows may grow in a retry;
\* of the dialogue, the files and the images a retry carries no more than the
\* first request did (prepare_interactive_request: "never the user's mandatory
\* files").
NoFileIsLeftBehind ==
    \A i \in DOMAIN sent :
        /\ turn.selected \subseteq Delivered(sent[i])
        /\ Reservation(sent[i]) <= turn.budget
        /\ Carried(sent[i]) <= Carried(sent[1])

\* A turn is refused for its files only when no request could carry them: more
\* texts than the largest profile has room for, more images than may be sent,
\* or a file nothing can be read from.  However many terms other files match,
\* and however long one selected file is, it does not crowd out another.
RefusalIsNecessary ==
    stage = "incomplete" =>
        \/ Cardinality({f \in turn.selected : turn.form[f] = "text"})
              > Min({Retrieval, Profiles[1].chunks})
        \/ Cardinality(Visual) > Images
        \/ \E f \in turn.selected : turn.form[f] = "partial"

\* The files a user selects are carried, or there is a reason.
SelectedFilesAreHonoured == NoFileIsLeftBehind /\ RefusalIsNecessary
==============================================================================
