----------------------------- MODULE AnswerReview -----------------------------
(***************************************************************************)
(* What happens to the provider's answer before anybody sees it            *)
(* (interactive.analyze_interactively, from the response to the return).   *)
(* Its JSON is repaired, validated against the contract, held to the pages *)
(* the search really retrieved, capped in its confidence and checked for   *)
(* the records and files it cites.  The first check it fails names the     *)
(* failure; an answer that passes them all is returned.                    *)
(*                                                                         *)
(* A generated identifier is the sequence of the suffixes it carries.  A   *)
(* page is what remains of a URL once a trailing slash and letter case are *)
(* ignored; "invalid" stands for URLs that are not absolute HTTP(S).       *)
(***************************************************************************)
EXTENDS Naturals, Sequences, FiniteSets

CONSTANTS
    SourceIds,  \* identifiers an answer gives its sources
    Pages,      \* pages on the web
    MaxSources  \* most sources in an answer's dossier

\* 0 stands for a source that is gone (NoSource below).
ASSUME ReviewAssumption == MaxSources \in Nat /\ 0 \notin SourceIds

VARIABLES
    answer,  \* the provider's answer, as it arrives
    work,    \* what the review has made of it
    verdict  \* how far it is, or how it ended

reviewVars == <<answer, work, verdict>>

-----------------------------------------------------------------------------
\* Repair of repeated identifiers

\* The name an item gets whose identifier is taken: a suffix, the first free.
FreeName(id, index, seen) ==
    LET free == {n \in index .. index + Cardinality(seen) :
                   Append(id, n) \notin seen}
    IN Append(id, CHOOSE n \in free : \A m \in free : n <= m)

\* _unique_generated_ids, for items in the order they appear
Named(items) ==
    LET done[n \in 0 .. Len(items)] ==
            IF n = 0 THEN << >>
            ELSE LET before == done[n - 1]
                     seen == {before[i].id : i \in DOMAIN before}
                 IN Append(before,
                      IF items[n].id \notin seen THEN items[n]
                      ELSE [items[n] EXCEPT !.id = FreeName(@, n, seen)])
    IN done[Len(items)]

-----------------------------------------------------------------------------
\* Repair of the dossier's graph (_normalize_context_dossier)

NoSource == 0

\* What became of an identifier, in place of what was known of it.
Aliased(alias, id, target) ==
    [s \in DOMAIN alias \cup {id} |-> IF s = id THEN target ELSE alias[s]]

\* Mutant: a page cited twice stays two sources.
KeepEachPage(state, source) ==
    LET Alias(target) ==
            [state EXCEPT !.alias = Aliased(@, source.id, target)]
    IN IF source.page = "invalid" THEN Alias(NoSource)
       ELSE IF \E i \in DOMAIN state.kept : state.kept[i].id = source.id
       THEN Alias(source.id)
       ELSE [Alias(source.id) EXCEPT !.kept = Append(state.kept, source)]

\* One source is added to those kept, or an alias says what became of it.
Keep(state, source) ==
    LET same == {i \in DOMAIN state.kept : state.kept[i].page = source.page}
        Alias(target) ==
            [state EXCEPT !.alias = Aliased(@, source.id, target)]
    IN IF source.page = "invalid" THEN Alias(NoSource)
       ELSE IF \E i \in DOMAIN state.kept : state.kept[i].id = source.id
       THEN Alias(source.id)
       ELSE IF same # {} THEN Alias(state.kept[CHOOSE i \in same : TRUE].id)
       ELSE [Alias(source.id) EXCEPT !.kept = Append(state.kept, source)]

\* The sources kept, each identifier and page once, and the aliases.
KeptSources(sources) ==
    LET state[n \in 0 .. Len(sources)] ==
            IF n = 0 THEN [kept |-> << >>, alias |-> << >>]
            ELSE Keep(state[n - 1], sources[n])
    IN state[Len(sources)]

\* A claim keeps the sources that are left; without any it is unverified.
Downgraded(status, from) ==
    IF status # "hypothesis" /\ from = {} THEN "unverified" ELSE status
Grounded(claim, repaired) ==
    LET known == {repaired.kept[i].id : i \in DOMAIN repaired.kept}
        from == {repaired.alias[s] : s \in claim.from \cap DOMAIN repaired.alias}
                \cap known
    IN [claim EXCEPT !.from = from, !.status = Downgraded(claim.status, from)]

Repaired(dossier) ==
    LET repaired == KeptSources(dossier.sources)
    IN [sources |-> repaired.kept,
        claims |-> Named([i \in DOMAIN dossier.claims |->
                            Grounded(dossier.claims[i], repaired)])]

-----------------------------------------------------------------------------
\* The contract (contracts.ContextDossier, ContextClaim, MIInteractiveOutput)

Distinct(items, Key(_)) ==
    \A i, j \in DOMAIN items : i # j => Key(items[i]) # Key(items[j])
IdOf(item) == item.id
PageOf(item) == item.page

ValidDossier(d) ==
    /\ Distinct(d.sources, IdOf) /\ Distinct(d.sources, PageOf)
    /\ Distinct(d.claims, IdOf)
    /\ \A i \in DOMAIN d.sources : d.sources[i].page # "invalid"
    /\ \A i \in DOMAIN d.claims :
          /\ d.claims[i].from \subseteq {d.sources[j].id : j \in DOMAIN d.sources}
          /\ d.claims[i].status = "supported" => d.claims[i].from # {}

ValidAnswer(w) == Distinct(w.hypotheses, IdOf) /\ ValidDossier(w.dossier)

-----------------------------------------------------------------------------
\* The epistemic ceiling (calibrate_hypothesis_confidence)

NotEvaluable == 0
Low == 1
High == 2   \* Moderate or High: the ceiling treats them alike

Existing == <<0>>  \* a hypothesis of the mission's own
Generated(w) == {w.hypotheses[i].id : i \in DOMAIN w.hypotheses}

Supported(item) == item.on = "confirmed"
Cites(item) == item.on # "unknown"

CappedHypothesis(h) ==
    IF h.confidence = High /\ ~Supported(h) THEN [h EXCEPT !.confidence = Low]
    ELSE h

Direction(before, now) ==
    CASE before = now -> "unchanged"
      [] before # now /\ now = NotEvaluable -> "not_evaluable"
      [] before # now /\ now # NotEvaluable ->
            IF now > before THEN "increased" ELSE "decreased"

\* Mutant: only a declared increase is looked at.
CappedOnIncrease(change, w) ==
    IF /\ change.direction = "increased" /\ change.now = High
       /\ ~Supported(change)
    THEN LET now == IF change.before = NotEvaluable THEN Low ELSE change.before
         IN [change EXCEPT !.now = now,
                           !.direction = Direction(change.before, now)]
    ELSE change

CappedChange(change, w) ==
    LET new == change.subject \in Generated(w)
    IN IF /\ new \/ (change.subject = Existing /\ change.direction = "increased")
          /\ change.now = High /\ ~Supported(change)
       THEN LET now == IF new \/ change.before = NotEvaluable THEN Low
                       ELSE change.before
            IN [change EXCEPT !.now = now,
                              !.direction = Direction(change.before, now)]
       ELSE change

-----------------------------------------------------------------------------
\* The review

Moves(code) == verdict' = code /\ UNCHANGED <<answer, work>>

\* _provider_response_state: the status the response declares; a refusal is
\* a completed response.
Status == IF answer.state = "refused" THEN "completed" ELSE answer.state

\* _response_contains_refusal: some message of the output is one.
ContainsRefusal == answer.state = "refused"

\* The response's own state comes first.
Receive ==
    /\ verdict = "arrived"
    /\ \/ Status = "incomplete" /\ Moves("provider_output_incomplete")
       \/ Status = "failed" /\ Moves("provider_response_failed")
       \/ Status = "completed" /\ ContainsRefusal /\ Moves("provider_refused")
       \/ Status = "completed" /\ ~ ContainsRefusal /\ Moves("received")

\* _response_output_text, which json.loads reads.
HasJson == answer.flaw \notin {"no_text", "unparsable"}

\* Repair, then the contract's validators.
RepairedAnswer ==
    [hypotheses |-> Named(answer.hypotheses), changes |-> answer.changes,
     dossier |-> Repaired(answer.dossier)]

\* _parsed_provider_output: one answer that meets the contract, or none.
ParsedOutput == {w \in {RepairedAnswer} : HasJson /\ ValidAnswer(w)}

Parse ==
    /\ verdict = "received"
    /\ \/ /\ work' \in ParsedOutput
          /\ verdict' = "parsed" /\ UNCHANGED answer
       \/ ParsedOutput = {} /\ Moves("provider_output_invalid")

\* A researched answer is about this mission, waits for review, is deep
\* enough and cites only pages its own search retrieved.
CheckResearch ==
    LET cited == {work.dossier.sources[i].page : i \in DOMAIN work.dossier.sources}
    IN /\ verdict = "parsed"
       /\ \/ /\ answer.research
             /\ answer.flaw \in {"other_mission", "skips_review"}
             /\ Moves("provider_output_invalid")
          \/ /\ answer.research
             /\ answer.flaw \notin {"other_mission", "skips_review"}
             /\ answer.flaw = "shallow_dossier" \/ Cardinality(cited) < 2
             /\ Moves("provider_output_too_shallow")
          \/ /\ answer.research /\ Cardinality(cited) >= 2
             /\ answer.flaw \notin
                   {"other_mission", "skips_review", "shallow_dossier"}
             /\ ~(cited \subseteq answer.retrieved)
             /\ Moves("provider_output_invalid")
          \/ /\ \/ ~answer.research
                \/ /\ Cardinality(cited) >= 2 /\ cited \subseteq answer.retrieved
                   /\ answer.flaw \notin
                         {"other_mission", "skips_review", "shallow_dossier"}
             /\ Moves("grounded")

Calibrate ==
    /\ verdict = "grounded"
    /\ work' = [work EXCEPT
          !.hypotheses = [i \in DOMAIN @ |-> CappedHypothesis(@[i])],
          !.changes = [i \in DOMAIN @ |-> CappedChange(@[i], work)]]
    /\ verdict' = "calibrated"
    /\ UNCHANGED answer

Items == {work.hypotheses[i] : i \in DOMAIN work.hypotheses}
            \cup {work.changes[i] : i \in DOMAIN work.changes}

\* _validate_references: what is cited is known, experiments test hypotheses.
RefersToKnown ==
    /\ \A item \in Items : Cites(item)
    /\ answer.target \in Generated(work) \cup {Existing}

\* _reference_locations and attachment_citation_trace: the places where a file
\* selected for this turn is cited.
FileCitations == {item \in Items : item.on = "file"}

\* validate_attachment_citations
FilesAreCited == answer.file => FileCitations # {}

CheckReferences ==
    /\ verdict = "calibrated"
    /\ \/ ~RefersToKnown /\ Moves("provider_output_invalid")
       \/ /\ RefersToKnown /\ ~FilesAreCited
          /\ Moves("provider_attachments_not_cited")
       \/ RefersToKnown /\ FilesAreCited /\ Moves("referenced")

\* _quality_failures: another intent, too few items, or too little said.
MeetsIntent == answer.flaw # "other_intent"

CheckQuality ==
    /\ verdict = "referenced"
    /\ \/ ~MeetsIntent /\ Moves("provider_output_too_shallow")
       \/ MeetsIntent /\ Moves("accepted")

-----------------------------------------------------------------------------
\* The answers considered: one part varies at a time.

Hypothesis == [id : {<< >>}, confidence : {Low, High},
               on : {"confirmed", "declared", "file", "unknown"}]
Plain(id) == [id |-> id, confidence |-> Low, on |-> "declared"]
Repeated == {<< >>, <<2>>, <<3>>}
Change == [subject : {<< >>, Existing, <<9>>},
           before : NotEvaluable .. High, now : NotEvaluable .. High,
           direction : {"increased", "unchanged"},
           on : {"confirmed", "declared", "file", "unknown"}]

Source == [id : SourceIds, page : Pages \cup {"invalid"}]
Claim == [id : {<< >>, <<2>>}, from : SUBSET SourceIds,
          status : {"supported", "unverified", "hypothesis"}]

Plainly == [state |-> "completed", flaw |-> "none", research |-> FALSE,
            retrieved |-> {}, file |-> FALSE, target |-> Existing,
            hypotheses |-> <<Plain(<< >>)>>, changes |-> << >>,
            dossier |-> [sources |-> << >>, claims |-> << >>]]

Reasoned ==
    {[Plainly EXCEPT !.hypotheses = <<h>>, !.changes = <<c>>, !.file = f] :
       h \in Hypothesis, c \in Change, f \in BOOLEAN}
Renamed ==
    {[Plainly EXCEPT !.hypotheses = [i \in DOMAIN ids |-> Plain(ids[i])],
                     !.target = t] :
       ids \in [1 .. 3 -> Repeated] \cup [1 .. 2 -> Repeated], t \in Repeated}
Researched ==
    {[Plainly EXCEPT !.research = TRUE, !.retrieved = r,
         !.dossier = [sources |-> s, claims |-> <<c, [c EXCEPT !.id = id]>>]] :
       r \in SUBSET Pages, c \in Claim, id \in {<< >>, <<2>>},
       s \in UNION {[1 .. n -> Source] : n \in 2 .. MaxSources}}
Flawed ==
    {[Plainly EXCEPT !.state = st, !.flaw = f, !.research = r] :
       st \in {"completed", "incomplete", "failed", "refused"},
       f \in {"none", "no_text", "unparsable", "other_mission", "skips_review",
              "shallow_dossier", "other_intent"},
       r \in BOOLEAN}

Answers == Reasoned \cup Renamed \cup Researched \cup Flawed

ReviewInit ==
    /\ answer \in Answers
    /\ work = [hypotheses |-> << >>, changes |-> << >>,
               dossier |-> [sources |-> << >>, claims |-> << >>]]
    /\ verdict = "arrived"

ReviewNext ==
    \/ Receive \/ Parse \/ CheckResearch \/ Calibrate
    \/ CheckReferences \/ CheckQuality

ReviewSpec == ReviewInit /\ [][ReviewNext]_reviewVars

------------------------------------------------------------------------------
\* What the review of a provider's answer promises.

ReviewTypes ==
    /\ verdict \in {"arrived", "received", "parsed", "grounded", "calibrated",
                    "referenced", "accepted", "provider_output_incomplete",
                    "provider_response_failed", "provider_refused",
                    "provider_output_invalid", "provider_output_too_shallow",
                    "provider_attachments_not_cited"}
    /\ Len(work.hypotheses) \in {0, Len(answer.hypotheses)}
    /\ Generated(work) \subseteq Seq(Nat)

\* The pages an answer's own sources give for some identifiers.
PagesOf(ids) ==
    {answer.dossier.sources[i].page :
       i \in {j \in DOMAIN answer.dossier.sources :
                answer.dossier.sources[j].id \in ids}}
PagesKept(ids) ==
    {work.dossier.sources[i].page :
       i \in {j \in DOMAIN work.dossier.sources :
                work.dossier.sources[j].id \in ids}}

\* Repairing an answer always yields one the contract accepts, and never makes
\* more of its dossier than it was: a claim rests only on pages it cited itself, keeps
\* its standing or becomes unverified, and an answer is not thrown away for a
\* repeated identifier or page (_normalize_context_dossier: "No claim is
\* promoted").  Every name that stood for a hypothesis still does.
RepairIsConservative ==
    /\ verdict = "received" => ValidAnswer(RepairedAnswer)
    /\ work.hypotheses # << >> =>
          {answer.hypotheses[i].id : i \in DOMAIN answer.hypotheses}
             \subseteq Generated(work)
    /\ \A i \in DOMAIN work.dossier.claims :
          LET before == answer.dossier.claims[i]
              after == work.dossier.claims[i]
          IN /\ PagesKept(after.from) \subseteq PagesOf(before.from)
             /\ after.status \in {before.status, "unverified"}

\* In an answer that is returned no new hypothesis is held with more than low
\* confidence, nor is its confidence said to have become so, unless a confirmed
\* record supports it; a rise the answer declares for one of the mission's own
\* hypotheses is undone without such support (calibrate_hypothesis_confidence).
ConfidenceIsEarned ==
    verdict = "accepted" =>
        /\ \A i \in DOMAIN work.hypotheses :
              work.hypotheses[i].confidence = High => Supported(work.hypotheses[i])
        /\ \A i \in DOMAIN work.changes :
              LET c == work.changes[i]
              IN /\ c.subject \in Generated(work) /\ c.now = High => Supported(c)
                 /\ /\ c.subject = Existing
                    /\ c.direction = "increased" /\ c.now = High
                    => Supported(c)
==============================================================================
