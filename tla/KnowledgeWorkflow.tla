-------------------------- MODULE KnowledgeWorkflow --------------------------
(***************************************************************************)
(* One knowledge asset on its way from received text to a repository       *)
(* proposal (WorkflowService): candidates are cut from the text, a human   *)
(* approves some, and materialisation makes a knowledge object and a file  *)
(* of each.                                                                *)
(*                                                                         *)
(* No handler takes a lock.  A handler reads the workflow's state, loads   *)
(* its candidates by a second query, and commits what it changed; files    *)
(* are written before that commit and stay where they are if it never      *)
(* comes.  A request is one handler.                                       *)
(***************************************************************************)
EXTENDS Naturals, Sequences, FiniteSets

CONSTANTS
    Workers,        \* requests of reviewers
    Candidates,     \* pieces of the text
    NoAsset         \* no file is there

VARIABLES
    workflow,       \* the state of the workflow's row
    approval,       \* candidate.approved: of the candidates there are
    trail,          \* workflow_history, in the order it was written
    objects,        \* knowledge objects: [candidate, the request that made it]
    files,          \* the object each candidate's file is about
    changes,        \* repository_changes: the objects each proposes
    task,           \* what each request holds
    endorsed,       \* candidates ticked in a review that was saved
    crowded         \* two requests have been at work at the same time

workflowVars == <<workflow, approval, trail, objects, files, changes, task, endorsed, crowded>>

Asset == [candidate : Candidates, by : Workers]

Verdicts == {"null", "true", "false"}

\* The order WorkflowState lists, as far as the service goes.
Intake == << <<"received", "normalized">>, <<"normalized", "classified">>,
             <<"classified", "review_required">> >>

Delivery == << <<"approved", "materialized">>, <<"materialized", "indexed">>,
               <<"indexed", "analyzed">>, <<"analyzed", "commit_proposed">> >>

NoWork == [at |-> "idle", ticks |-> {}, loaded |-> <<>>, shown |-> "absent", todo |-> {}, made |-> {}]

WorkflowInit ==
    /\ workflow = "absent"
    /\ approval = <<>>
    /\ trail = <<>>
    /\ objects = {}
    /\ files = [c \in Candidates |-> NoAsset]
    /\ changes = {}
    /\ task = [r \in Workers |-> NoWork]
    /\ endorsed = {}
    /\ crowded = FALSE

AtWork == { r \in Workers : task[r].at \notin {"idle", "done"} }

Take(r, from, next) ==
    /\ task[r].at = from
    /\ task' = [task EXCEPT ![r] = next]
    /\ crowded' = (crowded \/ AtWork \ {r} # {})

\* create: everything up to review_required is one transaction.  _classify
\* cuts at least one candidate.
CreateWorkflow(r, cs) ==
    /\ workflow = "absent"
    /\ Take(r, "idle", [NoWork EXCEPT !.at = "done"])
    /\ cs # {}
    /\ workflow' = "review_required"
    /\ approval' = [c \in cs |-> "null"]
    /\ trail' = trail \o Intake
    /\ UNCHANGED <<objects, files, changes, endorsed>>

-----------------------------------------------------------------------------

Reviewable == workflow = "review_required"

\* review, with the candidates its user ticked, reads the workflow.
BeginReview(r, ticks) ==
    /\ Reviewable
    /\ Take(r, "idle", [NoWork EXCEPT !.at = "reviewing", !.ticks = ticks, !.shown = workflow])
    /\ UNCHANGED <<workflow, approval, trail, objects, files, changes, endorsed>>

\* workflow.candidates is loaded when the loop first needs it.
LoadForReview(r) ==
    /\ Take(r, "reviewing", [task[r] EXCEPT !.at = "deciding", !.loaded = approval])
    /\ UNCHANGED <<workflow, approval, trail, objects, files, changes, endorsed>>

\* Mutant: a candidate that is not mentioned is approved.
VerdictUnlessRefused(r, c) == IF c \in task[r].ticks \/ task[r].ticks = {} THEN "true" ELSE "false"

Verdict(r, c) == IF c \in task[r].ticks THEN "true" ELSE "false"

Outcome(r) ==
    IF \E c \in DOMAIN task[r].loaded : Verdict(r, c) = "true" THEN "approved" ELSE "rejected"

\* The commit updates the columns whose values are not the ones loaded.
SaveReview(r) ==
    /\ Take(r, "deciding", [NoWork EXCEPT !.at = "done"])
    /\ approval' = [c \in DOMAIN approval |->
            IF Verdict(r, c) # task[r].loaded[c] THEN Verdict(r, c) ELSE approval[c]]
    /\ workflow' = Outcome(r)
    /\ trail' = Append(trail, <<task[r].shown, Outcome(r)>>)
    /\ endorsed' = endorsed \cup (task[r].ticks \cap DOMAIN approval)
    /\ UNCHANGED <<objects, files, changes>>

-----------------------------------------------------------------------------

BeginMaterialize(r) ==
    /\ workflow = "approved"
    /\ Take(r, "idle", [NoWork EXCEPT !.at = "materializing"])
    /\ UNCHANGED <<workflow, approval, trail, objects, files, changes, endorsed>>

LoadForMaterialize(r) ==
    /\ Take(r, "materializing",
            [task[r] EXCEPT !.at = "writing",
                            !.todo = { c \in DOMAIN approval : approval[c] = "true" }])
    /\ UNCHANGED <<workflow, approval, trail, objects, files, changes, endorsed>>

Written(c, a) == [files EXCEPT ![c] = a]

\* One candidate: its object is flushed, and its file is written at once.
WriteAsset(r, c) ==
    LET a == [candidate |-> c, by |-> r]
    IN  /\ c \in task[r].todo
        /\ Take(r, "writing", [task[r] EXCEPT !.todo = @ \ {c}, !.made = @ \cup {a}])
        /\ files' = Written(c, a)
        /\ UNCHANGED <<workflow, approval, trail, objects, changes, endorsed>>

\* The rest of materialize, which ends in the commit.
Propose(r) ==
    /\ task[r].todo = {}
    /\ Take(r, "writing", [NoWork EXCEPT !.at = "done"])
    /\ objects' = objects \cup task[r].made
    /\ workflow' = "commit_proposed"
    /\ trail' = trail \o Delivery
    /\ changes' = changes \cup {[by |-> r, proposes |-> task[r].made]}
    /\ UNCHANGED <<approval, files, endorsed>>

\* The process or the database stops, or the disk is full: the transaction is
\* rolled back, and what was written to the repository stays.
FailInWorkflow(r) ==
    /\ r \in AtWork
    /\ Take(r, task[r].at, [NoWork EXCEPT !.at = "done"])
    /\ UNCHANGED <<workflow, approval, trail, objects, files, changes, endorsed>>

WorkflowNext ==
    \E r \in Workers :
        \/ \E cs \in SUBSET Candidates : CreateWorkflow(r, cs) \/ BeginReview(r, cs)
        \/ LoadForReview(r)
        \/ SaveReview(r)
        \/ BeginMaterialize(r)
        \/ LoadForMaterialize(r)
        \/ \E c \in Candidates : WriteAsset(r, c)
        \/ Propose(r)
        \/ FailInWorkflow(r)

WorkflowSpec == WorkflowInit /\ [][WorkflowNext]_workflowVars

------------------------------------------------------------------------------
(***************************************************************************)
(* What the workflow promises of the assets it lets into the repository.   *)
(***************************************************************************)

\* The steps the history may record.
Steps ==
    { Intake[i] : i \in DOMAIN Intake } \cup { Delivery[i] : i \in DOMAIN Delivery }
        \cup ({"review_required"} \X {"approved", "rejected"})

\* Every variable has its type; the history records steps of the lifecycle only,
\* whatever two requests did to the same workflow.
WorkflowTypes ==
    /\ workflow \in {"absent", "review_required", "approved", "rejected", "commit_proposed"}
    /\ DOMAIN approval \subseteq Candidates
    /\ \A c \in DOMAIN approval : approval[c] \in Verdicts
    /\ \A i \in DOMAIN trail : trail[i] \in Steps
    /\ objects \subseteq Asset
    /\ files \in [Candidates -> Asset \cup {NoAsset}]
    /\ changes \subseteq [by : Workers, proposes : SUBSET Asset]
    /\ task \in [Workers -> [at : {"idle", "reviewing", "deciding", "materializing",
                                   "writing", "done"},
                             ticks : SUBSET Candidates,
                             loaded : UNION { [D -> Verdicts] : D \in SUBSET Candidates },
                             shown : {"absent", "review_required"},
                             todo : SUBSET Candidates,
                             made : SUBSET Asset]]
    /\ endorsed \subseteq Candidates
    /\ crowded \in BOOLEAN

(***************************************************************************)
(* "Created after explicit human review" (the notice in every file):       *)
(* however reviews and materialisations overlap, fail and are repeated,    *)
(* no object and no file is about a candidate that nobody ticked.          *)
(***************************************************************************)
NothingUnseenIsKept ==
    /\ \A a \in objects : a.candidate \in endorsed
    /\ \A c \in Candidates : files[c] # NoAsset => c \in endorsed

(***************************************************************************)
(* Requests that do not overlap leave the asset whole, failures and        *)
(* repetitions included: the history is one path to the present state;     *)
(* once proposed, each approved candidate has exactly one object, which    *)
(* is the one its file is about and the one the only proposal lists, and   *)
(* no other candidate has any.                                             *)
(***************************************************************************)
IsPath ==
    /\ trail # <<>> => trail[1][1] = "received" /\ trail[Len(trail)][2] = workflow
    /\ \A i \in 1 .. Len(trail) - 1 : trail[i][2] = trail[i + 1][1]

Approved == { c \in DOMAIN approval : approval[c] = "true" }

Proposed == UNION { x.proposes : x \in changes }

LoneWorkIsWhole ==
    ~ crowded =>
        /\ IsPath
        /\ workflow = "approved" => Approved # {}
        /\ workflow \in {"rejected", "review_required"} => Approved = {}
        /\ workflow # "commit_proposed" => objects = {} /\ changes = {}
        /\ workflow = "commit_proposed" =>
            /\ Cardinality(changes) = 1
            /\ objects = Proposed
            /\ objects = { files[c] : c \in Approved }
            /\ { a.candidate : a \in objects } = Approved

\* The repository receives what a reviewer ticked: nothing else ever, and all
\* of it, once, where requests took turns.
AssetsAreWhatWasReviewed == NothingUnseenIsKept /\ LoneWorkIsWhole
==============================================================================
