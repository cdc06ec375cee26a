# A verification project for SRIS

SRIS is a FastAPI service with SQLAlchemy sessions over PostgreSQL: missions
(decision cases of an organisation), assisted analyses of them by a language
model under an organisational budget, dialogues, review, learning, identity and
a pilot product with a prepaid wallet. This directory holds TLA+ modules of its
core, TLC configurations that check them on small instances, and TLAPS proofs.

## 1. Inventory

Every handler runs in a worker thread with a database session of its own. The
handlers of one organisation interact only through rows; what protects them is
a row lock (`with_for_update`), a unique key, or nothing. Two settings of
`atlas_platform/database.py` shape everything: `expire_on_commit=False` keeps
objects alive, and unrefreshed, across commits, and `autoflush=False` keeps
queries from seeing what the session has not flushed.

| part | state | operations | what is hard | what makes it correct |
|---|---|---|---|---|
| AI governance, `mission_intelligence/governance.py` | policy row, monthly period rows, usage events | reserve, exact count, settle, expire, update policy, view | three transactions around a slow call; expiry by somebody else; stale policy object; month end; crashes | counters equal the ledger, each allowance ends once, limits hold |
| analysis and dialogue handlers, `service.py`, `dialogue_service.py` | runs, sessions, turns, proposal reviews | run, start or resume, turn, review | a provider call of minutes between reads and writes | turns numbered without gaps, a turn belongs to the snapshot it was asked about |
| missions, `portfolio.py`, `service.py` | mission rows, revisions, parent links | create, update, save document | optimistic revisions without a lock, tree checks on a committed snapshot | no lost edit, complete history, a tree of bounded depth |
| attachments and archive, `attachments.py`, `mission_archive.py` | files, chunks | upload, delete, index, rank | check-then-insert, delete against use | no duplicate, no dangling citation, chunks cover the text |
| identity, `atlas_platform/identity.py`, `api.py` | users, memberships, invitations, reset and recovery tokens | invite, resend, revoke, accept, reset, recover | one-use tokens, resend after revoke, mail that is lost | a token works once, a changed password ends old sessions |
| knowledge workflow, `workflow_service.py` | assets and their files | receive, normalise, classify, review, materialise | files before commit, no locks | the repository receives what a reviewer ticked |
| learning lineage, `learning_lineage.py`, `learning_api.py` | packets, reviews, inherited copies inside documents | publish, review, inherit, decide again | republication under old reviews; a document rewritten by two | what is published was accepted; a mission holds what was decided about a learning |
| memory and views, `memory_api.py`, `evolution_api.py` | items and links per record; nothing | synchronise, supersede; compute | a synchronisation that overlaps edits and others; the order of what is read | an item shows the revision it names; views do not depend on order |
| guided reasoning, `api/experience.py` | one session of answers | answer, edit, confirm, reuse | rows read, tested and written without a lock | objects are made of what was said |
| evidence and retrieval, `evidence_graph.py`, `hybrid_retrieval.py` | nodes, edges, embeddings | synchronise, curate, retrieve | judgements beside synchronisation, deletion, a batch that fails | evidence and rulings stand; a ranking is of the texts that are there |
| window and answer, `interactive.py`, `context_selection` in `mission_archive.py` | none between calls | select, cut, retry smaller, repair, validate, calibrate | limits that compete; repairs that may promote | selected files are carried; an answer is not made more of |
| deterministic report, `engine.py` | none | analyse a document | scores, thresholds, a graph with cycles | a better record is never told the worse for it |
| pilot wallet, `pilot_intelligence.py`, `pilot_product.py` | wallet, wallet ledger | ask, top up, bootstrap | a lock released before the debit, table locks of schema statements, deadlocks | the balance is the sum of its ledger, nobody spends more than there is |
| pilot accounts and limiter, `pilot_operations.py` | account state, sliding windows | activate, deactivate, admit a call | a restart empties the windows; a state changed while others hold the account | a deactivated account's sessions end, a window never overfills |

### How the project is laid out

Each part has a module with its state, its actions and, at the end or in a
`...Properties` module, what it promises. Four instances compose them for TLC:

| instance | what it puts together |
|---|---|
| `MCAIGovernance`, `MCMissionPortfolio`, `MCPilotWallet` | one part each: sections 2, 3 and 5 |
| `MCTurns` | what a turn of a dialogue goes through: sections 4 and 6 |
| `MCPlatform` | accounts, invitations, limiter, evidence, retrieval, published learning: section 7 |
| `MCKnowledge` | what an organisation keeps of its missions: section 8 |

The parts of the last three share no variable in the code either: they touch
different tables, and where one reads what another wrote, the reading part has
the writer's effect as an action or a choice of its own (`Edit`, `Delete`,
`DeleteDocument`, the documents of a report). Their specification therefore
moves one part, chosen at the start by `part`, while the others rest where they
began. The states add up and do not multiply; a product of independent parts
would show nothing more of any of them. `Parts` names the parts that may be
chosen, so a single one can be run alone.

Every model name (`h1`, `x1`, `y2`, ...) stands for any request, person or
record; the symmetry of a configuration permutes only names that occur in no
`CHOOSE` and no order.

## 2. The AI budget

### How it works

A handler that wants the model's help goes through four transactions, each
committed before the next begins: `reserve_ai_usage`, `apply_exact_input_count`
(when the provider can count tokens), `settle_ai_usage` after the provider
call, and the commit of the `IntelligenceRun` that links the usage event. Each
of the first three locks the organisation's policy row first, so they are
mutually atomic; everything may happen between them. Reservations older than a
TTL are expired, but only by the next `reserve_ai_usage` of the same month that
succeeds, since a refusal rolls the expiry back.

### Modules

| module | what it is |
|---|---|
| `AIPricing` | `estimate_cost_microusd`: integer prices, rounded up twice |
| `LedgerSums` | the sum of a natural-valued function over a finite set, as a cardinality, so that its laws can be proved without induction |
| `AIGovernance` | the state machine: policy, monthly periods, ledger, handlers, clock |
| `AIGovernanceProperties` | what the budget promises, and claims of its documentation |
| `UsageEscrow` | the abstract specification: allowances granted, spent or released |
| `MCAIGovernance` | instances for TLC |
| `LedgerSumsProofs`, `AIGovernanceProofs` | theorems |

`AIGovernance` corresponds to the code as follows.

* `policy`, `period` and `ledger` are the tables `mi_ai_organization_policies`,
  `mi_ai_usage_periods` and `mi_ai_usage_events` of one organisation. A handler
  reserves at most once, so its event is `ledger[request]`. The period is a row
  per month of request count, active reservations, and reserved and used
  amounts; an amount has the dimensions input, output, web searches and cost.
* `pc` is where a handler is between its transactions; `ctx` is what it holds
  until it reserves: the policy object, what its prompt asks for, and the time
  `reserve_ai_usage` took before it waited for the lock (`Enter`).
* `PolicyHeld` models the session's identity map: a handler that read a policy
  row gets that object back from the locking query, with its old values. A
  handler that found none reads the row as it is.
* `Reserve` contains expiry, the quota check and the insert; `Refuse` is the
  rollback that undoes the expiry; `CallProvider` contains the exact count;
  `Settle` the charge; `RejectSettlement` the `RuntimeError` for an event that
  is no longer reserved; `Record` the run; `Crash` the end of a handler between
  two transactions.
* Amounts are unbounded integers, as in Python; the columns are wide enough for
  every limit the API accepts.

Abstracted: the prompt (an ask is a record of counts), the provider (an outcome
is reported usage or none, accepted or not), audit rows, `total_tokens` and the
cached-token columns, and prices that change while a call runs (each event
keeps a snapshot, so one price list stands for all). The retries of the HTTP
client lie inside one outcome.

### Runs

All runs take a clock of four ticks, months of three ticks and a TTL of one, so
a reservation can be fresh, stale, and stale in the month before, and both
boundaries fall between any two transactions. The price list has coprime small
rates and scales, so that both roundings show. One outcome reports more input
than was reserved, one reports nothing; exact counts are none and one that is
smaller than the reservation.

| run | question | instance |
|---|---|---|
| `governance` | do counters, ledger, admission and escrow agree in every interleaving? | 3 handlers (symmetric), an owner moving between a policy of two concurrent calls and an enforcing policy of one; 540,423 states |
| `governance_ceiling` | are enforced monthly limits kept, does the page agree with the next reservation, and does every handler give back what it holds? | 2 handlers, 2 asks, 3 outcomes, fairness; 94,714 states |
| `governance_uncharged` | is every finished call charged? No. | violation |

Three handlers are enough for one to expire another's reservation while a third
waits at the limit; two handlers reach every pairwise race.

Fairness: `FairSpec` asks that a handler which has been started takes its next
step. The code justifies it because every wait has a time-out (the client
time-outs of `ai.py` and `interactive.py`; the database lock is held by short
transactions only). No user is forced to send a request, and a crash stays
possible, so `HandlersReleaseCapacity` excuses crashed handlers.

### What the runs found

A provider answer later than the TTL is never charged (`governance.py:542`),
while the documentation keeps consumption entirely accounted for.

Some more facts hold by the way the code is built. A policy is read without a
lock first, and the locked query gives the session's old object back, so an
owner's `enabled=false` does not stop a handler that read the policy before
(`governance.py:190`); `AdmissionFollowsLedger` therefore speaks of the policy
a handler holds. Two owners who save the first policy of an organisation at
once meet on its unique key, and one gets a server error (`governance.py:672`).
A crash between the settlement and the run row leaves a charged event without a
run (`service.py:495`), for which the ledger is right and the list of runs is not.
The page (`governance_view`) counts stale reservations, so after a crash it can
go on discouraging a user whom the next reservation would let in;
`PageAgreesWithReserve` states the agreement with exactly this exception. And
the limit on concurrent calls bounds reservations, not calls: a call that
outlives its reservation or its month no longer counts.

### Proofs

The proofs assume only `PricingAssumption` (natural rates, positive scales) and
`GovernanceAssumption` (finitely many requests, policies and asks with natural
limits); they hold for any number of requests, any clock, TTL and month length.

`CountersMatchLedger` is not inductive alone. The exact count subtracts without
a clamp, so the counters stay natural only because a smaller count never costs
more (`EstimateCostMonotonic`), and that needs the reservation to be the price
of its own token counts. A new reservation changes the sums by exactly itself
only because its handler had no event before. Hence

    Inv == TypeOK /\ CountersMatchLedger
              /\ NoEventBeforeReservation /\ ReservationsArePriced

`SpecInv` proves it inductive, one lemma for each action that moves the sums
(`ReserveCounts`, `RecountCounts`, `SettleCounts`), over the laws of `Total` in
`LedgerSumsProofs`. From it follow `SpecTypeOK`, `SpecCountersMatchLedger`,
`SpecLedgerIsAppendOnly`, and `SpecAdmissionFollowsLedger`, whose kernel is
`ReclaimedMatchesLedger`: expiry leaves exactly the sums of the live
reservations, so `max(0, ...)` never cuts anything off. `SpecEscrow` shows the
refinement of `UsageEscrow` step by step, and `SpecWithinCapacity` draws the
capacity bound from it.

The two invariants of the run `governance_ceiling` follow as well.
`SpecPageAgreesWithReserve` compares the page's decision with the next
reservation's, dimension by dimension: both read the same counters, and differ
by what is expired first. `SpecMonthlyCeiling` needs to know how an amount came
to be spent. Its invariant splits a month's used amount into what was within
reservations and what a provider reported beyond them, and says that reserved
amounts and the former stay within the largest policy, as long as every policy
an owner may save enforces its limits; `Policies # {}` is its only assumption
beside the named ones.

`HandlersReleaseCapacity` is liveness under fairness, out of the prover's reach,
and stays with TLC; what it needs of safety is proved. `SpecHandlersMoveOn`: no
handler returns to a stage it has left. `SpecCapacityIsReturnable`: what is
reserved is held by a handler that has yet to call or to settle, and whose
settlement will not be rejected, or by one that crashed. It needs that a policy
once saved stays, so that the one a handler holds (`PoliciesStay`) was and is
the organisation's.

## 3. Missions and their tree

### How it works

Four kinds of request write a mission: `create_mission`, `update_mission`,
`persist_mission` (an analysis, or the start of a dialogue) and the learning
routes' `_persist_document`. None locks a row. A request reads the row, later
writes the whole document back with the revision after the one it read, and
inserts a history row of that revision in the same transaction. Two unique keys
decide races: a code per organisation, a revision per mission. Updates and
learning reviews also send the revision their user saw (`expected_revision`); an
analysis does not. Creates and updates check the place of the mission in the
tree, one ancestor per query, then the levels below it in one query.

### Modules

| module | what it is |
|---|---|
| `MissionPortfolio` | the state machine: rows, history, and each handler between its queries |
| `AtomicEditing` | the abstract specification: every edit happens at once on the present document |
| `MissionPortfolioProperties` | what the missions promise, and a claim of the documentation |
| `MCMissionPortfolio` | instances for TLC |
| `MissionPortfolioProofs` | theorems |

* `mission` is `mi_missions` of one organisation, indexed by code, revision 0
  where there is no row; `history` is `mi_mission_revisions`. A document is its
  text fields and the parent its metadata names; the row keeps the parent a
  second time, in a column that only create and update write (`Placed`).
* `View` is the page a user opens, whose revision the form sends back.
  `ReadForUpdate`, `ReadForLearning`, `ReadForAnalysis` and `ReadForCreate` are
  the first query of each kind; `Climb` is one turn of the loop of
  `_validated_parent`, `Measure` its `_descendant_height`; `Name` chooses and
  checks a code; `Write` is the transaction. `Refuse...` are the errors the code
  raises, `FailOnKey` the `IntegrityError` of a unique key.
* `Init` is any sound tree whose missions are in their first revision: the
  history before is of no use to the requests that follow.
* Every request is served once, so behaviours end, and the runs do not check
  deadlock.

Abstracted: an edit sets one field to one value (several fields, or an appended
learning record, are one field here); priority, domain and other columns copied
from the request; audit rows.

### Runs

| run | question | instance |
|---|---|---|
| `portfolio` | is an edit ever lost, or applied to another revision than the user saw? is the history complete? does one placement keep the tree sound? | 3 handlers and 3 missions (symmetric), all in the catalogue, one field of two values, 2 levels, every sound tree to start from; 726,950 states |
| `portfolio_cycle` | do two placements? No. | 2 handlers, 3 missions, 3 levels: too few for a chain to be too long without a cycle |

An edit that was merged differs from one that was overwritten because a field
and the place in the tree are two things to change, and three handlers let two
of them race while a third changes the row under both. Three missions and two
levels put a subtree below a parent, or a parent that has one, where the depth
of the place and the height of the subtree each exceed the limit alone.

The finding: two moves validate against the tree without each other, and both
commit (`portfolio.py:413`). `_lineage`, `_validated_parent` and
`_descendant_height` all keep a `seen` set, so a cycle does not hang them, but
the missions on it no longer hang below any top-level mission, and
`_validated_parent` refuses every parent taken from the cycle.

### Proofs

The proofs assume only `PortfolioAssumption`. The argument is that a handler
which passes the unique key holds the present revision (`WriterIsCurrent`): had
the row moved on, the complete history would already have the revision it is
about to write. For this the history must be complete, which in turn holds
because only current writers pass. Hence

    Inv == TypeOK /\ HistoryMatchesMissions
              /\ AbsentRowsAreBlank /\ HandlersHoldTheirRead

where `HandlersHoldTheirRead` says, for each stage of a handler, that the
revision it holds is one the row had, and that if the row has it still, its
document is one edit from the row's (`First`, `Later`). `ReadHolds` proves it of
every read, `WriteHolds` of every other handler's write, `WriteHistory` keeps
the history. From `EditingInvariant` follow `PortfolioTypes`,
`HistoryIsComplete`, `EditsAreOptimistic` and `NoEditIsLost`, the refinement of
`AtomicEditing`.

`OnePlacementIsSound` proves `LonePlacementKeepsTree` for trees of any shape and
depth. The ancestors of a mission are a chain `Above[k]`, its k-th parent; a
placement that climbs one ancestor per query holds a beginning of that chain,
and one that measures the levels below holds the missions of the next level.
While no other placement has written since, the tree it climbed is the tree it
writes into, so the new parent is not below the mission (no cycle), and the
depth of the place and the height of the subtree add up to at most the limit.
The induction over depth is one over the natural numbers, from the least
counterexample (`LeastNumber`).

## 4. Dialogues

### How it works

A dialogue session is opened on a snapshot of a mission: the hash of its
document at that moment. `run_interactive_turn` opens a session or resumes one
whose snapshot the mission still has, commits, reads the mission row again,
collects the attachments and the earlier turns for the prompt, calls the
provider under the budget of section 2, then locks the session row, takes the
next number, and stores the run and the turn in one transaction. Between these
transactions nothing is locked: the mission is edited, attachments are deleted,
other turns of the session end.

### Modules

| module | what it is |
|---|---|
| `MissionDialogue` | the state machine: the mission's hash, sessions, turns, attachments, and each handler between its steps |
| `MissionDialogueProperties` | what a dialogue promises |
| `MCTurns` | the instance for TLC, with the parts of section 6 |
| `MissionDialogueProofs` | theorems |

* `mission` stands for the mission row, a document being identified with its
  hash. `session`, `turns` and `files` are `mi_dialogue_sessions`,
  `mi_dialogue_turns` with their `mi_intelligence_runs`, and
  `mi_mission_attachments`. A request opens at most one session, which bears its
  name. `lock` is `SELECT ... FOR UPDATE` on a session row.
* `Open` and `Resume` end with the commit at `dialogue_service.py:520`;
  `Refresh` is the line after it; `Gather` the queries for the prompt, `Answer`
  the call, `Number` the locked query, `Store` the last transaction. A failed
  call is stored as a turn too, and is left out of later histories (`History`).
* `Refuse` is every end without a turn: role, configuration, attachments,
  budget. `Crash` is the end of a worker at any stage, and the `RuntimeError` of
  a settlement whose reservation has expired.
* `Edit` stands for every other writer of section 3. An `Open` that changes
  nothing in the row and is overtaken by an edit before it commits is an `Open`
  followed by that `Edit`.
* `CheckUnused` and `Delete` are the two halves of `delete_attachment`.
* Requests are served once, so behaviours end: the runs do not check deadlock.

Abstracted: the text of messages, answers and prompts, which of several
attachments was read first, and the status of a session, which no code moves
away from `active`. What enters the prompt and what becomes of the answer are
the parts of section 6.

### Run

The part `dialogue` of the run `turns`: 3 handlers and 2 snapshots (symmetric),
1 attachment, 870,972 of its states. Are turns numbered without gaps, told a
beginning of the dialogue, and about one snapshot? Three handlers give a session
with one stored turn and two that race for the next number. Two snapshots are
enough because the code only compares a hash with another, and an edit may put
an earlier text back.

Two facts beside the properties. The hash a turn records is read after the
check it should agree with (`dialogue_service.py:521`), so a session can hold a
turn that names a revision it did not analyse; `TurnsAnalyseOneSnapshot` is about
the document that is analysed. And `delete_attachment` looks for turns that use a
file before it deletes it, but not for those still with the provider
(`attachments.py:773`): a stored turn can then name a file that is gone, as the
comment there foresees for turns that failed.

### Proofs

The proofs assume only `DialogueAssumption`; they hold for any number of
requests, snapshots and attachments. The inductive invariant adds to the four
checked properties

* `LockedWhileStoring`: a session row is locked by a handler exactly while that
  handler stores a turn of the session, so at most one turn of a session has a
  number that is not yet stored;
* `HandlersHoldTheirTurn`: a handler's document is its session's snapshot, its
  history the answered turns up to some number, and its number, once it has
  one, the next of the session;
* `IdleHandlersOpenedNothing`, so that a session is opened once;
* `AsManyTurnsAsStored`: a turn for every request that ended with one. It bounds
  the numbers by the number of requests (`NumbersSuffice`), which the type
  invariant needs.

`NextNumber` shows that the maximum plus one is the cardinality plus one, and
`OneMore` that storing that number keeps a session numbered and changes no
beginning of it. There is one lemma for each action; `DialogueInvariant`
combines them, and `DialogueTypes`, `LockNumbersTurns`,
`TurnsAreToldABeginning` and `TurnsAnalyseTheirSnapshot` follow.

## 5. The pilot's wallet

### How it works

An organisation of the pilot pays its questions from a wallet, a balance beside
a ledger. Four endpoints reach it. `/ask` of `pilot_intelligence.py` reserves
the budget of section 2, reads the balance `FOR UPDATE`, calls the provider,
settles the budget, compares the charge with the balance it read, and debits.
`/ai/ask` of `pilot_product.py` does the same without the budget, in one
transaction. The top-up credits, and the profile page of `pilot_bootstrap.py`
creates what is missing. All but the first begin with statements that ensure
the schema, and create the wallet with its trial when there is none.

### Modules

| module | what it is |
|---|---|
| `PilotWallet` | the state machine: the wallet, the sums of its ledger, row and table locks, and each request between its statements |
| `PilotWalletProperties` | what the wallet promises, and a claim it does not keep |
| `MCPilotWallet` | instances for TLC |
| `PilotWalletProofs` | theorems |

* `wallet` is the row of `pilot_ai_wallets`. `trials`, `added` and `paid` are the
  entries of `pilot_ai_wallet_ledger`: a request writes at most one credit or one
  debit of its own, and may record the trial. They change only when a
  transaction commits; until then what a request will write is in `ctx`, which
  is why `Balance` adds the trial its own transaction has inserted.
* `row` is the lock of the wallet's row or, before there is a row, the unique key
  another insert waits for. `CreateWallet`, `ReadBalance`, `TopUp` and `Debit`
  take it; `Commit`, `Rollback` and `Settle` give it back. `Settle` does so
  because `settle_ai_usage` commits the session it was given.
* `tableLocks` are the locks of the ledger table, which all organisations share,
  so `Requests` may be thought of as the requests of several of them whenever
  one only ensures the schema. `CREATE INDEX IF NOT EXISTS` takes SHARE, `ALTER
  TABLE ... IF NOT EXISTS` takes ACCESS EXCLUSIVE, and an insert takes ROW
  EXCLUSIVE, all until the transaction ends, also when there is nothing to do.
  This is PostgreSQL's behaviour, not code of the repository, and so are the
  waits for a row and the deadlock detector (`FailInDatabase`); these
  definitions are marked external.
* `RefuseEmpty` and `RefuseCharge` are the two answers 402, `FailCall` the
  provider's errors, `Crash` the end of a worker at any statement. A request is
  served once, so behaviours end: the runs do not check deadlock, and
  `RequestsEnd` says that none stops in the middle.

Abstracted: tokens and prices (the provider's cost is a number of
micro-dollars, and `Charge` rounds it as the code does), the answer, the
interactions table, which nothing reads back, and the policy that the profile
page creates. The prices of a question are one pair `Rate / Scale`, though the
two kinds of question read different variables of the environment
(`SRIS_AI_RETAIL_MULTIPLIER`, `SRIS_AI_PRICE_MULTIPLIER`; the documentation
names the second only).

### Runs

| run | question | instance |
|---|---|---|
| `wallet` | does the balance equal its ledger, do simple questions pay from what there is, and does every request end? | 3 requests of any kind, trial 3, top-up 2, charges 1, 2 and 3, with and without a wallet at the start; 153,178 states |
| `wallet_overdraft` | is a question that costs more than the balance refused? No. | 2 requests |

Three requests give a creator, one that waits for the key and one that waits
for a table, and would give a cycle of three waits if there were one. Charges
of 1, 2 and 3 against 3 and 5 meet, exceed and just miss the balance; the cost
0 is charged one micro-euro, and the cost 2 is a half rounded up.

Fairness: a request that has begun takes its next step, for the reasons of
section 2 and because PostgreSQL ends a deadlock; nobody has to begin, and a
request has begun when it has the first table lock. The order in which
PostgreSQL queues the waiters of a table is left open: any of them may be next.

The finding: the settlement releases the row between the reading of the balance
and the debit (`pilot_intelligence.py:303`), so two governed questions can each
find enough and together overdraw the wallet. The debit itself is relative, so
nothing is lost and the balance remains the sum of the ledger.

The table locks are worth a remark. Two simple questions, or a question and a
top-up, that both hold SHARE can each keep the other's insert waiting: one
waits for the row and the other for the table, and one of them is aborted,
possibly after its call was paid. The trial is granted once for two reasons,
the key of the wallet and these locks, so neither is needed alone.

### Proofs

The proofs assume only `WalletAssumption`; they hold for any number of
requests, any trial, top-ups, costs and rates. `WalletMatchesLedger` is not
inductive alone: a commit moves the sums by what the request holds only if the
request had nothing in the ledger before. The inductive invariant adds, for
each request,

* `NothingWritten`: its entries are zero until it is done, and it has no amount
  or charge before the stage that computes them;
* `KindsKeepToTheirStages`;
* `CreatorsOwnTheKey`: who inserted the wallet holds its key, and there is no
  other wallet, until it ends;
* `SimpleAsksOwnTheRow`: a simple question holds the row from its reading to
  its commit, and the balance it read is still the balance.

`SparedHolds` shows that a request keeps its part while another moves, from
what `Spares` says of that step; `CommitKeepsInv`, `RollbackKeepsInv` and
`QuietKeepsInv` treat the three shapes of a step, and `StepKeepsInv` the
actions. `BalanceIsTheLedgersSum` and `SimpleAsksPayFromTheirBalance` follow.

`RequestsEnd` is liveness and stays with TLC, for three requests; what it needs
of safety is proved for any number. `RequestsGoForward`: a request leaves each
stage for a later one. `WaitsEnd`: only the holder of the wallet's row waits for
a table (`LocksAreInUse`), so of three requests that wait in a row two wait for
each other, and there is no cycle of more than two, which is what
`FailInDatabase` supposes; and while a request has not ended, one has what its
stage needs or is one of such a pair (`SomebodyMoves`, over the guards of
`Step`). A top-up has what it needs when the row is free, which supposes that
there is an amount to add. Fairness does the rest.

## 6. What a turn goes through

### How it works

Between `Gather` and `Store` of section 4 a turn passes through code that keeps
nothing in the database but the archive's index and the rulings on proposals.
The mission's files are indexed, excerpts of them ranked and cut to a window,
the dialogue's records ranked, the request retried with a smaller window, and
the answer repaired, validated, capped and checked before it is stored. What a
user then rules on its proposals is told to the next prompt.

### Modules

| module | code | what it is |
|---|---|---|
| `ContextWindow` | `mission_archive.retrieve_mission_archive`, `interactive.prepare_interactive_request`, `analyze_interactively` | excerpts are ranked, cut to four profiles, refused or sent, and sent again smaller |
| `GroundedTurns` | `interactive._mission_working_set` | which records of the mission a turn shows the provider, turn after turn |
| `AnswerReview` | `interactive`, from the response to the return; `contracts` | repair, validation, confidence ceiling, checks of what is cited |
| `TextChunks` | `mission_archive._chunk_ranges`, `hybrid_retrieval` | how a text is cut |
| `MissionArchive` | `mission_archive.index_archive_source` and its callers | who indexes a source, in batches, and who deletes it |
| `ProposalReviews` | `dialogue_service.review_dialogue_proposal`, `interactive` | rulings, their rows, and what of them a prompt is told |

* In `ContextWindow` an excerpt is a pair of a file and an ordinal, and its
  weight how many of the question's terms its file answers. `Matching` and
  `Opening` are the two queries, `Ranking` the merge that lets each file's best
  excerpt go before any file's second. Sizes are in units of a few hundred
  tokens. `Frames` is what the rest of a request takes in each profile:
  instructions, records, relations and the report. A smaller profile has limits
  that are no larger, but its frame may be: the report shows its alternatives
  whole, those of the selected records, or all of them when no alternative is
  selected (`interactive.py:829-838`, `875-877`). So a frame is any number for
  each profile. `Prepare` has the three outcomes of
  `prepare_interactive_request`; `TooLarge` is the only failure that is retried.
* In `GroundedTurns` a record has a static weight (kind and standing), and a
  question decides what it adds; the +80 for records the last two answers rested
  upon is the constant the property is about.
* In `AnswerReview` an identifier is the sequence of the suffixes it was given,
  and each action is one check, in the code's order, the first failure naming
  the end.
* `TextChunks` works on characters of three kinds, letters, line breaks and full
  stops. `Following` is the loop's next start, `Starts` the loop.
* In `MissionArchive` an indexer holds excerpts it has inserted and not
  committed; the unique key and the foreign key make others wait, as PostgreSQL
  does.
* In `ProposalReviews` a review looks its row up in one query and writes in
  another, only the columns that differ. `Told` is what fits into the prompt.

### Run

`turns`, 1,712,989 states, one part at a time: `dialogue` (section 4),
`window`, `review`, `archive`, `cutting`, `rulings`, `ground`.

| part | instance | why it is enough |
|---|---|---|
| `window` | 3 files with 1 or 5 excerpts, 3 excerpts retrieved, 1 image, 3 profiles that differ in every limit, frames that shrink with the profile or grow in the smallest, 3 budgets; 253,536 states | two files compete for the places of a third; every profile is both taken and passed over, a smaller one also for its frame |
| `review` | answers with up to 3 hypotheses, 3 sources on 2 pages under 2 identifiers, all changes of confidence; 224,725 | identifiers and pages can repeat independently, and a suffix can be taken already |
| `archive` | 2 uploads and 1 report, 2 indexers, batches of 2, texts of one and of three excerpts | two indexers of one source, and a deletion during either |
| `cutting` | every text of up to 7 characters, excerpts of 4, overlap 1; 3,280 | every position of the break relative to the middle and the end of an excerpt |
| `rulings` | 2 proposals, 2 reviewers, 2 requests, room for 2 rulings or 3 characters; 186,932 | one ruling can crowd out another, and two requests overwrite each other |
| `ground` | 3 records, 2 profiles, 3 turns, one edit of the document | the last two answers can be about different records, and a failed turn lies between |

What the parts show beyond the types:

* `SelectedFilesAreHonoured`: every request sent carries every file the user
  selected and fits the limit, and no retry carries more of the dialogue, the
  files and the images than the first request did; a turn is refused for its
  files only when no request could carry them. The whole of a retry may be larger
  than the first request, by what its frame has grown.
* `RepairIsConservative` and `ConfidenceIsEarned`: a repaired answer meets the
  contract, no claim rests on a page it did not cite or gains standing, and no
  new hypothesis is returned with more than low confidence unless a confirmed
  record supports it.
* `IndexIsWhole` and `ExcerptsLoseNothing`: the index of a source is empty or one
  request's whole cutting, and the excerpts of a text cover it.
* `RulingsAreHeard`: the next prompt is told the rulings made last.
* `ConversationsKeepTheirGround`: a record the last answers rested upon gives way
  only to records as much part of the conversation, or to one that answers at
  least two more of the question's terms.

Observations. The ceiling applies to a mission's own hypothesis only if the
answer declares `increased` (`interactive.py:1383`), so a change labelled
`unchanged` may name a higher confidence; `ConfidenceIsEarned` claims no more.
Three items `X`, `X`, `X_2` become `X`, `X_2`, `X_2_3`. A URL `HTTP://...`
passes the repair and not the contract. A selected file that is only partly read
always makes the turn refused. A smaller profile may show an alternative that a
larger one left out, because the shares of the kinds are taken separately. Two
overlapping re-reviews of a proposal can leave one reviewer's decision under the
other's name (`dialogue_service.py:1075`), since each writes only the columns it
changed; `RulingsStayWhole` therefore speaks of reviews of one proposal that do
not overlap. An overlap of exactly half an excerpt, which the guard `size // 2`
would admit, could nest an excerpt in the one before; the constants of the code
(360 of 3600, 280 of 2200) are far below, and `TextChunks` assumes less than half.

### Proofs

In `MissionDialogueProofs`, from the modules' named assumptions only. The parts
share no variable: a step of one leaves the others as they are, so each runs by
its own specification (`TurnsRunTheirParts`), and what is proved of the parts
holds of the composition the run checks (`TurnsKeepTheirPromises`).

* `SelectedFilesStay`: a finite set under a strict total order has its members
  in places 1, 2, ... without gaps (`PlacesAreFilled`). `Better` and `Sooner` are
  such orders (`BetterIsAnOrder`, `SoonerIsAnOrder`). If the texts selected are
  no more than the retrieval returns, the first excerpt of each is among the
  `Opening` (`SelectedTextsOpen`); its file's leader scores at least `Boost`,
  which no excerpt of another file reaches, so only leaders of selected files
  precede it (`SelectedTextsLead`), and the largest profile shows it
  (`NothingIsCrowdedOut`). `CarriedShrinks` compares two profiles: the sums
  of the newest turns, the whole and the clipped excerpts, each no larger in the
  smaller one. Nothing is assumed of the frames. `WindowInv` ties what is found, what fits and what was sent
  together.
* `TheConversationStays`: ranking is a total order in which a higher score means
  fewer records before it (`HigherMeansFewer`); a turn that runs holds the
  records most recent when it asked (`GroundInvariant`).
* `ArchiveStaysWhole`: an inserted and uncommitted source stays stored, its index
  is part of what the inserter replaces, and no two insert the same source.
* `NoTextIsLost`: the next start lies after the last and not after its end
  (`FollowingType`), so excerpts cover the text and end where it ends; `Starts`
  is a recursive function, whose values are reached from the least counterexample.
* `RulingsReachThePrompt`: the queue of rulings by age has no repetition, is of
  exactly the proposals with a row, and what is told is the newest that fit.

* `RepairsAreConservative` and `ReturnedConfidenceIsEarned`: both loops of the
  repair are recursive functions. After n items every name is taken once and
  every name there was still stands (`WellNamed`); among one more suffix than
  names one is free (`FreshName`). After n sources the kept have identifiers and
  pages of their own and an alias leads to a page its identifier stood for
  (`Sifted`), so a claim rests on pages it cited (`GroundedClaim`). Hence
  `RepairedAnswersAreValid` for an answer of any length, not only those the run
  enumerates. `ReviewInv`: the review works on nothing, or on the repair of what
  arrived, and past `Calibrate` on one whose items are `Earned`.
* `TurnsKeepTheirTypes` proves `TurnsTypes`. Most of it follows from the
  invariants above. That only a stored source has an index, however a deletion
  falls between an indexer's batches, is preserved only together with
  `ArchiveInv`, by which the source of an uncommitted excerpt cannot go
  (`StoredStaysIndexed`, `ArchiveStands`).

## 7. Accounts and the pilot

### How it works

Requests on one account, one invitation, or one table of the pilot overlap
without locking the row they decide by. What stops them is a one-use secret's
own row, a unique key, or the SHARE lock that `CREATE INDEX IF NOT EXISTS` at
the beginning of the pilot's handlers takes and holds to the commit. The last
is PostgreSQL's behaviour and not the code's intention; where a whole handler is
one step of a model, it is the reason, and the modules say so.

### Modules

| module | code | what it is |
|---|---|---|
| `AccountAccess` | `identity.py`, `api.py`, `pilot_product.py`, `pilot_product_secure.py`, `pilot_operations.py` | what changes a password or the state of an account, and which sessions it accepts |
| `Invitations` | `identity.py` | invitations and the memberships they lead to, with the mail task that follows the commit |
| `RateLimiter` | `pilot_operations.PilotRateLimitMiddleware` | sliding windows in a process that restarts |
| `EvidenceGraph` | `evidence_graph.py`, `pilot_intelligence.py`, `attachments.py` | answers recorded with their files, synchronised into claims and evidence, curated |
| `HybridRetrieval` | `hybrid_retrieval.py` | where the vectors of a ranking come from |
| `PilotLearning` | `pilot_decision_cycle.py`, `pilot_epistemic.py`, `learning_lineage.py` | from a completed cycle to a packet a target inherits |

* A request of `AccountAccess` reads the account, locks or only reads its
  secret, and writes the row it prepared: `auth_version` becomes what was read
  plus one. A session carries the version it was signed with. An era counts the
  changes, so that a session can be said to have outlived one.
* A call of `Invitations` reads, checks and commits; only the acceptance locks
  its row. `Deliver` is the background task with the token it was given,
  `LoseTasks` a restart.
* The clock of `RateLimiter` ticks in halves of a second, so rounding shows.
* An edition of `PilotLearning` is what the learning's node and its outcome's
  node say between two edits: the status and the wording of the one, the body of
  the other, which may be blank. `EditOutcome` and `Curate` are
  `update_graph_node` on either. A publisher reads the status, all nodes and all
  edges in three queries, and writes the packet when nobody else has begun.
* `EvidenceGraph` lets a synchronisation overlap deletions of files, which take
  no lock of the graph; `HybridRetrieval` lets it fail at every batch.

### Runs

`platform`, 2,276,060 states, one part at a time.

| part | instance | why it is enough |
|---|---|---|
| `access` | 2 requests, 2 links and 2 pilot links, a recovery key, an activation, 2 changes | two changes by two kinds of secrets overlap, and a second link revokes the first |
| `invitations` | 2 calls, 2 invitations, 2 tokens | resend or revoke against acceptance, create against create |
| `limiter` | 1 client, 2 requests in 6 ticks of half a second, clock to 12, 1 restart; 201,263 states | windows that overlap by part, and a restart inside one |
| `evidence` | 2 files, 2 questions, 1 manual entry | one file deleted during a synchronisation of answers that share it |
| `retrieval` | 3 chunks in 2 versions, 2 retrievals, batches of 2 | two batches, either failing, and a text replaced between them |
| `learning` | a learning that comes from a cycle or is typed in, 3 editions of its nodes, 2 publishers, 1 target; 203,224 states | an edit of either node between the status check, the reading of the nodes and that of the edges, and again before a second publication |

`access_sessions` is a violation: two changes of one account read the same
`auth_version` (`identity.py:757`), so a session signed between their commits
outlives the second. `LoneChangesEndSessions` holds while no change overwrites
one it has not read.

`DeadSecretsChangeNothing`: a secret that was used, revoked or replaced changes
nothing. `InvitationsAreKept`: an invitation is accepted as it was checked, and
never changes a member's role. `LimiterKeepsItsWord`: no window admits more than
the limit, once more per restart, and a client that waits as told is refused at
most once more. `EvidenceIsKept`: a synchronised answer keeps its files, and no
synchronisation resets a ruling. `RankingsAreSound`: distances are of exactly
the texts ranked, for all or for none. `PacketsAreFaithful`: what a packet shows
of a learning and of its outcome they showed together, in an edition no older
than one a human had accepted, the outcome only if an edge joins it; a packet
goes back to no earlier edition and does not lose an outcome it has shown; and a
mission is told no wording older than the one its disposition was given of.

Observations. `auth_version` may move backward with three overlapping changes;
two overlapping platform resets wait for each other and at most one commits; the
pilot's confirmations are serialised only by the lock of a schema statement
(`pilot_product.py:182`); a recovery or a pilot reset does not revoke the
platform's links. A resend after a revocation and a new invitation, or two
creates at once, leave two pending invitations; a revocation that races an
acceptance answers 204; a late mail task can record "sent" for a dead link; a
role change can demote somebody an owner promoted in between. `Retry-After` is
rounded down. Two retrievals with missing vectors end in a deadlock that makes
one of them rank by words; embeddings are paid outside the AI budget, and lost
if a later batch fails; without any match the last chunk is returned. The text
of an attachment is stored as ciphertext, which `hybrid_retrieval.py:144` and
`evidence_graph.py:351` read as it is. A rejected learning's packet stays
published. A rewording between the check of the status (`learning_lineage.py:120`)
and the reading of the nodes is published though nobody accepted it, so
`PacketsAreFaithful` speaks of an earlier edition; and the outcome may be edited
to a blank text, since a body needs no length (`evidence_graph.py:46`). A packet
that is written anew with another wording keeps its id and its dispositions
(`learning_lineage.py:287`), so a mission may be told a wording nobody reviewed
for it, only never an older one; the code says of itself, at lines 218 and 256,
that only what was reviewed may alter a mission's context.

### Proofs

In `PlatformProofs`; each from its module's assumption, and together from all of
them (`AccountsRunTheirParts`, `PilotRunsItsParts`, `PlatformStands`).

* `SessionsEndWithChanges`, `DeadSecretsStayDead`: `AccessInv`. While no change
  overwrites one it has not read, `auth_version` is the number of changes plus
  one and each session's version its era plus one. A link held by a reset is
  neither used nor revoked, because whoever could spend or replace it waits for
  the row's lock, and each lock has one holder.
* `LimiterStands`: `LimiterInv`. While a stretch of time is open, what passed in
  it plus the limit is at most one limit more than the restarts allow plus what
  the bucket holds of it; closing it costs at most the bucket. The bucket of a
  refused client is still full unless there was a restart.
* `InvitationsStand`, `EvidenceInvariant` and `EvidenceLasts`, `RetrievalIsSound`.
* `PacketsStayFaithful`: `LearningInv`. Editions are only added, so that a picture
  of one stays a picture (`PicturesStay`, `EditionAdded`), and what a publisher
  holds is such a picture, taken after a status was found reviewed and not before
  the packet that is there, since whoever wrote that one had the tables alone
  (`PublisherMoves`, `PacketWritten`). Edges stay, so an outcome once shown is
  shown again (`PacketsGrow`); and as a packet goes only forward, nobody has
  reviewed a wording it has not reached.
* `PlatformKeepsItsTypes` proves `PlatformTypes`. What the
  invariants above leave open is closed part by part: an invitation has counted
  one acceptance exactly if it is accepted (`AcceptancesAreCounted`); a bucket is
  the end of what its client got through with, and those instants are in order
  (`BucketsAreRecent`); a retrieval has written only vectors it holds
  (`WrittenIsHeld`); edges join nodes there are, and evidence is of documents an
  answer cites, what a running synchronisation has looked up included
  (`GraphIsGrounded`).

## 8. What an organisation keeps

### How it works

Documents of missions are read and rewritten whole; the memory's index, the
views and the reports are computed from them; knowledge assets and guided
sessions have rows of their own. None of the handlers locks. Two things are
relied on: the history's unique key, for documents, and that an update writes
only the columns that differ from what was loaded.

### Modules

| module | code | what it is |
|---|---|---|
| `InheritedLearning` | `learning_api.py` | learnings inherited as records of another mission's document |
| `OrganizationMemory` | `memory_api.py` | the index of records, its synchronisation and supersessions |
| `OrganizationalLearning` | `evolution_api.py` | learnings that recur across missions, and the debt of pending work |
| `KnowledgeWorkflow` | `workflow_service.py` | from received text to objects and files |
| `GuidedReasoning` | `api/experience.py`, `api/domain.py` | a session of answers, its confirmation, and the reuse of a learning |
| `MissionReport` | `engine.analyze_mission` | gaps, status, confidence and next steps of a document |

* `Persist` of `InheritedLearning` writes a document prepared from an earlier
  reading, unless the history already has the revision. A read validates, a
  write does not.
* A synchronisation of `OrganizationMemory` goes through `Order`, one item at a
  time (`Look`, `Put`), then joins relations (`Join`) and commits.
* The views of `OrganizationalLearning` are functions of the documents. The
  orders of missions and of records are constants, so a theorem holds for each;
  in the run, records are added in every order and to either mission.
* A worker of `KnowledgeWorkflow` reads the workflow, loads candidates by a
  second query and commits; `WriteAsset` is a file, written before the commit.
* `MissionReport` takes any document the contract admits. Its score is an exact
  fraction, whose comparison with the thresholds is the program's for the
  numbers of records considered.

### Runs

`knowledge`, 1,024,718 states, one part at a time.

| part | instance | why it is enough |
|---|---|---|
| `inheritance` | 2 missions, 2 learnings, 2 requests, 4 revisions | each mission decides about the other's learning while it is rewritten |
| `memory` | 2 missions of a record, 2 synchronisations, 1 curator, 3 revisions; 782,627 states | a synchronisation overlaps an edit, a supersession and another one |
| `views` | 2 missions, 6 records, a relation; 63,900 states | three learnings of which the outer two resemble only the middle one, spread over the missions in every way |
| `workflow` | 4 workers, 2 candidates | a review and a materialisation overlap, and each can fail |
| `guided` | 5 requests, 2 questions, 2 replies | an edit and two confirmations overlap |
| `report` | 13 links over 4 records, depth 2; 44,915 | a chain longer than the depth, and a cycle |

`inheritance_unreadable` is a violation: a second decision about an inherited
learning removes a record another learning is based on (`learning_api.py:548`);
the document is written, and no reader accepts it any more.

`InheritanceIsKept`: a mission holds exactly the copies its decisions call for,
and no other writer undoes a decision unseen. `ItemsShowTheirRevision`: while
synchronisations take turns an item shows one revision, whole, and the one it
names. `AssetsAreWhatWasReviewed`, `SessionsAreFaithful`: objects are made of
what was ticked or said, once where requests take turns. `ViewsAreSound`: a
pattern is a recurrence and the whole of it, and settling or relating records
adds nothing to the debt of a mission or of the organisation, a rounded mean. `ReportsAreSound`: a refutation puts up for review exactly
what lies within the depth, and a better record is never told the worse for it.

Observations. `memory_api.py:171` takes the record's state again at the next
synchronisation, which undoes a supersession; overlapping synchronisations mix
revisions, and two supersessions make two successors. Overlapping
materialisations make objects twice, and a failed one leaves files that name no
object; a late review can pull a proposed workflow back. A second confirmation
that overlaps the first makes the objects again, although
`docs/EXPERIENCE_ALPHA_V0_7.md` calls it idempotent, and a late answer reopens a
completed session (`app.main` mounts none of these routes today). Refuting an
assumption can raise the confidence of a decision, since it is no longer
untested; a high confidence needs no observation; and a gap of provenance can
stand beside the advice to submit for review.

### Proofs

In `KnowledgeProofs` and `OrganizationalLearningProofs`; each from its module's
assumption, and together from all of them (`MissionsRunTheirParts`,
`RequestsRunTheirParts`, `KnowledgeStands`).

* `InheritanceStands`: each page's copies are the union of the copies of its
  decisions, one decision for each learning (`PageStands`), and the document an
  undisturbed writer holds succeeds the present one.
* `MemoryShowsItsRevisions`: a synchronisation holds the documents as they were
  when it began, and has written the places before its own; while none overlaps
  another, every item shows one revision (`Shown`) and no two are mixed.
* `AssetsStayReviewed`: what is approved, to be written or written is part of
  what a reviewer ticked (`SeenInv`); without overlaps what there is and what is
  to be done make up what was approved.
* `SessionsStayFaithful`: each row and each request stand alone (`RowStands`,
  `VisitStands`), and where none is mingled each lone session is whole.

* `ReportsStaySound`: the records within n relations of a refuted assumption are
  a recursive function of n (`Spread`). The queue holds records of one distance,
  then of the next; all of the first distance have been found, and each record
  found is either still queued or all it touches is found (`SearchInv`). So an
  empty queue means that exactly what lies within the depth is found, whichever
  path was taken first (`SearchEnds`). For a better record, each of the ways it
  can have become better makes it no worse in anything the report reads
  (`BetterIsNoWorse`), and gaps, status, factors and the weighted score, compared
  without dividing, follow each of these in one direction (`GapsStand`,
  `StatusStands`, `FactorsStand`, `ReachesStands`). `ReportInv` says that a report
  is the one of its document.

* `ViewsStaySound`: a learning of the forest has a root, and a height that falls
  on the way up to it (`Rooted`). Halving a path keeps both, and heights stay
  below the number of learnings, so `Find` reaches the root in the steps it has
  (`FindFinds`); a union gives the learnings of one root the other
  (`UnionMerges`), so two learnings have one root exactly if every set closed
  under resemblance that holds the one holds the other. Every pair is met
  (`EveryPairIsTaken`), and chains close after as many rounds as there are
  learnings (`ReachIsComplete`). What is settled or related leaves every set that
  is counted as a debt as it was or smaller (`SettlingPays`); sums of smaller
  debts are no larger (`SumsAreOrdered`), and rounding, a half to the even
  neighbour, keeps that order (`MeansAreOrdered`, `PortfolioPays`).
* `KnowledgeKeepsItsTypes` proves `KnowledgeTypes`, part by part. A copy came
  through one mission and no decision is about a revision its source has yet to
  reach, because documents are replaced by later ones only (`InheritBounds`,
  `TypedStaysTyped`). A review under way was begun when one was due, so that the
  history records steps of the lifecycle (`WorkBounds`). Relations join records
  of their document (`JoinsRecords`). The portfolio's debt is a rounded mean of
  percentages: a sum of n of them, taken apart one by one, is at most 100 n
  (`PercentagesAdd`), and what is rounded from at most 100 n over n is at most
  100 (`MeansAreBounded`). The count of reuses a request has read is at most the
  number of requests (`GuidedBounds`); this compares with a cardinality, and so
  supposes that the requests are finitely many (`IsFiniteSet(Visits)`), as those
  a server has been sent are.

## 9. What is model-checked only, and why

* Liveness under fairness: `HandlersReleaseCapacity`, `RequestsEnd`. That there
  are steps to take, and finitely many, is proved (sections 2 and 5); that they
  are taken is not.
* The five claims that are violated.

Every other property of a passing run is stated by a theorem.

Induction over the natural numbers is available, and used, as the least
counterexample of a property (`LeastNumber`), and a recursive function as the
choice of one that satisfies its equation, once there is one.

## 10. What is not modelled

* Routes, audit rows, HTTP, serialisation, prompt texts, migrations, scripts and
  frontends: input and output.
* Delivery of mail beyond its one task: an external service.
* AMOS, the agent, the chat bridge and the Atlas engines: programs of their own
  beside the missions, most of them reading files of the repository.
* `ske/lifecycle.py`: consulted by its tests and by no route.
* Of `evolution_api.py`: related missions with their limit of eight, the advice
  of the preflight, knowledge decay, contradictions, the learning graph (lines
  474 to 556) and the dashboard.
* Names that are not there: `dialogue_service.py:684` raises `AttachmentError`,
  which the module does not import (lines 12 to 17), so the refusal meant there
  ends as an internal error. No property is about it.
* Encryption, parsing of files and the encrypted search index of attachments.
* The review of a run (`service.review_run`), where two overlapping reviews both
  pass the check; it is one read and one write without further state.

`PROJECT.json` says of each component what is left out, and lists the hazards
with the properties that are about them.
