----------------------------- MODULE PilotWallet -----------------------------
(***************************************************************************)
(* The prepaid wallet of one organisation of the pilot.  Requests of four  *)
(* kinds reach it: a governed question (pilot_intelligence), which settles *)
(* the AI budget between reading the balance and debiting it; a simple     *)
(* question and a top-up (pilot_product), each one transaction; and the    *)
(* profile page (pilot_bootstrap), which creates what is missing.          *)
(*                                                                         *)
(* What a transaction writes is kept in ctx until it commits.  PostgreSQL  *)
(* holds a row lock, and the table locks of the CREATE INDEX and ALTER     *)
(* TABLE statements that "ensure" the schema, until the transaction ends,  *)
(* and aborts a transaction of a cycle of waits.                           *)
(***************************************************************************)
EXTENDS Integers, LedgerSums

CONSTANTS
    Requests,
    Nobody,     \* the holder of a free row
    Trial,      \* SRIS_TRIAL_CREDIT_EUR, in micro-euros
    Amounts,    \* what a top-up may add
    Costs,      \* what the provider may cost, in micro-dollars
    Rate, Scale \* euros a customer pays for a provider's dollar: Rate / Scale

ASSUME WalletAssumption ==
    /\ IsFiniteSet(Requests)
    /\ Nobody \notin Requests
    /\ Trial \in Nat
    /\ Amounts \subseteq Nat
    /\ Costs \subseteq Nat
    /\ Rate \in Nat
    /\ Scale \in Nat \ {0}

VARIABLES
    wallet,     \* pilot_ai_wallets
    trials,     \* pilot_ai_wallet_ledger: how often the trial was granted,
    added,      \* what each request was credited,
    paid,       \* and what it was debited
    row,        \* who has the wallet's row, or its key before the row is there
    tableLocks, \* what each request holds of the ledger table
    pc,
    ctx         \* a request's kind, the balance it read, and what it writes

vars == <<wallet, trials, added, paid, row, tableLocks, pc, ctx>>

Kinds == {"governed", "simple", "topup", "profile"}

Modes == {"share", "insert", "alter"}

NoContext ==
    [kind |-> "profile", balance |-> 0, grants |-> FALSE, amount |-> 0, charge |-> 0]

Ended == {"idle", "done", "refused", "failed"}

Init ==
    /\ wallet \in {[exists |-> FALSE, credit |-> 0], [exists |-> TRUE, credit |-> Trial]}
    /\ trials = (IF wallet.exists THEN 1 ELSE 0)
    /\ added = [h \in Requests |-> 0]
    /\ paid = [h \in Requests |-> 0]
    /\ row = Nobody
    /\ tableLocks = [h \in Requests |-> {}]
    /\ pc = [h \in Requests |-> "idle"]
    /\ ctx = [h \in Requests |-> NoContext]

ledger == <<trials, added, paid>>

\* _retail_charge_microeur, _customer_charge_microeur: half up, at least one.
Charge(cost) ==
    LET eur == (2 * cost * Rate + Scale) \div (2 * Scale)
    IN  IF eur < 1 THEN 1 ELSE eur

-----------------------------------------------------------------------------
(***************************************************************************)
(* Transactions.                                                           *)
(***************************************************************************)

Goto(h, from, to) ==
    /\ pc[h] = from
    /\ pc' = [pc EXCEPT ![h] = to]

Compatible(m, n) == m = n /\ m # "alter"

CanLock(h, m) ==
    \A g \in Requests \ {h} : \A n \in tableLocks[g] : Compatible(m, n)

Lock(h, m) ==
    /\ CanLock(h, m)
    /\ tableLocks' = [tableLocks EXCEPT ![h] = @ \cup {m}]

RowFree(h) == row \in {Nobody, h}

Granted(h) == IF ctx[h].grants THEN Trial ELSE 0

\* Mutant: the balance the request read is written back, less the charge.
NewCreditFromRead(h) ==
    IF ctx[h].charge > 0 THEN ctx[h].balance - ctx[h].charge
    ELSE wallet.credit + Granted(h) + ctx[h].amount

\* credit_microeur - :charge, or + :amount, in the database.
NewCredit(h) == wallet.credit + Granted(h) + ctx[h].amount - ctx[h].charge

\* Mutant: the session is not closed.
ReleaseNothing(h) == UNCHANGED <<row, tableLocks>>

\* The end of a transaction, or of its session, gives back what it locked.
Release(h) ==
    /\ row' = (IF row = h THEN Nobody ELSE row)
    /\ tableLocks' = [tableLocks EXCEPT ![h] = {}]

Commit(h) ==
    /\ wallet' = [exists |-> TRUE, credit |-> NewCredit(h)]
    /\ trials' = (IF ctx[h].grants THEN trials + 1 ELSE trials)
    /\ added' = [added EXCEPT ![h] = ctx[h].amount]
    /\ paid' = [paid EXCEPT ![h] = ctx[h].charge]
    /\ pc' = [pc EXCEPT ![h] = "done"]
    /\ Release(h)
    /\ UNCHANGED ctx

Rollback(h, to) ==
    /\ pc' = [pc EXCEPT ![h] = to]
    /\ Release(h)
    /\ UNCHANGED <<wallet, ledger, ctx>>

-----------------------------------------------------------------------------
(***************************************************************************)
(* A wallet for the organisation.                                          *)
(***************************************************************************)

\* _ensure_pilot_schema, whose CREATE INDEX IF NOT EXISTS locks the ledger for
\* sharing, and _pilot_tables, whose ALTER TABLE locks it altogether.
BeginEnsuring(h, kind) ==
    /\ kind # "governed"
    /\ Goto(h, "idle", "ensured")
    /\ Lock(h, IF kind = "profile" THEN "alter" ELSE "share")
    /\ ctx' = [ctx EXCEPT ![h].kind = kind]
    /\ UNCHANGED <<wallet, ledger, row>>

Look(h) ==
    /\ Goto(h, "ensured", IF wallet.exists THEN "ready" ELSE "creating")
    /\ UNCHANGED <<wallet, ledger, row, tableLocks, ctx>>

\* INSERT INTO pilot_ai_wallets waits for an insert of the same key.
CreateWallet(h) ==
    /\ Goto(h, "creating", IF Trial = 0 THEN "ready" ELSE "granting")
    /\ ~ wallet.exists
    /\ RowFree(h)
    /\ row' = h
    /\ ctx' = [ctx EXCEPT ![h].grants = TRUE]
    /\ UNCHANGED <<wallet, ledger, tableLocks>>

GrantTrial(h) ==
    /\ Goto(h, "granting", "ready")
    /\ Lock(h, "insert")
    /\ UNCHANGED <<wallet, ledger, row, ctx>>

ShowProfile(h) ==
    /\ pc[h] = "ready"
    /\ ctx[h].kind = "profile"
    /\ Commit(h)

\* pilot_test_topup: UPDATE takes the row.
TopUp(h, amount) ==
    /\ Goto(h, "ready", "recording")
    /\ ctx[h].kind = "topup"
    /\ RowFree(h)
    /\ row' = h
    /\ ctx' = [ctx EXCEPT ![h].amount = amount]
    /\ UNCHANGED <<wallet, ledger, tableLocks>>

-----------------------------------------------------------------------------
(***************************************************************************)
(* Questions.                                                              *)
(***************************************************************************)

\* reserve_ai_usage has committed, and created nothing for the wallet.
BeginGoverned(h) ==
    /\ Goto(h, "idle", "reserved")
    /\ ctx' = [ctx EXCEPT ![h].kind = "governed"]
    /\ UNCHANGED <<wallet, ledger, row, tableLocks>>

Asks(h) ==
    \/ pc[h] = "reserved"
    \/ pc[h] = "ready" /\ ctx[h].kind = "simple"

\* The wallet as the request's own transaction sees it.
Balance(h) == wallet.credit + Granted(h)

\* SELECT ... FOR UPDATE, and a balance to spend.
ReadBalance(h) ==
    /\ Asks(h)
    /\ wallet.exists \/ ctx[h].grants
    /\ RowFree(h)
    /\ Balance(h) > 0
    /\ row' = h
    /\ pc' = [pc EXCEPT ![h] = "calling"]
    /\ ctx' = [ctx EXCEPT ![h].balance = Balance(h)]
    /\ UNCHANGED <<wallet, ledger, tableLocks>>

\* 402; a governed question gives its reservation back first.
RefuseEmpty(h) ==
    /\ Asks(h)
    /\ \/ ~ wallet.exists /\ ~ ctx[h].grants
       \/ RowFree(h) /\ Balance(h) <= 0
    /\ Rollback(h, "refused")

CallProvider(h, cost) ==
    /\ Goto(h, "calling", IF ctx[h].kind = "simple" THEN "priced" ELSE "answered")
    /\ ctx' = [ctx EXCEPT ![h].charge = Charge(cost)]
    /\ UNCHANGED <<wallet, ledger, row, tableLocks>>

FailCall(h) ==
    /\ pc[h] = "calling"
    /\ Rollback(h, "failed")

\* settle_ai_usage commits, and the row that was locked for the debit is free.
Settle(h) ==
    /\ Goto(h, "answered", "priced")
    /\ Release(h)
    /\ UNCHANGED <<wallet, ledger, ctx>>

\* Mutant: only the balance before the call is looked at.
AffordableFromCredit(h) == ctx[h].balance > 0

\* The charge, and the balance that was read before the call.
Affordable(h) == ctx[h].charge <= ctx[h].balance

RefuseCharge(h) ==
    /\ pc[h] = "priced"
    /\ ~ Affordable(h)
    /\ Rollback(h, "refused")

Debit(h) ==
    /\ Goto(h, "priced", "recording")
    /\ Affordable(h)
    /\ RowFree(h)
    /\ row' = h
    /\ UNCHANGED <<wallet, ledger, tableLocks, ctx>>

\* INSERT INTO pilot_ai_wallet_ledger, and the commit.
Record(h) ==
    /\ pc[h] = "recording"
    /\ CanLock(h, "insert")
    /\ Commit(h)

-----------------------------------------------------------------------------
(***************************************************************************)
(* Failures.                                                               *)
(***************************************************************************)

Crash(h) ==
    /\ pc[h] \notin Ended
    /\ Rollback(h, "failed")

WantsRow(h) ==
    \/ pc[h] = "creating"
    \/ pc[h] = "reserved" /\ wallet.exists
    \/ pc[h] = "ready" /\ ctx[h].kind # "profile"
    \/ pc[h] = "priced" /\ Affordable(h)

WaitsFor(h, g) ==
    \/ WantsRow(h) /\ row = g
    \/ /\ pc[h] \in {"granting", "recording"}
       /\ \E n \in tableLocks[g] : ~ Compatible("insert", n)

\* The wallet has been created by another request, or two requests wait for each
\* other, and after deadlock_timeout one of them fails.
FailInDatabase(h) ==
    /\ \/ pc[h] = "creating" /\ wallet.exists
       \/ \E g \in Requests \ {h} : WaitsFor(h, g) /\ WaitsFor(g, h)
    /\ Rollback(h, "failed")

-----------------------------------------------------------------------------

Step(h) ==
    \/ Look(h) \/ CreateWallet(h) \/ GrantTrial(h) \/ ShowProfile(h)
    \/ \E amount \in Amounts : TopUp(h, amount)
    \/ ReadBalance(h) \/ RefuseEmpty(h)
    \/ \E cost \in Costs : CallProvider(h, cost)
    \/ FailCall(h) \/ Settle(h) \/ RefuseCharge(h) \/ Debit(h) \/ Record(h)
    \/ FailInDatabase(h)

Begin(h) ==
    \/ BeginGoverned(h)
    \/ \E kind \in Kinds : BeginEnsuring(h, kind)

Next == \E h \in Requests : Begin(h) \/ Step(h) \/ Crash(h)

Spec == Init /\ [][Next]_vars

\* A request that has begun takes its next step; nobody has to begin.
FairSpec == Spec /\ \A h \in Requests : WF_vars(Step(h))
==============================================================================
