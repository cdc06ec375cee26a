-------------------------- MODULE PilotWalletProofs --------------------------
(***************************************************************************)
(* For any number of requests, any trial, top-ups, costs and prices: the   *)
(* balance is the sum of the ledger, and a simple question never           *)
(* overdraws.  The inductive invariant says which stages own the row, that *)
(* nothing of a request is in the ledger before it is done, and that the   *)
(* balance a simple question has read is the balance it will debit.        *)
(*                                                                         *)
(* And no request returns to a stage it has left, and while one has not    *)
(* ended, one can go on: what RequestsEnd needs of safety.                 *)
(***************************************************************************)
EXTENDS PilotWalletProperties, LedgerSumsProofs, TLAPS

\* The stages before a request knows what it will write.
Unpriced == {"ensured", "creating", "granting", "ready", "reserved", "calling"}

NothingWritten(h) ==
    /\ pc[h] # "done" => added[h] = 0 /\ paid[h] = 0
    /\ pc[h] \in {"idle"} \cup Unpriced => ctx[h].amount = 0 /\ ctx[h].charge = 0
    /\ pc[h] \in {"answered", "priced"} => ctx[h].amount = 0

KindsKeepToTheirStages(h) ==
    /\ pc[h] \in {"ensured", "creating", "granting", "ready"} => ctx[h].kind # "governed"
    /\ pc[h] \in {"reserved", "answered"} => ctx[h].kind = "governed"
    /\ pc[h] \in {"calling", "priced"} => ctx[h].kind \in {"governed", "simple"}

CreatorsOwnTheKey(h) ==
    /\ pc[h] \in {"idle", "ensured", "creating"} => ~ ctx[h].grants
    /\ pc[h] = "granting" => ctx[h].grants
    /\ ctx[h].kind = "governed" => ~ ctx[h].grants
    /\ ctx[h].grants /\ pc[h] \notin Ended => row = h /\ ~ wallet.exists
    /\ pc[h] = "ready" => wallet.exists \/ ctx[h].grants

SimpleAsksOwnTheRow(h) ==
    /\ pc[h] = "recording" => row = h
    /\ ctx[h].kind = "simple" /\ pc[h] \in {"calling", "priced", "recording"} =>
        row = h /\ ctx[h].balance = Balance(h)
    /\ ctx[h].kind = "simple" /\ pc[h] = "recording" =>
        ctx[h].amount = 0 /\ Affordable(h)

Holds(h) ==
    /\ NothingWritten(h)
    /\ KindsKeepToTheirStages(h)
    /\ CreatorsOwnTheKey(h)
    /\ SimpleAsksOwnTheRow(h)

Inv ==
    /\ TypeOK
    /\ WalletMatchesLedger
    /\ \A h \in Requests : Holds(h)

\* What a step of another request leaves to g.
Spares(g) ==
    /\ pc'[g] = pc[g] /\ ctx'[g] = ctx[g]
    /\ added'[g] = added[g] /\ paid'[g] = paid[g]
    /\ row = g => row' = g /\ wallet' = wallet
    /\ wallet.exists => wallet'.exists

-----------------------------------------------------------------------------

\* A charge is a positive number of micro-euros.
LEMMA ChargeType ==
    ASSUME NEW cost \in Costs
    PROVE  Charge(cost) \in Nat /\ Charge(cost) > 0
<1> DEFINE eur == (2 * cost * Rate + Scale) \div (2 * Scale)
<1>1. cost \in Nat /\ Rate \in Nat /\ Scale \in Nat \ {0}
  BY WalletAssumption
<1>2. 2 * cost * Rate + Scale \in Int /\ 2 * Scale \in Nat \ {0}
  BY <1>1
<1>3. eur \in Int
  BY <1>2
<1>4. Charge(cost) = IF eur < 1 THEN 1 ELSE eur
  BY DEF Charge
<1> HIDE DEF eur
<1> QED
  BY <1>3, <1>4

\* A request keeps its part of the invariant while another one moves.
LEMMA SparedHolds ==
    ASSUME TypeOK, NEW g \in Requests, Holds(g), Spares(g)
    PROVE  Holds(g)'
<1>1. NothingWritten(g)'
  BY DEF Holds, Spares, NothingWritten
<1>2. KindsKeepToTheirStages(g)'
  BY DEF Holds, Spares, KindsKeepToTheirStages
<1>3. CreatorsOwnTheKey(g)'
  BY DEF Holds, Spares, CreatorsOwnTheKey
<1>4. SimpleAsksOwnTheRow(g)'
  BY DEF Holds, Spares, SimpleAsksOwnTheRow, Balance, Granted, Affordable
<1> QED
  BY <1>1, <1>2, <1>3, <1>4 DEF Holds

\* A request that does not own the row, and leaves the wallet and the ledger,
\* spares the others.
LEMMA QuietStep ==
    ASSUME TypeOK, NEW h \in Requests, UNCHANGED <<wallet, ledger>>,
           NEW p, pc' = [pc EXCEPT ![h] = p],
           NEW c, ctx' = [ctx EXCEPT ![h] = c],
           row' # row => row = h \/ row = Nobody
    PROVE  \A g \in Requests \ {h} : Spares(g)
BY WalletAssumption DEF Spares, TypeOK, ledger

\* A release gives back the row of its request only.
LEMMA ReleaseType ==
    ASSUME TypeOK, NEW h \in Requests, Release(h)
    PROVE  /\ row' \in Requests \cup {Nobody}
           /\ tableLocks' \in [Requests -> SUBSET Modes]
           /\ row' # row => row = h
BY DEF Release, TypeOK

\* A commit writes what the request holds, and moves the balance with the ledger.
LEMMA CommitKeepsInv ==
    ASSUME Inv, NEW h \in Requests, Commit(h),
           pc[h] # "done",
           row = h \/ (ctx[h].amount = 0 /\ ctx[h].charge = 0 /\ ~ ctx[h].grants),
           wallet.exists \/ row = h
    PROVE  Inv'
<1> DEFINE c == ctx[h]
<1>1. /\ c \in Context
      /\ added[h] = 0 /\ paid[h] = 0
      /\ Trial \in Nat /\ IsFiniteSet(Requests) /\ Nobody \notin Requests
  BY WalletAssumption DEF Inv, TypeOK, Holds, NothingWritten
<1>2. /\ wallet' = [exists |-> TRUE, credit |-> NewCredit(h)]
      /\ NewCredit(h) \in Int
  BY <1>1 DEF Commit, NewCredit, Granted, Inv, TypeOK, Context
<1>3. TypeOK'
  <2>1. trials' \in Nat
    BY DEF Commit, Inv, TypeOK
  <2>2. added' \in [Requests -> Nat] /\ paid' \in [Requests -> Nat]
    BY <1>1 DEF Commit, Inv, TypeOK, Context
  <2>3. pc' \in [Requests -> Stages] /\ ctx' = ctx
    BY DEF Commit, Inv, TypeOK, Stages, Ended
  <2>4. \A g \in Requests : pc'[g] \in {"answered", "priced"} => ctx'[g].charge > 0
    BY DEF Commit, Inv, TypeOK
  <2> QED
    BY <1>2, <2>1, <2>2, <2>3, <2>4, ReleaseType DEF Commit, Inv, TypeOK
<1>4. WalletMatchesLedger'
  <2>1. /\ \A g \in Requests : added[g] \in Nat /\ added'[g] \in Nat
        /\ \A g \in Requests : paid[g] \in Nat /\ paid'[g] \in Nat
    BY <1>3 DEF Inv, TypeOK
  <2>2. added'[h] = c.amount /\ paid'[h] = c.charge
    BY DEF Commit, Inv, TypeOK
  <2>3. \A g \in Requests \ {h} : added'[g] = added[g] /\ paid'[g] = paid[g]
    BY DEF Commit, Inv, TypeOK
  <2>4. Total(Requests, added') = Total(Requests, added) - added[h] + added'[h]
    BY <1>1, <2>1, <2>3, TotalChange
  <2>5. Total(Requests, paid') = Total(Requests, paid) - paid[h] + paid'[h]
    BY <1>1, <2>1, <2>3, TotalChange
  <2>6. Total(Requests, added) \in Nat /\ Total(Requests, paid) \in Nat
    BY <1>1, <2>1, TotalType
  <2>7. trials' * Trial = trials * Trial + Granted(h)
    BY <1>1 DEF Commit, Granted, Inv, TypeOK
  <2>8. Granted(h) \in Nat /\ trials * Trial \in Nat /\ trials' * Trial \in Nat
    <3>1. trials \in Nat /\ trials' \in Nat
      BY <1>3 DEF Inv, TypeOK
    <3>2. \A m, n \in Nat : m * n \in Nat
      OBVIOUS
    <3>3. trials * Trial \in Nat /\ trials' * Trial \in Nat
      BY <1>1, <3>1, <3>2
    <3> QED
      BY <1>1, <3>3 DEF Granted
  <2>9. wallet'.credit = wallet.credit + Granted(h) + c.amount - c.charge
    BY <1>2 DEF NewCredit
  <2>10. wallet.credit = trials * Trial + Total(Requests, added) - Total(Requests, paid)
    BY DEF Inv, WalletMatchesLedger
  <2>11. c.amount \in Nat /\ c.charge \in Nat
    BY <1>1 DEF Context
  <2> HIDE DEF c
  <2>12. wallet'.credit =
           trials' * Trial + Total(Requests, added') - Total(Requests, paid')
    BY <1>1, <2>2, <2>4, <2>5, <2>6, <2>7, <2>8, <2>9, <2>10, <2>11
  <2> QED
    BY <2>12 DEF WalletMatchesLedger
<1>5. ASSUME NEW g \in Requests \ {h} PROVE Spares(g)
  <2>1. row = g => wallet' = wallet
    <3>1. ASSUME row = g PROVE wallet' = wallet
      <4>1. wallet.exists /\ NewCredit(h) = wallet.credit
        BY <1>1, <3>1 DEF NewCredit, Granted, Inv, TypeOK
      <4> QED
        BY <1>2, <4>1 DEF Inv, TypeOK
    <3> QED
      BY <3>1
  <2> QED
    BY <1>2, <2>1 DEF Commit, Release, Spares, Inv, TypeOK
<1>6. Holds(h)'
  BY DEF Commit, Holds, NothingWritten, KindsKeepToTheirStages, CreatorsOwnTheKey,
         SimpleAsksOwnTheRow, Unpriced, Ended, Inv, TypeOK
<1>7. \A g \in Requests : Holds(g)'
  BY <1>5, <1>6, SparedHolds DEF Inv
<1> QED
  BY <1>3, <1>4, <1>7 DEF Inv

\* A transaction that is undone leaves the others alone and writes nothing.
LEMMA RollbackKeepsInv ==
    ASSUME Inv, NEW h \in Requests, NEW to \in {"refused", "failed"},
           Rollback(h, to), pc[h] # "done"
    PROVE  Inv'
<1>1. TypeOK'
  BY ReleaseType DEF Rollback, ledger, Inv, TypeOK, Stages, Ended
<1>2. WalletMatchesLedger'
  BY DEF Rollback, ledger, Inv, WalletMatchesLedger
<1>3. \A g \in Requests \ {h} : Spares(g)
  BY WalletAssumption DEF Rollback, Release, ledger, Spares, Inv, TypeOK
<1>4. Holds(h)'
  BY DEF Rollback, ledger, Holds, NothingWritten, KindsKeepToTheirStages, CreatorsOwnTheKey,
         SimpleAsksOwnTheRow, Unpriced, Ended, Inv, TypeOK
<1> QED
  BY <1>1, <1>2, <1>3, <1>4, SparedHolds DEF Inv

\* A step that leaves the wallet and the ledger alone keeps the invariant when
\* the request that takes it keeps its part.
LEMMA QuietKeepsInv ==
    ASSUME Inv, NEW h \in Requests, UNCHANGED <<wallet, ledger>>,
           NEW p \in Stages, pc' = [pc EXCEPT ![h] = p],
           NEW c \in Context, ctx' = [ctx EXCEPT ![h] = c],
           p \in {"answered", "priced"} => c.charge > 0,
           row' \in {row, h, Nobody}, row' # row => row = h \/ row = Nobody,
           tableLocks' \in [Requests -> SUBSET Modes],
           Holds(h)'
    PROVE  Inv'
<1>1. TypeOK'
  BY DEF ledger, Inv, TypeOK
<1>2. WalletMatchesLedger'
  BY DEF ledger, Inv, WalletMatchesLedger
<1>3. \A g \in Requests \ {h} : Spares(g)
  BY QuietStep DEF Inv
<1> QED
  BY <1>1, <1>2, <1>3, SparedHolds DEF Inv

\* Every step of a request, its crash included, keeps the invariant.
LEMMA StepKeepsInv ==
    ASSUME Inv, NEW h \in Requests, Begin(h) \/ Step(h) \/ Crash(h)
    PROVE  Inv'
<1>1. ASSUME BeginGoverned(h) PROVE Inv'
  <2> DEFINE p == "reserved"
             c == [ctx[h] EXCEPT !.kind = "governed"]
  <2>1. pc' = [pc EXCEPT ![h] = p] /\ p \in Stages
    BY <1>1 DEF BeginGoverned, Goto, Stages, Ended
  <2>2. ctx' = [ctx EXCEPT ![h] = c] /\ c \in Context
    BY <1>1, WalletAssumption DEF BeginGoverned, Inv, TypeOK, Context, Kinds, Balance, Granted
  <2>3. UNCHANGED <<wallet, ledger>>
    BY <1>1 DEF BeginGoverned
  <2>4. /\ row' \in {row, h, Nobody}
        /\ row' # row => row = h \/ row = Nobody
        /\ tableLocks' \in [Requests -> SUBSET Modes]
    BY <1>1 DEF BeginGoverned, RowFree, Lock, Modes, Release, Inv, TypeOK
  <2>5. p \in {"answered", "priced"} => c.charge > 0
    BY <1>1 DEF BeginGoverned, Goto, Inv, TypeOK, Context
  <2>6. Holds(h)'
    BY <1>1, <2>1, <2>2, <2>3, <2>4, WalletAssumption
       DEF BeginGoverned, Goto, RowFree, Asks, Release,
           Holds, NothingWritten, KindsKeepToTheirStages, CreatorsOwnTheKey,
           SimpleAsksOwnTheRow, Balance, Granted, Affordable, Unpriced, Ended, ledger,
           Inv, TypeOK, Context, NoContext
  <2> HIDE DEF p, c
  <2> QED
    BY <2>1, <2>2, <2>3, <2>4, <2>5, <2>6, QuietKeepsInv
<1>2. ASSUME NEW k \in Kinds, BeginEnsuring(h, k) PROVE Inv'
  <2> DEFINE p == "ensured"
             c == [ctx[h] EXCEPT !.kind = k]
  <2>1. pc' = [pc EXCEPT ![h] = p] /\ p \in Stages
    BY <1>2 DEF BeginEnsuring, Goto, Stages, Ended
  <2>2. ctx' = [ctx EXCEPT ![h] = c] /\ c \in Context
    BY <1>2, WalletAssumption DEF BeginEnsuring, Inv, TypeOK, Context, Kinds, Balance, Granted
  <2>3. UNCHANGED <<wallet, ledger>>
    BY <1>2 DEF BeginEnsuring
  <2>4. /\ row' \in {row, h, Nobody}
        /\ row' # row => row = h \/ row = Nobody
        /\ tableLocks' \in [Requests -> SUBSET Modes]
    BY <1>2 DEF BeginEnsuring, RowFree, Lock, Modes, Release, Inv, TypeOK
  <2>5. p \in {"answered", "priced"} => c.charge > 0
    BY <1>2 DEF BeginEnsuring, Goto, Inv, TypeOK, Context
  <2>6. Holds(h)'
    BY <1>2, <2>1, <2>2, <2>3, <2>4, WalletAssumption
       DEF BeginEnsuring, Goto, RowFree, Asks, Release,
           Holds, NothingWritten, KindsKeepToTheirStages, CreatorsOwnTheKey,
           SimpleAsksOwnTheRow, Balance, Granted, Affordable, Unpriced, Ended, ledger,
           Inv, TypeOK, Context, NoContext
  <2> HIDE DEF p, c
  <2> QED
    BY <2>1, <2>2, <2>3, <2>4, <2>5, <2>6, QuietKeepsInv
<1>3. ASSUME Look(h) PROVE Inv'
  <2> DEFINE p == IF wallet.exists THEN "ready" ELSE "creating"
             c == ctx[h]
  <2>1. pc' = [pc EXCEPT ![h] = p] /\ p \in Stages
    BY <1>3 DEF Look, Goto, Stages, Ended
  <2>2. ctx' = [ctx EXCEPT ![h] = c] /\ c \in Context
    BY <1>3, WalletAssumption DEF Look, Inv, TypeOK, Context, Kinds, Balance, Granted
  <2>3. UNCHANGED <<wallet, ledger>>
    BY <1>3 DEF Look
  <2>4. /\ row' \in {row, h, Nobody}
        /\ row' # row => row = h \/ row = Nobody
        /\ tableLocks' \in [Requests -> SUBSET Modes]
    BY <1>3 DEF Look, RowFree, Lock, Modes, Release, Inv, TypeOK
  <2>5. p \in {"answered", "priced"} => c.charge > 0
    BY <1>3 DEF Look, Goto, Inv, TypeOK, Context
  <2>6. Holds(h)'
    BY <1>3, <2>1, <2>2, <2>3, <2>4, WalletAssumption
       DEF Look, Goto, RowFree, Asks, Release,
           Holds, NothingWritten, KindsKeepToTheirStages, CreatorsOwnTheKey,
           SimpleAsksOwnTheRow, Balance, Granted, Affordable, Unpriced, Ended, ledger,
           Inv, TypeOK, Context, NoContext
  <2> HIDE DEF p, c
  <2> QED
    BY <2>1, <2>2, <2>3, <2>4, <2>5, <2>6, QuietKeepsInv
<1>4. ASSUME CreateWallet(h) PROVE Inv'
  <2> DEFINE p == IF Trial = 0 THEN "ready" ELSE "granting"
             c == [ctx[h] EXCEPT !.grants = TRUE]
  <2>1. pc' = [pc EXCEPT ![h] = p] /\ p \in Stages
    BY <1>4 DEF CreateWallet, Goto, Stages, Ended
  <2>2. ctx' = [ctx EXCEPT ![h] = c] /\ c \in Context
    BY <1>4, WalletAssumption DEF CreateWallet, Inv, TypeOK, Context, Kinds, Balance, Granted
  <2>3. UNCHANGED <<wallet, ledger>>
    BY <1>4 DEF CreateWallet
  <2>4. /\ row' \in {row, h, Nobody}
        /\ row' # row => row = h \/ row = Nobody
        /\ tableLocks' \in [Requests -> SUBSET Modes]
    BY <1>4 DEF CreateWallet, RowFree, Lock, Modes, Release, Inv, TypeOK
  <2>5. p \in {"answered", "priced"} => c.charge > 0
    BY <1>4 DEF CreateWallet, Goto, Inv, TypeOK, Context
  <2>6. Holds(h)'
    BY <1>4, <2>1, <2>2, <2>3, <2>4, WalletAssumption
       DEF CreateWallet, Goto, RowFree, Asks, Release,
           Holds, NothingWritten, KindsKeepToTheirStages, CreatorsOwnTheKey,
           SimpleAsksOwnTheRow, Balance, Granted, Affordable, Unpriced, Ended, ledger,
           Inv, TypeOK, Context, NoContext
  <2> HIDE DEF p, c
  <2> QED
    BY <2>1, <2>2, <2>3, <2>4, <2>5, <2>6, QuietKeepsInv
<1>5. ASSUME GrantTrial(h) PROVE Inv'
  <2> DEFINE p == "ready"
             c == ctx[h]
  <2>1. pc' = [pc EXCEPT ![h] = p] /\ p \in Stages
    BY <1>5 DEF GrantTrial, Goto, Stages, Ended
  <2>2. ctx' = [ctx EXCEPT ![h] = c] /\ c \in Context
    BY <1>5, WalletAssumption DEF GrantTrial, Inv, TypeOK, Context, Kinds, Balance, Granted
  <2>3. UNCHANGED <<wallet, ledger>>
    BY <1>5 DEF GrantTrial
  <2>4. /\ row' \in {row, h, Nobody}
        /\ row' # row => row = h \/ row = Nobody
        /\ tableLocks' \in [Requests -> SUBSET Modes]
    BY <1>5 DEF GrantTrial, RowFree, Lock, Modes, Release, Inv, TypeOK
  <2>5. p \in {"answered", "priced"} => c.charge > 0
    BY <1>5 DEF GrantTrial, Goto, Inv, TypeOK, Context
  <2>6. Holds(h)'
    BY <1>5, <2>1, <2>2, <2>3, <2>4, WalletAssumption
       DEF GrantTrial, Goto, RowFree, Asks, Release,
           Holds, NothingWritten, KindsKeepToTheirStages, CreatorsOwnTheKey,
           SimpleAsksOwnTheRow, Balance, Granted, Affordable, Unpriced, Ended, ledger,
           Inv, TypeOK, Context, NoContext
  <2> HIDE DEF p, c
  <2> QED
    BY <2>1, <2>2, <2>3, <2>4, <2>5, <2>6, QuietKeepsInv
<1>6. ASSUME NEW amount \in Amounts, TopUp(h, amount) PROVE Inv'
  <2> DEFINE p == "recording"
             c == [ctx[h] EXCEPT !.amount = amount]
  <2>1. pc' = [pc EXCEPT ![h] = p] /\ p \in Stages
    BY <1>6 DEF TopUp, Goto, Stages, Ended
  <2>2. ctx' = [ctx EXCEPT ![h] = c] /\ c \in Context
    BY <1>6, WalletAssumption DEF TopUp, Inv, TypeOK, Context, Kinds, Balance, Granted
  <2>3. UNCHANGED <<wallet, ledger>>
    BY <1>6 DEF TopUp
  <2>4. /\ row' \in {row, h, Nobody}
        /\ row' # row => row = h \/ row = Nobody
        /\ tableLocks' \in [Requests -> SUBSET Modes]
    BY <1>6 DEF TopUp, RowFree, Lock, Modes, Release, Inv, TypeOK
  <2>5. p \in {"answered", "priced"} => c.charge > 0
    BY <1>6 DEF TopUp, Goto, Inv, TypeOK, Context
  <2>6. Holds(h)'
    BY <1>6, <2>1, <2>2, <2>3, <2>4, WalletAssumption
       DEF TopUp, Goto, RowFree, Asks, Release,
           Holds, NothingWritten, KindsKeepToTheirStages, CreatorsOwnTheKey,
           SimpleAsksOwnTheRow, Balance, Granted, Affordable, Unpriced, Ended, ledger,
           Inv, TypeOK, Context, NoContext
  <2> HIDE DEF p, c
  <2> QED
    BY <2>1, <2>2, <2>3, <2>4, <2>5, <2>6, QuietKeepsInv
<1>7. ASSUME ReadBalance(h) PROVE Inv'
  <2> DEFINE p == "calling"
             c == [ctx[h] EXCEPT !.balance = Balance(h)]
  <2>1. pc' = [pc EXCEPT ![h] = p] /\ p \in Stages
    BY <1>7 DEF ReadBalance, Goto, Stages, Ended
  <2>2. ctx' = [ctx EXCEPT ![h] = c] /\ c \in Context
    BY <1>7, WalletAssumption DEF ReadBalance, Inv, TypeOK, Context, Kinds, Balance, Granted
  <2>3. UNCHANGED <<wallet, ledger>>
    BY <1>7 DEF ReadBalance
  <2>4. /\ row' \in {row, h, Nobody}
        /\ row' # row => row = h \/ row = Nobody
        /\ tableLocks' \in [Requests -> SUBSET Modes]
    BY <1>7 DEF ReadBalance, RowFree, Lock, Modes, Release, Inv, TypeOK
  <2>5. p \in {"answered", "priced"} => c.charge > 0
    BY <1>7 DEF ReadBalance, Goto, Inv, TypeOK, Context
  <2>6. Holds(h)'
    BY <1>7, <2>1, <2>2, <2>3, <2>4, WalletAssumption
       DEF ReadBalance, Goto, RowFree, Asks, Release,
           Holds, NothingWritten, KindsKeepToTheirStages, CreatorsOwnTheKey,
           SimpleAsksOwnTheRow, Balance, Granted, Affordable, Unpriced, Ended, ledger,
           Inv, TypeOK, Context, NoContext
  <2> HIDE DEF p, c
  <2> QED
    BY <2>1, <2>2, <2>3, <2>4, <2>5, <2>6, QuietKeepsInv
<1>8. ASSUME NEW cost \in Costs, CallProvider(h, cost) PROVE Inv'
  <2> DEFINE p == IF ctx[h].kind = "simple" THEN "priced" ELSE "answered"
             c == [ctx[h] EXCEPT !.charge = Charge(cost)]
  <2>0. Charge(cost) \in Nat /\ Charge(cost) > 0
    BY ChargeType
  <2>1. pc' = [pc EXCEPT ![h] = p] /\ p \in Stages
    BY <1>8 DEF CallProvider, Goto, Stages, Ended
  <2>2. ctx' = [ctx EXCEPT ![h] = c] /\ c \in Context
    BY <1>8, <2>0, WalletAssumption DEF CallProvider, Inv, TypeOK, Context, Kinds, Balance, Granted
  <2>3. UNCHANGED <<wallet, ledger>>
    BY <1>8 DEF CallProvider
  <2>4. /\ row' \in {row, h, Nobody}
        /\ row' # row => row = h \/ row = Nobody
        /\ tableLocks' \in [Requests -> SUBSET Modes]
    BY <1>8 DEF CallProvider, RowFree, Lock, Modes, Release, Inv, TypeOK
  <2>5. p \in {"answered", "priced"} => c.charge > 0
    BY <1>8, <2>0 DEF CallProvider, Goto, Inv, TypeOK, Context
  <2>6. Holds(h)'
    BY <1>8, <2>0, <2>1, <2>2, <2>3, <2>4, WalletAssumption
       DEF CallProvider, Goto, RowFree, Asks, Release,
           Holds, NothingWritten, KindsKeepToTheirStages, CreatorsOwnTheKey,
           SimpleAsksOwnTheRow, Balance, Granted, Affordable, Unpriced, Ended, ledger,
           Inv, TypeOK, Context, NoContext
  <2> HIDE DEF p, c
  <2> QED
    BY <2>1, <2>2, <2>3, <2>4, <2>5, <2>6, QuietKeepsInv
<1>9. ASSUME Settle(h) PROVE Inv'
  <2> DEFINE p == "priced"
             c == ctx[h]
  <2>1. pc' = [pc EXCEPT ![h] = p] /\ p \in Stages
    BY <1>9 DEF Settle, Goto, Stages, Ended
  <2>2. ctx' = [ctx EXCEPT ![h] = c] /\ c \in Context
    BY <1>9, WalletAssumption DEF Settle, Inv, TypeOK, Context, Kinds, Balance, Granted
  <2>3. UNCHANGED <<wallet, ledger>>
    BY <1>9 DEF Settle
  <2>4. /\ row' \in {row, h, Nobody}
        /\ row' # row => row = h \/ row = Nobody
        /\ tableLocks' \in [Requests -> SUBSET Modes]
    BY <1>9 DEF Settle, RowFree, Lock, Modes, Release, Inv, TypeOK
  <2>5. p \in {"answered", "priced"} => c.charge > 0
    BY <1>9 DEF Settle, Goto, Inv, TypeOK, Context
  <2>6. Holds(h)'
    BY <1>9, <2>1, <2>2, <2>3, <2>4, WalletAssumption
       DEF Settle, Goto, RowFree, Asks, Release,
           Holds, NothingWritten, KindsKeepToTheirStages, CreatorsOwnTheKey,
           SimpleAsksOwnTheRow, Balance, Granted, Affordable, Unpriced, Ended, ledger,
           Inv, TypeOK, Context, NoContext
  <2> HIDE DEF p, c
  <2> QED
    BY <2>1, <2>2, <2>3, <2>4, <2>5, <2>6, QuietKeepsInv
<1>10. ASSUME Debit(h) PROVE Inv'
  <2> DEFINE p == "recording"
             c == ctx[h]
  <2>1. pc' = [pc EXCEPT ![h] = p] /\ p \in Stages
    BY <1>10 DEF Debit, Goto, Stages, Ended
  <2>2. ctx' = [ctx EXCEPT ![h] = c] /\ c \in Context
    BY <1>10, WalletAssumption DEF Debit, Inv, TypeOK, Context, Kinds, Balance, Granted
  <2>3. UNCHANGED <<wallet, ledger>>
    BY <1>10 DEF Debit
  <2>4. /\ row' \in {row, h, Nobody}
        /\ row' # row => row = h \/ row = Nobody
        /\ tableLocks' \in [Requests -> SUBSET Modes]
    BY <1>10 DEF Debit, RowFree, Lock, Modes, Release, Inv, TypeOK
  <2>5. p \in {"answered", "priced"} => c.charge > 0
    BY <1>10 DEF Debit, Goto, Inv, TypeOK, Context
  <2>6. Holds(h)'
    BY <1>10, <2>1, <2>2, <2>3, <2>4, WalletAssumption
       DEF Debit, Goto, RowFree, Asks, Release,
           Holds, NothingWritten, KindsKeepToTheirStages, CreatorsOwnTheKey,
           SimpleAsksOwnTheRow, Balance, Granted, Affordable, Unpriced, Ended, ledger,
           Inv, TypeOK, Context, NoContext
  <2> HIDE DEF p, c
  <2> QED
    BY <2>1, <2>2, <2>3, <2>4, <2>5, <2>6, QuietKeepsInv
<1>11. ASSUME ShowProfile(h) PROVE Inv'
  <2>1. /\ pc[h] = "ready" /\ Commit(h)
        /\ ctx[h].amount = 0 /\ ctx[h].charge = 0
        /\ ctx[h].grants => row = h
        /\ wallet.exists \/ row = h
    BY <1>11 DEF ShowProfile, Inv, Holds, NothingWritten, CreatorsOwnTheKey, Unpriced, Ended
  <2> QED
    BY <2>1, CommitKeepsInv
<1>12. ASSUME Record(h) PROVE Inv'
  <2>1. pc[h] = "recording" /\ Commit(h) /\ row = h
    BY <1>12 DEF Record, Inv, Holds, SimpleAsksOwnTheRow
  <2> QED
    BY <2>1, CommitKeepsInv
<1>13. ASSUME RefuseEmpty(h) \/ RefuseCharge(h) \/ FailCall(h) \/ FailInDatabase(h) \/ Crash(h)
       PROVE  Inv'
  <2>1. \E to \in {"refused", "failed"} : Rollback(h, to)
    BY <1>13 DEF RefuseEmpty, RefuseCharge, FailCall, FailInDatabase, Crash
  <2>2. pc[h] # "done"
    BY <1>13 DEF RefuseEmpty, Asks, RefuseCharge, FailCall, FailInDatabase, Crash, Ended,
           WaitsFor, WantsRow
  <2> QED
    BY <2>1, <2>2, RollbackKeepsInv
<1> QED
  BY <1>1, <1>2, <1>3, <1>4, <1>5, <1>6, <1>7, <1>8, <1>9, <1>10, <1>11, <1>12, <1>13
     DEF Begin, Step

\* The database starts without the wallet, or with one that holds its trial.
LEMMA InitInv == Init => Inv
<1> SUFFICES ASSUME Init PROVE Inv
  OBVIOUS
<1>1. TypeOK
  <2>1. wallet \in [exists : BOOLEAN, credit : Int] /\ trials \in Nat
    <3>1. wallet = [exists |-> FALSE, credit |-> 0] \/ wallet = [exists |-> TRUE, credit |-> Trial]
      BY DEF Init
    <3>2. Trial \in Int
      BY WalletAssumption
    <3>3. trials = 0 \/ trials = 1
      BY DEF Init
    <3>4. [exists |-> FALSE, credit |-> 0] \in [exists : BOOLEAN, credit : Int]
      OBVIOUS
    <3>5. [exists |-> TRUE, credit |-> Trial] \in [exists : BOOLEAN, credit : Int]
      BY <3>2
    <3>6. wallet \in [exists : BOOLEAN, credit : Int]
      BY <3>1, <3>4, <3>5, Zenon
    <3> QED
      BY <3>3, <3>6
  <2>2. ctx \in [Requests -> Context] /\ pc \in [Requests -> Stages]
    BY DEF Init, NoContext, Context, Kinds, Stages, Ended
  <2> QED
    BY <2>1, <2>2 DEF Init, TypeOK
<1>2. Total(Requests, added) = 0 /\ Total(Requests, paid) = 0
  <2>1. ASSUME NEW f, \A h \in Requests : f[h] = 0
        PROVE  Total(Requests, f) = 0
    <3>1. Units(Requests, f) = {}
      BY <2>1, UnitsMember
    <3> QED
      BY <3>1, FS_EmptySet DEF Total
  <2> QED
    BY <2>1 DEF Init
<1>3. WalletMatchesLedger
  BY <1>2, WalletAssumption DEF Init, WalletMatchesLedger
<1>4. \A h \in Requests : Holds(h)
  BY WalletAssumption DEF Init, NoContext, Holds, NothingWritten, KindsKeepToTheirStages,
         CreatorsOwnTheKey, SimpleAsksOwnTheRow, Unpriced, Ended
<1> QED
  BY <1>1, <1>3, <1>4 DEF Inv

-----------------------------------------------------------------------------

(***************************************************************************)
(* The inductive invariant: who owns the row at each stage, and what each  *)
(* request has written and read by then.                                   *)
(***************************************************************************)
THEOREM WalletInvariant == Spec => []Inv
<1>1. Inv /\ [Next]_vars => Inv'
  <2> SUFFICES ASSUME Inv, [Next]_vars PROVE Inv'
    OBVIOUS
  <2>1. CASE Next
    BY <2>1, StepKeepsInv DEF Next
  <2>2. CASE UNCHANGED vars
    <3>1. \A h \in Requests : Holds(h)' = Holds(h)
      BY <2>2 DEF vars, Holds, NothingWritten, KindsKeepToTheirStages, CreatorsOwnTheKey,
             SimpleAsksOwnTheRow, Balance, Granted, Affordable
    <3> QED
      BY <2>2, <3>1 DEF vars, Inv, TypeOK, WalletMatchesLedger
  <2> QED
    BY <2>1, <2>2
<1> QED
  BY InitInv, <1>1, PTL DEF Spec

\* Every variable keeps its type, and an answered question has a price.
THEOREM WalletTypes == Spec => []TypeOK
<1>1. Inv => TypeOK
  BY DEF Inv
<1> QED
  BY WalletInvariant, <1>1, PTL

(***************************************************************************)
(* The balance is the sum of the ledger: _ensure_wallet, the top-up and    *)
(* the debits write both under the row's lock, or neither.                 *)
(***************************************************************************)
THEOREM BalanceIsTheLedgersSum == Spec => []WalletMatchesLedger
<1>1. Inv => WalletMatchesLedger
  BY DEF Inv
<1> QED
  BY WalletInvariant, <1>1, PTL

(***************************************************************************)
(* pilot_ai_ask: the debit of a simple question leaves a balance that is   *)
(* not negative, because the comparison and the debit see the same row.    *)
(***************************************************************************)
THEOREM SimpleAsksPayFromTheirBalance == Spec => SimpleAsksNeverOverdraw
<1> DEFINE Pays(h) == ctx[h].kind = "simple" /\ paid'[h] # paid[h]
<1>1. ASSUME Inv, [Next]_vars, NEW h \in Requests, Pays(h)
      PROVE  wallet'.credit >= 0
  <2>1. Next
    BY <1>1 DEF vars
  <2>2. PICK g \in Requests : Begin(g) \/ Step(g) \/ Crash(g)
    BY <2>1 DEF Next
  <2>3. Record(g) \/ ShowProfile(g)
    BY <1>1, <2>2 DEF Begin, Step, Crash, ledger, BeginGoverned, BeginEnsuring, Look,
           CreateWallet, GrantTrial, TopUp, ReadBalance, RefuseEmpty, CallProvider, FailCall,
           Settle, RefuseCharge, Debit, FailInDatabase, Rollback
  <2>4. g = h /\ Record(h)
    BY <1>1, <2>3 DEF Record, ShowProfile, Commit, Inv, TypeOK
  <2>5. /\ ctx[h].amount = 0 /\ Affordable(h)
        /\ ctx[h].balance = Balance(h)
        /\ ctx[h] \in Context /\ wallet.credit \in Int
    BY <1>1, <2>4 DEF Record, Inv, TypeOK, Holds, SimpleAsksOwnTheRow
  <2>6. wallet'.credit = wallet.credit + Granted(h) + ctx[h].amount - ctx[h].charge
    BY <2>4 DEF Record, Commit, NewCredit
  <2>7. Granted(h) \in Nat
    BY WalletAssumption DEF Granted
  <2>8. ctx[h].charge \in Nat /\ ctx[h].charge <= wallet.credit + Granted(h)
    BY <2>5 DEF Affordable, Balance, Context
  <2> QED
    BY <2>5, <2>6, <2>7, <2>8
<1>2. Inv /\ [Next]_vars => [\A h \in Requests : Pays(h) => wallet'.credit >= 0]_vars
  BY <1>1
<1> QED
  BY WalletInvariant, <1>2, PTL DEF Spec, SimpleAsksNeverOverdraw

-----------------------------------------------------------------------------
(***************************************************************************)
(* Why every request ends.  Each step takes its request to a later stage,  *)
(* and there is always somebody who can take one: only the row's holder    *)
(* waits for a table, so that whoever waits for somebody who waits is, or  *)
(* has before it, one of a pair that wait for each other.                  *)
(***************************************************************************)

Stage ==
    [s \in Stages |->
        IF s = "idle" THEN 0
        ELSE IF s \in {"ensured", "reserved"} THEN 1
        ELSE IF s = "creating" THEN 2
        ELSE IF s = "granting" THEN 3
        ELSE IF s = "ready" THEN 4
        ELSE IF s = "calling" THEN 5
        ELSE IF s = "answered" THEN 6
        ELSE IF s = "priced" THEN 7
        ELSE IF s = "recording" THEN 8
        ELSE 9]

\* A request leaves each stage for a later one, and the others where they are.
Advances(h) ==
    /\ Stage[pc'[h]] > Stage[pc[h]]
    /\ \A g \in Requests \ {h} : pc'[g] = pc[g]

LEMMA StepsAdvance ==
    ASSUME Inv, NEW h \in Requests, Begin(h) \/ Step(h) \/ Crash(h)
    PROVE  Advances(h)
<1>1. pc \in [Requests -> Stages] /\ pc[h] \in Stages
  BY DEF Inv, TypeOK
<1>2. ASSUME NEW to \in {"refused", "failed"}, Rollback(h, to),
             pc[h] \notin {"done", "refused", "failed"}
      PROVE  Advances(h)
  BY <1>1, <1>2 DEF Rollback, Advances, Stage, Stages, Ended
<1>3. ASSUME Commit(h), pc[h] \in {"ready", "recording"}
      PROVE  Advances(h)
  BY <1>1, <1>3 DEF Commit, Advances, Stage, Stages, Ended
<1>4. ASSUME NEW from \in Stages, NEW to \in Stages, Goto(h, from, to), Stage[to] > Stage[from]
      PROVE  Advances(h)
  BY <1>1, <1>4 DEF Goto, Advances
<1>5. ASSUME Begin(h) PROVE Advances(h)
  <2>1. Goto(h, "idle", "reserved") \/ Goto(h, "idle", "ensured")
    BY <1>5 DEF Begin, BeginGoverned, BeginEnsuring
  <2> QED BY <2>1, <1>4 DEF Stage, Stages, Ended
<1>6. ASSUME Look(h) \/ CreateWallet(h) \/ GrantTrial(h) PROVE Advances(h)
  <2>1. \/ Goto(h, "ensured", "ready") \/ Goto(h, "ensured", "creating")
        \/ Goto(h, "creating", "ready") \/ Goto(h, "creating", "granting")
        \/ Goto(h, "granting", "ready")
    BY <1>6 DEF Look, CreateWallet, GrantTrial
  <2> QED BY <2>1, <1>4 DEF Stage, Stages, Ended
<1>7. ASSUME \/ \E amount \in Amounts : TopUp(h, amount)
             \/ \E cost \in Costs : CallProvider(h, cost)
             \/ Settle(h) \/ Debit(h)
      PROVE  Advances(h)
  <2>1. \/ Goto(h, "ready", "recording") \/ Goto(h, "calling", "priced")
        \/ Goto(h, "calling", "answered") \/ Goto(h, "answered", "priced")
        \/ Goto(h, "priced", "recording")
    BY <1>7 DEF TopUp, CallProvider, Settle, Debit
  <2> QED BY <2>1, <1>4 DEF Stage, Stages, Ended
<1>8. ASSUME ReadBalance(h) PROVE Advances(h)
  BY <1>1, <1>8 DEF ReadBalance, Asks, Advances, Stage, Stages, Ended
<1>9. ASSUME ShowProfile(h) \/ Record(h) PROVE Advances(h)
  BY <1>3, <1>9 DEF ShowProfile, Record
<1>10. ASSUME RefuseEmpty(h) \/ FailCall(h) \/ RefuseCharge(h) \/ FailInDatabase(h) \/ Crash(h)
       PROVE  Advances(h)
  <2>1. Rollback(h, "refused") \/ Rollback(h, "failed")
    BY <1>10 DEF RefuseEmpty, FailCall, RefuseCharge, FailInDatabase, Crash
  <2>2. pc[h] \notin {"done", "refused", "failed"}
    BY <1>10 DEF RefuseEmpty, Asks, FailCall, RefuseCharge, FailInDatabase, Crash, Ended,
           WaitsFor, WantsRow
  <2> QED BY <1>2, <2>1, <2>2
<1> QED
  BY <1>5, <1>6, <1>7, <1>8, <1>9, <1>10 DEF Step

GoesForward ==
    [][\A h \in Requests : pc'[h] # pc[h] => Stage[pc'[h]] > Stage[pc[h]]]_vars

\* No request returns to a stage it has left, whatever crashes, is refused or
\* given up: it takes nine steps at most.
THEOREM RequestsGoForward == Spec => GoesForward
<1>1. Inv /\ [Next]_vars =>
        [\A h \in Requests : pc'[h] # pc[h] => Stage[pc'[h]] > Stage[pc[h]]]_vars
  <2> SUFFICES ASSUME Inv, Next, NEW h \in Requests, pc'[h] # pc[h]
               PROVE  Stage[pc'[h]] > Stage[pc[h]]
    OBVIOUS
  <2>1. PICK g \in Requests : Begin(g) \/ Step(g) \/ Crash(g)
    BY DEF Next
  <2> QED BY <2>1, StepsAdvance DEF Advances
<1> QED
  BY WalletInvariant, <1>1, PTL DEF Spec, GoesForward

\* Locks are of requests that have not ended, and only the row's holder waits
\* for a table.
LocksAreInUse ==
    \A h \in Requests :
        /\ row = h \/ tableLocks[h] # {} => pc[h] \notin Ended
        /\ pc[h] \in {"granting", "recording"} => row = h

\* A step that releases nothing takes the row or a table, and ends nothing.
Takes(h) ==
    /\ row' \in {row, h}
    /\ \/ tableLocks' = tableLocks
       \/ \E m \in Modes : tableLocks' = [tableLocks EXCEPT ![h] = @ \cup {m}]
    /\ pc'[h] \notin Ended

LEMMA ReleasesOrTakes ==
    ASSUME Inv, NEW h \in Requests, Begin(h) \/ Step(h) \/ Crash(h)
    PROVE  Release(h) \/ Takes(h)
<1>1. pc \in [Requests -> Stages]
  BY DEF Inv, TypeOK
<1>2. ASSUME NEW from, NEW to, Goto(h, from, to), to \notin Ended,
             UNCHANGED tableLocks, row' \in {row, h}
      PROVE  Takes(h)
  BY <1>1, <1>2 DEF Goto, Takes
<1>3. ASSUME NEW from, NEW to, Goto(h, from, to), to \notin Ended,
             NEW m \in Modes, Lock(h, m), UNCHANGED row
      PROVE  Takes(h)
  BY <1>1, <1>3 DEF Goto, Lock, Takes
<1>4. ASSUME Begin(h) PROVE Takes(h)
  <2>1. CASE BeginGoverned(h)
    BY <2>1, <1>2 DEF BeginGoverned, Ended
  <2>2. ASSUME NEW kind, BeginEnsuring(h, kind) PROVE Takes(h)
    BY <2>2, <1>3 DEF BeginEnsuring, Ended, Modes
  <2> QED BY <1>4, <2>1, <2>2 DEF Begin
<1>5. ASSUME Look(h) \/ CreateWallet(h) PROVE Takes(h)
  BY <1>5, <1>2 DEF Look, CreateWallet, Ended
<1>6. ASSUME GrantTrial(h) PROVE Takes(h)
  BY <1>6, <1>3 DEF GrantTrial, Ended, Modes
<1>7. ASSUME NEW amount, TopUp(h, amount) PROVE Takes(h)
  BY <1>7, <1>2 DEF TopUp, Ended
<1>8. ASSUME NEW cost, CallProvider(h, cost) PROVE Takes(h)
  BY <1>8, <1>2 DEF CallProvider, Ended
<1>9. ASSUME ReadBalance(h) PROVE Takes(h)
  BY <1>1, <1>9 DEF ReadBalance, Takes, Ended
<1>10. ASSUME Debit(h) PROVE Takes(h)
  BY <1>10, <1>2 DEF Debit, Ended
<1>11. ASSUME \/ ShowProfile(h) \/ Record(h) \/ Settle(h) \/ RefuseEmpty(h) \/ FailCall(h)
              \/ RefuseCharge(h) \/ FailInDatabase(h) \/ Crash(h)
       PROVE  Release(h)
  BY <1>11 DEF ShowProfile, Record, Commit, Settle, RefuseEmpty, FailCall, RefuseCharge,
       FailInDatabase, Crash, Rollback
<1> QED
  BY <1>4, <1>5, <1>6, <1>7, <1>8, <1>9, <1>10, <1>11 DEF Step

LEMMA LocksStayInUse == Spec => []LocksAreInUse
<1>1. Init => LocksAreInUse
  BY WalletAssumption DEF Init, LocksAreInUse
<1>2. Inv /\ LocksAreInUse /\ [Next]_vars => LocksAreInUse'
  <2> SUFFICES ASSUME Inv, LocksAreInUse, [Next]_vars PROVE LocksAreInUse'
    OBVIOUS
  <2>1. CASE UNCHANGED vars
    BY <2>1 DEF vars, LocksAreInUse
  <2>2. ASSUME NEW g \in Requests, Begin(g) \/ Step(g) \/ Crash(g) PROVE LocksAreInUse'
    <3>1. Inv'
      BY <2>2, StepKeepsInv
    <3>2. \A h \in Requests : pc'[h] \in {"granting", "recording"} => row' = h
      BY <3>1 DEF Inv, Holds, CreatorsOwnTheKey, SimpleAsksOwnTheRow, Ended
    <3>3. Release(g) \/ Takes(g)
      BY <2>2, ReleasesOrTakes
    <3>6. \A h \in Requests \ {g} :
            /\ row' = h => row = h
            /\ tableLocks'[h] = tableLocks[h]
      <4>1. CASE Release(g)
        BY <4>1, WalletAssumption DEF Release, Inv, TypeOK
      <4>2. CASE Takes(g)
        BY <4>2 DEF Takes, Inv, TypeOK
      <4> QED BY <3>3, <4>1, <4>2
    <3>4. \A h \in Requests \ {g} : pc'[h] = pc[h]
      BY <2>2, StepsAdvance DEF Advances
    <3>5. pc'[g] \in Ended => row' # g /\ tableLocks'[g] = {}
      BY <3>3, WalletAssumption DEF Release, Takes, Inv, TypeOK
    <3> QED BY <3>2, <3>4, <3>5, <3>6 DEF LocksAreInUse
  <2> QED BY <2>1, <2>2 DEF Next
<1> QED
  BY WalletInvariant, <1>1, <1>2, PTL DEF Spec

\* Of three who wait in a row, two wait for each other.
WaitsArePairs ==
    \A h, g, k, j \in Requests :
        /\ h # g /\ g # k /\ k # j
        /\ WaitsFor(h, g) /\ WaitsFor(g, k) /\ WaitsFor(k, j)
        => WaitsFor(g, h) \/ WaitsFor(k, g)

\* The guards of Step: what its stage needs is free.
Unhindered(h) ==
    \/ pc[h] \in {"ensured", "calling", "answered"}
    \/ pc[h] = "creating" /\ (wallet.exists \/ RowFree(h))
    \/ pc[h] = "ready" /\ (ctx[h].kind = "profile" \/ RowFree(h))
    \/ pc[h] = "reserved" /\ (~ wallet.exists \/ RowFree(h))
    \/ pc[h] = "priced" /\ (~ Affordable(h) \/ RowFree(h))
    \/ pc[h] \in {"granting", "recording"} /\ CanLock(h, "insert")

\* One of two that wait for each other, of which the database fails one.
InDeadlock(h) == \E g \in Requests \ {h} : WaitsFor(h, g) /\ WaitsFor(g, h)

\* While a request has not ended, there is one that can go on.
SomebodyMoves ==
    (\E h \in Requests : pc[h] \notin Ended) =>
        \E h \in Requests : pc[h] \notin Ended /\ (Unhindered(h) \/ InDeadlock(h))

LEMMA WaitersForTheRow ==
    ASSUME LocksAreInUse, NEW h \in Requests, NEW g \in Requests, h # g, WaitsFor(h, g)
    PROVE  /\ row = g \/ row = h
           /\ row = g => WantsRow(h)
           /\ pc[g] \notin Ended
BY DEF LocksAreInUse, WaitsFor

LEMMA WhoWaitsForNobodyMoves ==
    ASSUME Inv, NEW h \in Requests, pc[h] \notin Ended,
           \A g \in Requests \ {h} : ~ WaitsFor(h, g)
    PROVE  Unhindered(h)
<1>1. /\ pc[h] \in {"ensured", "creating", "granting", "ready", "reserved", "calling",
                    "answered", "priced", "recording"}
      /\ row \in Requests \cup {Nobody}
  BY DEF Inv, TypeOK, Stages
<1>2. WantsRow(h) => RowFree(h)
  BY <1>1 DEF WaitsFor, RowFree
<1>3. pc[h] \in {"granting", "recording"} => CanLock(h, "insert")
  BY DEF WaitsFor, CanLock
<1> QED
  BY <1>1, <1>2, <1>3 DEF Unhindered, WantsRow

LEMMA PairsWait ==
    ASSUME LocksAreInUse
    PROVE  WaitsArePairs
BY WaitersForTheRow DEF WaitsArePairs, WaitsFor

LEMMA OneMoves ==
    ASSUME Inv, LocksAreInUse
    PROVE  SomebodyMoves
<1> SUFFICES ASSUME NEW h \in Requests, pc[h] \notin Ended
             PROVE  \E o \in Requests :
                        pc[o] \notin Ended /\ (Unhindered(o) \/ InDeadlock(o))
  BY DEF SomebodyMoves
<1>1. CASE \A g \in Requests \ {h} : ~ WaitsFor(h, g)
  BY <1>1, WhoWaitsForNobodyMoves
<1>2. ASSUME NEW g \in Requests \ {h}, WaitsFor(h, g)
      PROVE  row \in Requests /\ pc[row] \notin Ended
  BY <1>2, WaitersForTheRow DEF LocksAreInUse
<1>3. ASSUME NEW o \in Requests, row = o, NEW g \in Requests \ {o}, WaitsFor(o, g),
             ~ WaitsFor(g, o)
      PROVE  pc[g] \notin Ended /\ Unhindered(g)
  <2>1. pc[g] \notin Ended /\ \A k \in Requests \ {g} : ~ WaitsFor(g, k)
    BY <1>3, WaitersForTheRow DEF WaitsFor
  <2> QED BY <2>1, WhoWaitsForNobodyMoves
<1>4. ASSUME row \in Requests, pc[row] \notin Ended
      PROVE  \/ Unhindered(row) \/ InDeadlock(row)
             \/ \E g \in Requests : pc[g] \notin Ended /\ Unhindered(g)
  BY <1>3, <1>4, WhoWaitsForNobodyMoves DEF InDeadlock
<1> QED BY <1>1, <1>2, <1>4

(***************************************************************************)
(* Whatever locks there are: a request that has not ended means that one   *)
(* can move, and a row of waits is no longer than two before two requests  *)
(* wait for each other, so that no cycle has more.                         *)
(***************************************************************************)
THEOREM WaitsEnd == Spec => [](WaitsArePairs /\ SomebodyMoves)
<1>1. Inv /\ LocksAreInUse => WaitsArePairs /\ SomebodyMoves
  BY PairsWait, OneMoves
<1> QED
  BY WalletInvariant, LocksStayInUse, <1>1, PTL
==============================================================================
