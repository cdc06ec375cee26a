------------------------ MODULE PilotWalletProperties ------------------------
(***************************************************************************)
(* What the wallet promises, and a claim it does not keep.                 *)
(***************************************************************************)
EXTENDS PilotWallet

Stages ==
    Ended \cup {"ensured", "creating", "granting", "ready", "reserved", "calling",
                "answered", "priced", "recording"}

Context ==
    [kind : Kinds, balance : Int, grants : BOOLEAN, amount : Nat, charge : Nat]

\* Every variable has its type, and a question that was answered has a price.
TypeOK ==
    /\ wallet \in [exists : BOOLEAN, credit : Int]
    /\ trials \in Nat
    /\ added \in [Requests -> Nat]
    /\ paid \in [Requests -> Nat]
    /\ row \in Requests \cup {Nobody}
    /\ tableLocks \in [Requests -> SUBSET Modes]
    /\ pc \in [Requests -> Stages]
    /\ ctx \in [Requests -> Context]
    /\ \A h \in Requests : pc[h] \in {"answered", "priced"} => ctx[h].charge > 0

(***************************************************************************)
(* The balance is the sum of the ledger, whatever fails between the reads, *)
(* the provider's answer and the debit (docs/PILOT_V1_RAILWAY.md 30).      *)
(***************************************************************************)
WalletMatchesLedger ==
    wallet.credit = trials * Trial + Total(Requests, added) - Total(Requests, paid)

(***************************************************************************)
(* A simple question holds the row from its comparison to its debit, and   *)
(* never overdraws, whatever the others do.                                *)
(***************************************************************************)
SimpleAsksNeverOverdraw ==
    [][\A h \in Requests :
        ctx[h].kind = "simple" /\ paid'[h] # paid[h] => wallet'.credit >= 0]_vars

(***************************************************************************)
(* Every request that has begun ends: those that wait for each other are   *)
(* always two, and one of them gives up.                                   *)
(***************************************************************************)
RequestsEnd ==
    \A h \in Requests : pc[h] \notin Ended ~> pc[h] \in Ended

\* pilot_intelligence.py 316: a question that costs more than the balance is
\* not concluded.
NeverOverdrawn == wallet.credit >= 0
==============================================================================
