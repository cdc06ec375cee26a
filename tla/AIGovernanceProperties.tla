----------------------- MODULE AIGovernanceProperties ------------------------
(***************************************************************************)
(* What the AI budget promises, stated over the ledger of usage events and *)
(* the monthly counters that AIGovernance keeps beside it.                 *)
(***************************************************************************)
EXTENDS AIGovernance

Event ==
    [status : Status, month : Months, created_at : Clock,
     reserved : Amount, charged : Amount, run : BOOLEAN]

Context == [policy : Policies \cup {NoPolicy}, began : Clock, ask : Ask]

Period == [request_count : Nat, active : Nat, reserved : Amount, used : Amount]

\* Every variable has its type; in particular no counter and no event ever
\* holds a negative amount.
TypeOK ==
    /\ now \in Clock
    /\ policy \in Policies \cup {NoPolicy}
    /\ period \in [Months -> Period]
    /\ ledger \in [Requests -> Event]
    /\ pc \in [Requests -> Stage]
    /\ ctx \in [Requests -> Context]

(***************************************************************************)
(* The counters of a month always equal what its usage events say: the     *)
(* max(0, ...) of expiry and settlement never hides a drift, whatever      *)
(* expires, settles late or is recounted in between.                       *)
(***************************************************************************)
CountersOf(m) ==
    /\ period[m].request_count = Cardinality(Made(m))
    /\ period[m].active = Cardinality(Held(m))
    /\ period[m].reserved = SumReserved(Held(m))
    /\ period[m].used = SumCharged(Spent(m))

CountersMatchLedger == \A m \in Months : CountersOf(m)

(***************************************************************************)
(* The ledger is append-oriented (models.py, AIUsageEvent): a finished     *)
(* event changes only by gaining its run, a reserved one stays in its      *)
(* month and no step raises what it reserves in any dimension: the exact   *)
(* token count can only lower the reserved cost.                           *)
(***************************************************************************)
LedgerStep(e, f) ==
    /\ e.status \in Charged \cup {"expired"} =>
            f \in {e, [e EXCEPT !.run = TRUE]}
    /\ e.status = "reserved" =>
            /\ f.month = e.month
            /\ \A d \in Dim : f.reserved[d] <= e.reserved[d]

LedgerIsAppendOnly ==
    [][\A r \in Requests : LedgerStep(ledger[r], ledger'[r])]_vars

(***************************************************************************)
(* reserve_ai_usage lets a request in exactly when the ledger itself has   *)
(* room under the policy the handler holds: reservations past their TTL    *)
(* count for nothing, live ones and charges count in full, and an expired  *)
(* request still counts as a request of its month.                         *)
(***************************************************************************)
RoomFor(used, more, limit) == used < limit /\ used + more <= limit

LedgerHasRoom(r) ==
    LET p    == PolicyHeld(r)
        m    == MonthOf(ctx[r].began)
        live == Held(m) \ Stale(m, ctx[r].began)
        use  == Plus(SumCharged(Spent(m)), SumReserved(live))
    IN  /\ p # NoPolicy
        /\ p.enabled
        /\ Wanted(r)["input"] <= p.per_request_input
        /\ Wanted(r)["output"] <= p.per_request_output
        /\ Cardinality(live) < p.max_concurrent
        /\ p.enforce =>
            /\ Cardinality(Made(m)) < p.monthly_requests
            /\ RoomFor(use["input"], Wanted(r)["input"], p.monthly_input)
            /\ RoomFor(use["output"], Wanted(r)["output"], p.monthly_output)
            /\ RoomFor(use["cost"], Wanted(r)["cost"], p.monthly_budget)

AdmissionFollowsLedger ==
    [][\A r \in Requests :
        pc[r] = "reserving" /\ pc'[r] \in {"reserved", "refused"}
            => (pc'[r] = "reserved" <=> LedgerHasRoom(r))]_vars

(***************************************************************************)
(* The page and reserve_ai_usage decide alike.  Whoever reads that AI is   *)
(* ready would be let in at that moment, and whoever is discouraged would  *)
(* be refused, unless reservations past their TTL are still counted.  And  *)
(* where the monthly limits are enforced, what the page says is left is    *)
(* what a request may still take.                                          *)
(***************************************************************************)
ReserveAllows(m) == QuotaAllows(policy, Reclaimed(m, now), Zero)

Left(q, a) == \A d \in {"input", "output", "cost"} : a[d] <= Remaining(q)[d]

PageAgreesWithReserve ==
    LET m == MonthOf(now)
        q == period[m]
    IN  /\ ReadinessReason = "ready" => ReserveAllows(m)
        /\ ReadinessReason \in {"concurrency_limit", "monthly_limit"} /\ Stale(m, now) = {}
            => ~ ReserveAllows(m)
        /\ ReadinessReason = "ready" /\ policy.enforce /\ Stale(m, now) = {} =>
            \A ask \in Asks :
                LET output == SmallerOf(ask["output"], policy.per_request_output)
                    a == Priced(ask["input"], 0, output, ask["web"])
                IN  a["input"] <= policy.per_request_input
                        => (QuotaAllows(policy, q, a) <=> Left(q, a))

(***************************************************************************)
(* Where every policy enforces its monthly limits, a month stays within    *)
(* the limits of a policy but for what the provider itself overran: the    *)
(* part of a settled charge above its reservation.                         *)
(***************************************************************************)
Overrun(m, d) ==
    Total(Spent(m), [r \in Requests |->
                        Clamp(ledger[r].charged[d] - ledger[r].reserved[d])])

Committed(m, d) == period[m].used[d] + period[m].reserved[d]

MonthlyCeiling ==
    (\A p \in Policies : p.enforce) =>
        \A m \in Months :
            /\ \E p \in Policies : period[m].request_count <= p.monthly_requests
            /\ \E p \in Policies :
                Committed(m, "input") <= p.monthly_input + Overrun(m, "input")
            /\ \E p \in Policies :
                Committed(m, "output") <= p.monthly_output + Overrun(m, "output")
            /\ \E p \in Policies :
                Committed(m, "cost") <= p.monthly_budget + Overrun(m, "cost")

(***************************************************************************)
(* The counters and their ledger implement the abstract escrow: nothing    *)
(* above the concurrency limit is ever held in a month, and no allowance   *)
(* is charged twice, charged after its release or revived.                 *)
(***************************************************************************)
StageOf(status) ==
    CASE status = "none"     -> "free"
      [] status = "reserved" -> "held"
      [] status = "expired"  -> "released"
      [] status \in Charged  -> "spent"

EscrowStage == [r \in Requests |-> StageOf(ledger[r].status)]

EscrowMonth == [r \in Requests |-> ledger[r].month]

Escrow == INSTANCE UsageEscrow WITH
    Capacity <- ConcurrencyLimit, stage <- EscrowStage, month <- EscrowMonth

EscrowSpec == Escrow!Spec

(***************************************************************************)
(* A handler that is not stopped gives back what it reserved, whatever the *)
(* provider does: only a crash leaves a reservation for the TTL.           *)
(***************************************************************************)
HandlersReleaseCapacity ==
    \A r \in Requests :
        ledger[r].status = "reserved" ~>
            (ledger[r].status # "reserved" \/ pc[r] = "crashed")

-----------------------------------------------------------------------------

(***************************************************************************)
(* Claims of the documentation.                                            *)
(***************************************************************************)

\* docs/MISSION-INTELLIGENCE-AI-GOVERNANCE-V1.md 33 says that requests,
\* tokens and cost stay entirely accounted for, and governance.py 565 that a
\* provider failure never bypasses the ceiling: a call the provider has
\* finished, and whose handler has heard so, is charged in the ledger.
FinishedCallsAreCharged ==
    \A r \in Requests :
        pc[r] \in {"settled", "recorded", "rejected"} => ledger[r].status \in Charged
=============================================================================
