---------------------------- MODULE AIGovernance -----------------------------
(***************************************************************************)
(* The organisational AI budget of mission_intelligence/governance.py, as  *)
(* the two callers drive it: service.run_organizational_analysis and       *)
(* dialogue_service.run_interactive_turn.                                  *)
(*                                                                         *)
(* A request is one HTTP handler.  Every transaction of governance.py      *)
(* locks the organisation's policy row first, so each is one atomic        *)
(* action; between two of them other requests, the clock, the owner and a  *)
(* crash may act.  A request reserves at most once, so its usage event is  *)
(* ledger[request].                                                        *)
(*                                                                         *)
(* The sessions keep objects alive across commits (autoflush=False,        *)
(* expire_on_commit=False) and with_for_update() does not reload them: the *)
(* policy a handler read before preparing its prompt is the policy its     *)
(* reservation is checked against, whatever the locked row now says.       *)
(***************************************************************************)
EXTENDS AIPricing, LedgerSums

CONSTANTS
    Requests,       \* handlers that may run
    Policies,       \* the settings an owner may save
    NoPolicy,       \* no policy row exists
    Asks,           \* [input, output, web] a prepared prompt asks for
    ExactCounts,    \* answers of the token-count endpoint, 0 for none
    Outcomes,       \* [reported, failed, input, cached, output, web]
    ConcurrencyLimit,   \* the most max_concurrent_requests may be: 100
    TTL,            \* SRIS_AI_RESERVATION_TTL_MINUTES, in clock ticks
    MonthLength,    \* clock ticks in a UTC month
    MaxNow          \* bound of the clock

Clock == 0 .. MaxNow

MonthOf(t) == t \div MonthLength

Months == { MonthOf(t) : t \in Clock }

Dim == {"input", "output", "web", "cost"}

Ask == [{"input", "output", "web"} -> Nat]

Amount == [Dim -> Nat]

Policy ==
    [enabled : BOOLEAN, enforce : BOOLEAN, max_concurrent : 1 .. ConcurrencyLimit,
     per_request_input : Nat, per_request_output : Nat,
     monthly_requests : Nat, monthly_input : Nat, monthly_output : Nat,
     monthly_budget : Nat]

Outcome ==
    [reported : BOOLEAN, failed : BOOLEAN, input : Int, cached : Int,
     output : Int, web : Int]

ASSUME GovernanceAssumption ==
    /\ IsFiniteSet(Requests)
    /\ ConcurrencyLimit \in Nat
    /\ Policies \subseteq Policy
    /\ NoPolicy \notin Policies
    /\ Asks \subseteq Ask
    /\ ExactCounts \subseteq Nat
    /\ Outcomes \subseteq Outcome
    /\ TTL \in Nat
    /\ MonthLength \in Nat \ {0}
    /\ MaxNow \in Nat

VARIABLES
    now,        \* the database clock
    policy,     \* mi_ai_organization_policies: the one row of the organisation
    period,     \* mi_ai_usage_periods: the counters of each month
    ledger,     \* mi_ai_usage_events
    pc,         \* where each handler is
    ctx         \* what a handler holds until it reserves: the policy object in
                \* its session, what its prompt asks for, and utcnow() as taken
                \* on entry to reserve_ai_usage

store == <<policy, period, ledger>>

vars == <<now, store, pc, ctx>>

Charged == {"completed", "completed_with_overage", "provider_output_rejected",
            "provider_error", "usage_unavailable"}

Ended == {"recorded", "refused", "rejected", "crashed"}

Status == {"none", "reserved", "expired"} \cup Charged

Stage == {"idle", "prepared", "reserving", "reserved", "calling", "settled"}
            \cup Ended

-----------------------------------------------------------------------------

Zero == [d \in Dim |-> 0]

Plus(a, b) == [d \in Dim |-> a[d] + b[d]]

Minus(a, b) == [d \in Dim |-> a[d] - b[d]]

MinusClamped(a, b) == [d \in Dim |-> Clamp(a[d] - b[d])]

Priced(input, cached, output, web) ==
    [d \in Dim |->
        CASE d = "input"  -> Clamp(input)
          [] d = "output" -> Clamp(output)
          [] d = "web"    -> Clamp(web)
          [] d = "cost"   -> EstimateCost(input, cached, output, web)]

NoEvent ==
    [status |-> "none", month |-> 0, created_at |-> 0,
     reserved |-> Zero, charged |-> Zero, run |-> FALSE]

EmptyPeriod ==
    [request_count |-> 0, active |-> 0, reserved |-> Zero, used |-> Zero]

\* Sums of the ledger over a set of requests, one per dimension.
ReservedIn(d) == [r \in Requests |-> ledger[r].reserved[d]]

ChargedIn(d) == [r \in Requests |-> ledger[r].charged[d]]

SumReserved(S) == [d \in Dim |-> Total(S, ReservedIn(d))]

SumCharged(S) == [d \in Dim |-> Total(S, ChargedIn(d))]

Made(m) == { r \in Requests : ledger[r].status # "none" /\ ledger[r].month = m }

Held(m) == { r \in Requests : ledger[r].status = "reserved" /\ ledger[r].month = m }

Spent(m) == { r \in Requests : ledger[r].status \in Charged /\ ledger[r].month = m }

\* Mutant: the expiry query forgets status = "reserved".
StaleOfAnyStatus(m, t) ==
    { r \in Made(m) : ledger[r].created_at < t - TTL }

\* The reserved events of month m created before t - TTL.
Stale(m, t) == { r \in Held(m) : ledger[r].created_at < t - TTL }

\* Mutant: expiry hands back the tokens but not the slot.
ReclaimedWithoutSlot(m, t) ==
    [period[m] EXCEPT !.reserved = MinusClamped(@, SumReserved(Stale(m, t)))]

\* The month's row once its stale reservations are handed back.
Reclaimed(m, t) ==
    [period[m] EXCEPT
        !.active   = Clamp(@ - Cardinality(Stale(m, t))),
        !.reserved = MinusClamped(@, SumReserved(Stale(m, t)))]

NoContext ==
    [policy |-> NoPolicy, began |-> 0,
     ask |-> [d \in {"input", "output", "web"} |-> 0]]

\* Mutant: the limit is compared before the request is added to it.
ExceedsAlready(used, more, limit) == used >= limit

Exceeds(used, more, limit) == used >= limit \/ used + more > limit

MonthlyWarnings(p, q, a, requests) ==
    LET used == Plus(q.used, q.reserved)
    IN  { w \in {"request", "input", "output", "budget"} :
            CASE w = "request" -> Exceeds(q.request_count, requests, p.monthly_requests)
              [] w = "input"   -> Exceeds(used["input"], a["input"], p.monthly_input)
              [] w = "output"  -> Exceeds(used["output"], a["output"], p.monthly_output)
              [] w = "budget"  -> Exceeds(used["cost"], a["cost"], p.monthly_budget) }

\* Mutant: > for >= in the concurrency check.
QuotaAllowsOneMore(p, q, a) ==
    /\ a["input"] <= p.per_request_input
    /\ a["output"] <= p.per_request_output
    /\ q.active <= p.max_concurrent
    /\ p.enforce => MonthlyWarnings(p, q, a, 1) = {}

QuotaAllows(p, q, a) ==
    /\ a["input"] <= p.per_request_input
    /\ a["output"] <= p.per_request_output
    /\ q.active < p.max_concurrent
    /\ p.enforce => MonthlyWarnings(p, q, a, 1) = {}

-----------------------------------------------------------------------------

Init ==
    /\ now = 0
    /\ policy \in Policies \cup {NoPolicy}
    /\ period = [m \in Months |-> EmptyPeriod]
    /\ ledger = [r \in Requests |-> NoEvent]
    /\ pc = [r \in Requests |-> "idle"]
    /\ ctx = [r \in Requests |-> NoContext]

Goto(r, from, to) ==
    /\ pc[r] = from
    /\ pc' = [pc EXCEPT ![r] = to]

\* update_policy: the row is created or overwritten under its lock.
UpdatePolicy(p) ==
    /\ policy' = p
    /\ UNCHANGED <<now, period, ledger, pc, ctx>>

\* The caller reads the policy, without a lock, and sizes its prompt by it.
Prepare(r) ==
    /\ Goto(r, "idle", "prepared")
    /\ \E a \in Asks :
        ctx' = [ctx EXCEPT
                    ![r].policy = policy,
                    ![r].ask =
                        IF policy = NoPolicy THEN a
                        ELSE [a EXCEPT !["output"] =
                                SmallerOf(@, policy.per_request_output)]]
    /\ UNCHANGED <<now, store>>

\* reserve_ai_usage takes its clock before it waits for the policy lock.
Enter(r) ==
    /\ Goto(r, "prepared", "reserving")
    /\ ctx' = [ctx EXCEPT ![r].began = now]
    /\ UNCHANGED <<now, store>>

\* _locked_policy: the session's own object when the caller already held one.
PolicyHeld(r) == IF ctx[r].policy = NoPolicy THEN policy ELSE ctx[r].policy

Wanted(r) ==
    LET a == ctx[r].ask IN Priced(a["input"], 0, a["output"], a["web"])

Admits(r) ==
    LET p == PolicyHeld(r)
        t == ctx[r].began
    IN  /\ p # NoPolicy
        /\ p.enabled
        /\ QuotaAllows(p, Reclaimed(MonthOf(t), t), Wanted(r))

WithReservation(q, a) ==
    [q EXCEPT !.request_count = @ + 1,
              !.active        = @ + 1,
              !.reserved      = Plus(@, a)]

Reserve(r) ==
    LET t == ctx[r].began
        m == MonthOf(t)
    IN  /\ Goto(r, "reserving", "reserved")
        /\ Admits(r)
        /\ ledger' = [e \in Requests |->
                IF e = r
                THEN [NoEvent EXCEPT !.status = "reserved", !.month = m,
                                     !.created_at = now, !.reserved = Wanted(r)]
                ELSE IF e \in Stale(m, t)
                THEN [ledger[e] EXCEPT !.status = "expired"]
                ELSE ledger[e]]
        /\ period' = [period EXCEPT ![m] = WithReservation(Reclaimed(m, t), Wanted(r))]
        /\ ctx' = [ctx EXCEPT ![r] = NoContext]
        /\ UNCHANGED <<now, policy>>

\* AIGovernanceBlocked: the caller rolls back, and the expiry with it.
Refuse(r) ==
    /\ Goto(r, "reserving", "refused")
    /\ ~ Admits(r)
    /\ ctx' = [ctx EXCEPT ![r] = NoContext]
    /\ UNCHANGED <<now, store>>

Recount(r, exact) ==
    Priced(exact, 0, ledger[r].reserved["output"], ledger[r].reserved["web"])

Lowers(r, exact) ==
    /\ exact > 0
    /\ exact < ledger[r].reserved["input"]
    /\ policy # NoPolicy
    /\ ledger[r].status = "reserved"

\* count_openai_input_tokens, apply_exact_input_count and the provider call:
\* the exact count replaces the conservative one only to lower it.
CallProvider(r) ==
    /\ Goto(r, "reserved", "calling")
    /\ \E exact \in ExactCounts :
        IF Lowers(r, exact)
        THEN /\ period' = [period EXCEPT ![ledger[r].month].reserved =
                    Minus(@, Minus(ledger[r].reserved, Recount(r, exact)))]
             /\ ledger' = [ledger EXCEPT ![r].reserved = Recount(r, exact)]
        ELSE UNCHANGED <<period, ledger>>
    /\ UNCHANGED <<now, policy, ctx>>

\* Reported usage, or the whole reservation when none was reported.
Charge(r, o) ==
    LET e == ledger[r].reserved
    IN  IF o.reported THEN Priced(o.input, o.cached, o.output, o.web)
        ELSE Priced(e["input"], 0, e["output"], e["web"])

\* Mutant: a failed call leaves its event reserved.
FinalStatusOfSuccess(r, o) == IF o.failed THEN "reserved" ELSE "completed"

FinalStatus(r, o) ==
    LET overage == \E d \in Dim : Charge(r, o)[d] > ledger[r].reserved[d]
    IN  CASE o.reported /\ overage                -> "completed_with_overage"
          [] o.reported /\ ~ overage /\ o.failed   -> "provider_output_rejected"
          [] o.reported /\ ~ overage /\ ~ o.failed -> "completed"
          [] ~ o.reported /\ o.failed             -> "provider_error"
          [] ~ o.reported /\ ~ o.failed           -> "usage_unavailable"

\* Mutant: settlement does not look at the status it finds.
SettleableAnyStatus(r) == policy # NoPolicy

Settleable(r) == policy # NoPolicy /\ ledger[r].status = "reserved"

\* The provider answers, fails or times out, and settle_ai_usage charges it.
Settle(r, o) ==
    LET m == ledger[r].month
    IN  /\ Goto(r, "calling", "settled")
        /\ Settleable(r)
        /\ period' = [period EXCEPT
                ![m].active   = Clamp(@ - 1),
                ![m].reserved = MinusClamped(@, ledger[r].reserved),
                ![m].used     = Plus(@, Charge(r, o))]
        /\ ledger' = [ledger EXCEPT ![r].status  = FinalStatus(r, o),
                                    ![r].charged = Charge(r, o)]
        /\ UNCHANGED <<now, policy, ctx>>

\* The provider answered, but settle_ai_usage raises RuntimeError: status 500.
RejectSettlement(r) ==
    /\ Goto(r, "calling", "rejected")
    /\ ~ Settleable(r)
    /\ UNCHANGED <<now, store, ctx>>

\* The IntelligenceRun is stored and the event linked to it, in one commit.
Record(r) ==
    /\ Goto(r, "settled", "recorded")
    /\ ledger' = [ledger EXCEPT ![r].run = TRUE]
    /\ UNCHANGED <<now, policy, period, ctx>>

\* The worker stops, or an exception no handler catches ends the request.
\* Before the reservation that is a handler which takes no further step.
Crash(r) ==
    /\ pc[r] \in {"reserved", "calling", "settled"}
    /\ pc' = [pc EXCEPT ![r] = "crashed"]
    /\ UNCHANGED <<now, store, ctx>>

Tick ==
    /\ now < MaxNow
    /\ now' = now + 1
    /\ UNCHANGED <<store, pc, ctx>>

Serve(r) ==
    \/ Enter(r) \/ Reserve(r) \/ Refuse(r) \/ CallProvider(r)
    \/ (\E o \in Outcomes : Settle(r, o)) \/ RejectSettlement(r) \/ Record(r)

Next ==
    \/ Tick
    \/ \E p \in Policies : UpdatePolicy(p)
    \/ \E r \in Requests : Prepare(r) \/ Serve(r) \/ Crash(r)

Spec == Init /\ [][Next]_vars

\* A started handler keeps running: every await has a client timeout
\* (interactive.py 2043, ai.py 348 and 513).  No user has to send a request.
FairSpec == Spec /\ \A r \in Requests : WF_vars(Serve(r))

-----------------------------------------------------------------------------

\* Reservations past their TTL still count here.
PageFull(q) == q.active >= policy.max_concurrent

\* governance_view: what the page shows before it lets a user ask.
ReadinessReason ==
    LET q        == period[MonthOf(now)]
        warnings == MonthlyWarnings(policy, q, Zero, 0)
    IN  CASE policy = NoPolicy -> "policy_required"
          [] policy # NoPolicy /\ ~ policy.enabled -> "organization_disabled"
          [] OTHER ->
                IF PageFull(q) THEN "concurrency_limit"
                ELSE IF policy.enforce /\ warnings # {} THEN "monthly_limit"
                ELSE "ready"

\* Mutant: what is reserved does not count.
RemainingOfSpent(q) ==
    [request |-> Clamp(policy.monthly_requests - q.request_count),
     input   |-> Clamp(policy.monthly_input - q.used["input"]),
     output  |-> Clamp(policy.monthly_output - q.used["output"]),
     cost    |-> Clamp(policy.monthly_budget - q.used["cost"])]

\* governance_view, current_period.remaining: what the page says is left.
Remaining(q) ==
    LET taken == Plus(q.used, q.reserved)
    IN  [request |-> Clamp(policy.monthly_requests - q.request_count),
         input   |-> Clamp(policy.monthly_input - taken["input"]),
         output  |-> Clamp(policy.monthly_output - taken["output"]),
         cost    |-> Clamp(policy.monthly_budget - taken["cost"])]
=============================================================================
