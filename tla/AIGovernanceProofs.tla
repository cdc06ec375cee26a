------------------------- MODULE AIGovernanceProofs --------------------------
(***************************************************************************)
(* The counters of the AI budget match its ledger and the ledger respects  *)
(* the escrow, for every set of requests, every policy, price list, clock  *)
(* and TTL.  The inductive invariant Inv adds to the type invariant and to *)
(* CountersMatchLedger that a handler which has not reserved has no event, *)
(* and that what is reserved is the estimate for its own token counts.     *)
(* Capacity is held by handlers that can still give it back, or crashed.   *)
(***************************************************************************)
EXTENDS AIGovernanceProperties, LedgerSumsProofs, TLAPS

(***************************************************************************)
(* The price list, for every rate and every scale: a cost is a natural     *)
(* number, and it never falls when more input is priced.                   *)
(***************************************************************************)

\* The code's max(0, n).
LEMMA ClampType ==
    ASSUME NEW n \in Int
    PROVE  Clamp(n) \in Nat
BY DEF Clamp

\* A product of natural numbers is a natural number.
LEMMA ProductType ==
    ASSUME NEW m \in Nat, NEW n \in Nat
    PROVE  m * n \in Nat
OBVIOUS

\* Integer division rounded up stays a natural number.
LEMMA CeilDivType ==
    ASSUME NEW n \in Nat, NEW d \in Nat \ {0}
    PROVE  CeilDiv(n, d) \in Nat
BY DEF CeilDiv

\* Rounding up is monotonic.
LEMMA CeilDivMonotonic ==
    ASSUME NEW m \in Nat, NEW n \in Nat, m <= n, NEW d \in Nat \ {0}
    PROVE  CeilDiv(m, d) <= CeilDiv(n, d)
BY DEF CeilDiv

\* A product grows with its first factor.
LEMMA ProductMonotonic ==
    ASSUME NEW m \in Nat, NEW n \in Nat, m <= n, NEW k \in Nat
    PROVE  m * k <= n * k
OBVIOUS

\* Every estimate of the price list is a natural number.
THEOREM EstimateCostType ==
    ASSUME NEW input \in Int, NEW cached \in Int, NEW output \in Int, NEW web \in Int
    PROVE  EstimateCost(input, cached, output, web) \in Nat
<1> DEFINE in == Clamp(input)
<1> DEFINE hit == SmallerOf(Clamp(cached), in)
<1> DEFINE weighted == (in - hit) * InputRate + hit * CachedRate
                            + Clamp(output) * OutputRate
<1> DEFINE base == CeilDiv(weighted, TokensPerMillion)
<1>1. /\ in \in Nat /\ Clamp(cached) \in Nat /\ Clamp(output) \in Nat
      /\ Clamp(web) \in Nat /\ Clamp(WebRate) \in Nat
    BY ClampType, PricingAssumption
<1>2. hit \in Nat /\ in - hit \in Nat
    BY <1>1 DEF SmallerOf
<1> HIDE DEF in, hit
<1>3. weighted \in Nat
    <2>1. (in - hit) * InputRate \in Nat /\ hit * CachedRate \in Nat
        BY <1>1, <1>2, ProductType, PricingAssumption
    <2>2. Clamp(output) * OutputRate \in Nat
        BY <1>1, ProductType, PricingAssumption
    <2> QED BY <2>1, <2>2
<1> HIDE DEF weighted
<1>4. base \in Nat
    BY <1>3, CeilDivType, PricingAssumption
<1> HIDE DEF base
<1>5. CeilDiv(base * MultiplierBps, BasisPoints) \in Nat
    BY <1>4, ProductType, CeilDivType, PricingAssumption
<1>6. Clamp(web) * Clamp(WebRate) \in Nat
    BY <1>1, ProductType
<1> QED BY <1>5, <1>6 DEF EstimateCost, in, hit, weighted, base

\* More uncached input never costs less: the exact token count, which only
\* replaces a larger estimate, can only lower the reserved cost.
THEOREM EstimateCostMonotonic ==
    ASSUME NEW less \in Nat, NEW more \in Nat, less <= more,
           NEW output \in Nat, NEW web \in Nat
    PROVE  EstimateCost(less, 0, output, web) <= EstimateCost(more, 0, output, web)
<1> DEFINE weighted(n) == n * InputRate + output * OutputRate
<1> DEFINE base(n) == CeilDiv(weighted(n), TokensPerMillion)
<1> DEFINE search == Clamp(web) * Clamp(WebRate)
<1>1. search \in Nat
    BY ClampType, ProductType, PricingAssumption
<1>2. ASSUME NEW n \in Nat
      PROVE  EstimateCost(n, 0, output, web) =
                CeilDiv(base(n) * MultiplierBps, BasisPoints) + search
    <2>1. Clamp(n) = n /\ Clamp(0) = 0 /\ Clamp(output) = output
        BY DEF Clamp
    <2>2. SmallerOf(0, n) = 0
        BY DEF SmallerOf
    <2>3. (n - 0) * InputRate + 0 * CachedRate + output * OutputRate = weighted(n)
        BY PricingAssumption
    <2> QED BY <2>1, <2>2, <2>3 DEF EstimateCost
<1>3. ASSUME NEW n \in Nat
      PROVE  weighted(n) \in Nat
    BY ProductType, PricingAssumption
<1>4. weighted(less) <= weighted(more)
    <2>1. less * InputRate <= more * InputRate
        BY ProductMonotonic, PricingAssumption
    <2>2. /\ less * InputRate \in Nat /\ more * InputRate \in Nat
          /\ output * OutputRate \in Nat
        BY ProductType, PricingAssumption
    <2> QED BY <2>1, <2>2
<1> HIDE DEF weighted
<1>5. base(less) \in Nat /\ base(more) \in Nat
    BY <1>3, CeilDivType, PricingAssumption
<1>6. base(less) <= base(more)
    BY <1>3, <1>4, CeilDivMonotonic, PricingAssumption
<1> HIDE DEF base
<1> DEFINE surcharged(n) == CeilDiv(base(n) * MultiplierBps, BasisPoints)
<1>7. /\ base(less) * MultiplierBps \in Nat /\ base(more) * MultiplierBps \in Nat
      /\ base(less) * MultiplierBps <= base(more) * MultiplierBps
    BY <1>5, <1>6, ProductType, ProductMonotonic, PricingAssumption
<1>8. surcharged(less) \in Nat /\ surcharged(more) \in Nat
    BY <1>7, CeilDivType, PricingAssumption
<1>9. surcharged(less) <= surcharged(more)
    BY <1>7, CeilDivMonotonic, PricingAssumption
<1> HIDE DEF surcharged, search
<1>10. surcharged(less) + search <= surcharged(more) + search
    BY <1>1, <1>8, <1>9
<1> QED BY <1>2, <1>10 DEF surcharged

-----------------------------------------------------------------------------
(***************************************************************************)
(* The counters and the ledger.                                            *)
(***************************************************************************)

\* Until its reservation commits, a handler has no event in the ledger.
NoEventBeforeReservation ==
    \A r \in Requests :
        pc[r] \in {"idle", "prepared", "reserving", "refused"}
            => ledger[r].status = "none"

\* A live reservation holds the price of the tokens it holds.
ReservationsArePriced ==
    \A r \in Requests :
        LET a == ledger[r].reserved
        IN  ledger[r].status = "reserved"
                => a = Priced(a["input"], 0, a["output"], a["web"])

Inv ==
    /\ TypeOK
    /\ CountersMatchLedger
    /\ NoEventBeforeReservation
    /\ ReservationsArePriced

-----------------------------------------------------------------------------

\* The month of a clock value is one of the period rows.
LEMMA MonthType ==
    ASSUME NEW t \in Clock
    PROVE  MonthOf(t) \in Months
BY DEF Months

\* The amounts of the code's arithmetic are natural in every dimension.
LEMMA PricedType ==
    ASSUME NEW input \in Int, NEW cached \in Int, NEW output \in Int, NEW web \in Int
    PROVE  Priced(input, cached, output, web) \in Amount
BY ClampType, EstimateCostType DEF Priced, Amount, Dim

\* The empty amount is an amount.
LEMMA ZeroType == Zero \in Amount
BY DEF Zero, Amount

\* The sum of two amounts is an amount.
LEMMA PlusType ==
    ASSUME NEW a \in Amount, NEW b \in Amount
    PROVE  Plus(a, b) \in Amount
BY DEF Plus, Amount

\* A difference cut off at zero is an amount.
LEMMA MinusClampedType ==
    ASSUME NEW a \in Amount, NEW b \in Amount
    PROVE  MinusClamped(a, b) \in Amount
BY DEF MinusClamped, Amount, Clamp

\* What a request wants, recounts and is charged are amounts.
LEMMA WantedType ==
    ASSUME TypeOK, NEW r \in Requests
    PROVE  Wanted(r) \in Amount
BY PricedType DEF TypeOK, Context, Ask, Wanted

\* The reservation of an exact count is an amount.
LEMMA RecountType ==
    ASSUME TypeOK, NEW r \in Requests, NEW exact \in Nat
    PROVE  Recount(r, exact) \in Amount
<1>1. ledger[r].reserved["output"] \in Nat /\ ledger[r].reserved["web"] \in Nat
    BY DEF TypeOK, Event, Amount, Dim
<1> QED BY <1>1, PricedType DEF Recount

\* What a provider answer is charged is an amount.
LEMMA ChargeType ==
    ASSUME TypeOK, NEW r \in Requests, NEW o \in Outcomes
    PROVE  Charge(r, o) \in Amount
<1>1. \A d \in Dim : ledger[r].reserved[d] \in Nat
    BY DEF TypeOK, Event, Amount
<1>2. o \in Outcome
    BY GovernanceAssumption
<1>3. /\ o.input \in Int /\ o.cached \in Int /\ o.output \in Int /\ o.web \in Int
    BY <1>2 DEF Outcome
<1> QED BY <1>1, <1>3, PricedType DEF Charge, Dim

\* A settled event leaves the reserved status for good.
LEMMA FinalStatusType ==
    ASSUME NEW r \in Requests, NEW o \in Outcomes
    PROVE  FinalStatus(r, o) \in Charged
<1>1. o.reported \in BOOLEAN /\ o.failed \in BOOLEAN
    BY GovernanceAssumption DEF Outcome
<1> DEFINE overage == \E d \in Dim : Charge(r, o)[d] > ledger[r].reserved[d]
<1> HIDE DEF overage
<1>2. (CASE o.reported /\ overage                -> "completed_with_overage"
          [] o.reported /\ ~ overage /\ o.failed   -> "provider_output_rejected"
          [] o.reported /\ ~ overage /\ ~ o.failed -> "completed"
          [] ~ o.reported /\ o.failed             -> "provider_error"
          [] ~ o.reported /\ ~ o.failed           -> "usage_unavailable") \in Charged
    BY <1>1 DEF Charged
<1> QED BY <1>2 DEF FinalStatus, overage

\* Sets of requests are finite, and the stale reservations are held ones.
LEMMA SetsFinite ==
    ASSUME NEW m, NEW t
    PROVE  /\ IsFiniteSet(Made(m)) /\ Made(m) \subseteq Requests
           /\ IsFiniteSet(Held(m)) /\ Held(m) \subseteq Requests
           /\ IsFiniteSet(Spent(m)) /\ Spent(m) \subseteq Requests
           /\ IsFiniteSet(Stale(m, t)) /\ Stale(m, t) \subseteq Held(m)
<1>1. Made(m) \subseteq Requests /\ Held(m) \subseteq Requests
      /\ Spent(m) \subseteq Requests /\ Stale(m, t) \subseteq Held(m)
    BY DEF Made, Held, Spent, Stale
<1> QED BY <1>1, FS_Subset, GovernanceAssumption

\* Sums of the ledger are amounts.
LEMMA SumsType ==
    ASSUME TypeOK, NEW S, S \subseteq Requests
    PROVE  SumReserved(S) \in Amount /\ SumCharged(S) \in Amount
<1>1. IsFiniteSet(S)
    BY FS_Subset, GovernanceAssumption
<1>2. ASSUME NEW d \in Dim
      PROVE  /\ Total(S, ReservedIn(d)) \in Nat
             /\ Total(S, ChargedIn(d)) \in Nat
    <2>1. \A s \in S : ReservedIn(d)[s] \in Nat /\ ChargedIn(d)[s] \in Nat
        BY DEF TypeOK, Event, Amount, ReservedIn, ChargedIn
    <2> QED BY <1>1, <2>1, TotalType
<1> QED BY <1>2 DEF SumReserved, SumCharged, Amount

\* A month whose row and whose events keep what the counters count keeps
\* its counters.
LEMMA MonthFrame ==
    ASSUME NEW q \in Months, CountersOf(q), period'[q] = period[q],
           Made(q)' = Made(q), Held(q)' = Held(q), Spent(q)' = Spent(q),
           \A e \in Held(q) : ledger'[e].reserved = ledger[e].reserved,
           \A e \in Spent(q) : ledger'[e].charged = ledger[e].charged
    PROVE  CountersOf(q)'
<1>1. Held(q) \subseteq Requests /\ Spent(q) \subseteq Requests
    BY DEF Held, Spent
<1>2. \A d \in Dim : Total(Held(q), ReservedIn(d)') = Total(Held(q), ReservedIn(d))
    <2> TAKE d \in Dim
    <2>1. \A e \in Held(q) : (ReservedIn(d)')[e] = ReservedIn(d)[e]
        BY <1>1 DEF ReservedIn
    <2> QED BY <2>1, TotalSame
<1>3. \A d \in Dim : Total(Spent(q), ChargedIn(d)') = Total(Spent(q), ChargedIn(d))
    <2> TAKE d \in Dim
    <2>1. \A e \in Spent(q) : (ChargedIn(d)')[e] = ChargedIn(d)[e]
        BY <1>1 DEF ChargedIn
    <2> QED BY <2>1, TotalSame
<1>4. SumReserved(Held(q))' = SumReserved(Held(q))
    BY <1>2 DEF SumReserved
<1>5. SumCharged(Spent(q))' = SumCharged(Spent(q))
    BY <1>3 DEF SumCharged
<1> QED BY <1>4, <1>5 DEF CountersOf

\* A step that writes neither the ledger nor the period rows.
LEMMA StoreFrame ==
    ASSUME CountersMatchLedger, period' = period, ledger' = ledger
    PROVE  CountersMatchLedger'
<1> SUFFICES ASSUME NEW q \in Months PROVE CountersOf(q)'
    BY DEF CountersMatchLedger
<1>1. Made(q)' = Made(q) /\ Held(q)' = Held(q) /\ Spent(q)' = Spent(q)
    BY DEF Made, Held, Spent
<1> QED BY <1>1, MonthFrame DEF CountersMatchLedger

\* Settlement: the event leaves Held for Spent, in its own month only.
LEMMA SettleCounts ==
    ASSUME Inv, NEW r \in Requests, NEW o \in Outcomes, Settle(r, o),
           NEW m \in Months, m = ledger[r].month
    PROVE  CountersMatchLedger'
<1> DEFINE S == Held(m)
<1> DEFINE T == Spent(m)
<1>1. /\ ledger[r].status = "reserved" /\ r \in S /\ r \notin T
      /\ ledger' = [ledger EXCEPT ![r].status  = FinalStatus(r, o),
                                  ![r].charged = Charge(r, o)]
    BY DEF Inv, TypeOK, Event, Settle, Settleable, Held, Spent, Charged
<1>2. /\ \A e \in Requests \ {r} : ledger'[e] = ledger[e]
      /\ ledger'[r].month = m /\ ledger'[r].status \in Charged
      /\ ledger'[r].reserved = ledger[r].reserved
      /\ ledger'[r].charged = Charge(r, o)
    BY <1>1, FinalStatusType DEF Inv, TypeOK, Event
<1>3. ASSUME NEW q \in Months
      PROVE  Made(q)' = Made(q)
    BY <1>1, <1>2 DEF Made, Charged
<1>4. Held(m)' = S \ {r} /\ Spent(m)' = T \cup {r}
    BY <1>1, <1>2 DEF Held, Spent, Charged
<1>5. IsFiniteSet(S) /\ IsFiniteSet(T) /\ S \subseteq Requests /\ T \subseteq Requests
    BY SetsFinite
<1>6. /\ period'[m].request_count = period[m].request_count
      /\ period'[m].active = Clamp(Cardinality(S) - 1)
      /\ period'[m].reserved = MinusClamped(SumReserved(S), ledger[r].reserved)
      /\ period'[m].used = Plus(SumCharged(T), Charge(r, o))
      /\ \A q \in Months \ {m} : period'[q] = period[q]
    <2>1. period[m] \in Period /\ CountersOf(m)
        BY <1>1 DEF Inv, TypeOK, CountersMatchLedger
    <2>2. period' = [period EXCEPT
                ![m].active   = Clamp(@ - 1),
                ![m].reserved = MinusClamped(@, ledger[r].reserved),
                ![m].used     = Plus(@, Charge(r, o))]
        BY DEF Settle
    <2>3. /\ period'[m].request_count = period[m].request_count
          /\ period'[m].active = Clamp(period[m].active - 1)
          /\ period'[m].reserved = MinusClamped(period[m].reserved, ledger[r].reserved)
          /\ period'[m].used = Plus(period[m].used, Charge(r, o))
          /\ \A q \in Months \ {m} : period'[q] = period[q]
        BY <2>1, <2>2 DEF Inv, TypeOK, Period
    <2> QED BY <2>1, <2>3 DEF CountersOf
<1>7. Clamp(Cardinality(S) - 1) = Cardinality(S \ {r})
    <2>1. Cardinality(S \ {r}) = Cardinality(S) - 1
        BY <1>1, <1>5, FS_RemoveElement
    <2>2. Cardinality(S \ {r}) \in Nat /\ Cardinality(S) \in Nat
        BY <1>5, FS_CardinalityType, FS_RemoveElement
    <2> QED BY <2>1, <2>2 DEF Clamp
<1>8. MinusClamped(SumReserved(S), ledger[r].reserved) = SumReserved(Held(m))'
    <2>1. ASSUME NEW d \in Dim
          PROVE  Clamp(Total(S, ReservedIn(d)) - ledger[r].reserved[d])
                    = Total(S \ {r}, ReservedIn(d)')
        <3>1. /\ \A e \in Requests : ReservedIn(d)[e] \in Nat
              /\ ReservedIn(d)[r] = ledger[r].reserved[d]
            BY DEF Inv, TypeOK, Event, Amount, ReservedIn
        <3>2. Total(S \ {r}, ReservedIn(d)') = Total(S \ {r}, ReservedIn(d))
            <4>1. \A e \in S \ {r} : (ReservedIn(d)')[e] = ReservedIn(d)[e]
                BY <1>2, <1>5 DEF ReservedIn
            <4> QED BY <4>1, TotalSame
        <3>3. /\ Total(S \ {r}, ReservedIn(d)) = Total(S, ReservedIn(d)) - ReservedIn(d)[r]
              /\ ReservedIn(d)[r] <= Total(S, ReservedIn(d))
              /\ Total(S, ReservedIn(d)) \in Nat
            BY <1>1, <1>5, <3>1, TotalRemove, TotalType
        <3> QED BY <3>1, <3>2, <3>3 DEF Clamp
    <2> QED BY <2>1, <1>4 DEF MinusClamped, SumReserved
<1>9. Plus(SumCharged(T), Charge(r, o)) = SumCharged(Spent(m))'
    <2>1. ASSUME NEW d \in Dim
          PROVE  Total(T, ChargedIn(d)) + Charge(r, o)[d] = Total(T \cup {r}, ChargedIn(d)')
        <3>1. /\ \A e \in T \cup {r} : (ChargedIn(d)')[e] \in Nat
              /\ (ChargedIn(d)')[r] = Charge(r, o)[d]
            BY <1>1, <1>2, <1>5, ChargeType DEF Inv, TypeOK, Event, Amount, ChargedIn
        <3>2. Total(T, ChargedIn(d)') = Total(T, ChargedIn(d))
            <4>1. r \notin T
                BY <1>1
            <4>2. \A e \in T : (ChargedIn(d)')[e] = ChargedIn(d)[e]
                BY <1>2, <1>5, <4>1 DEF ChargedIn
            <4> QED BY <4>2, TotalSame
        <3>3. Total(T \cup {r}, ChargedIn(d)') = Total(T, ChargedIn(d)') + (ChargedIn(d)')[r]
            BY <1>1, <1>5, <3>1, TotalAdd
        <3> QED BY <3>1, <3>2, <3>3
    <2> QED BY <2>1, <1>4 DEF Plus, SumCharged
<1>10. CountersOf(m)'
    <2>1. CountersOf(m) /\ Made(m)' = Made(m)
        BY <1>1, <1>3 DEF Inv, CountersMatchLedger
    <2>2. /\ period'[m].request_count = Cardinality(Made(m)')
          /\ period'[m].active = Cardinality(Held(m)')
          /\ period'[m].reserved = SumReserved(Held(m))'
          /\ period'[m].used = SumCharged(Spent(m))'
        BY <1>4, <1>6, <1>7, <1>8, <1>9, <2>1 DEF CountersOf
    <2> QED BY <2>2 DEF CountersOf
<1>11. ASSUME NEW q \in Months, q # m
       PROVE  CountersOf(q)'
    <2>1. Held(q)' = Held(q) /\ Spent(q)' = Spent(q)
        BY <1>1, <1>2, <1>11 DEF Held, Spent
    <2>2. /\ \A e \in Held(q) : ledger'[e].reserved = ledger[e].reserved
          /\ \A e \in Spent(q) : ledger'[e].charged = ledger[e].charged
        BY <1>1, <1>2, <1>11 DEF Held, Spent
    <2>3. Made(q)' = Made(q) /\ period'[q] = period[q] /\ CountersOf(q)
        BY <1>3, <1>6, <1>11 DEF Inv, CountersMatchLedger
    <2> QED BY <2>1, <2>2, <2>3, MonthFrame
<1> QED BY <1>10, <1>11 DEF CountersMatchLedger

\* An exact token count: one held event shrinks, its month follows.
LEMMA RecountCounts ==
    ASSUME Inv, NEW r \in Requests, NEW exact \in ExactCounts, Lowers(r, exact),
           NEW m \in Months, m = ledger[r].month,
           period' = [period EXCEPT ![m].reserved =
                        Minus(@, Minus(ledger[r].reserved, Recount(r, exact)))],
           ledger' = [ledger EXCEPT ![r].reserved = Recount(r, exact)]
    PROVE  CountersMatchLedger'
<1> DEFINE S == Held(m)
<1>1. /\ ledger[r].status = "reserved" /\ r \in S
      /\ Recount(r, exact) \in Amount
    BY RecountType, GovernanceAssumption DEF Inv, Lowers, Held
<1>2. /\ \A e \in Requests \ {r} : ledger'[e] = ledger[e]
      /\ ledger'[r].month = ledger[r].month /\ ledger'[r].status = ledger[r].status
      /\ ledger'[r].charged = ledger[r].charged
      /\ ledger'[r].reserved = Recount(r, exact)
    BY DEF Inv, TypeOK, Event
<1>3. \A e \in Requests : ledger'[e].month = ledger[e].month
            /\ ledger'[e].status = ledger[e].status /\ ledger'[e].charged = ledger[e].charged
    BY <1>2
<1>4. ASSUME NEW q \in Months
      PROVE  Made(q)' = Made(q) /\ Held(q)' = Held(q) /\ Spent(q)' = Spent(q)
    BY <1>3 DEF Made, Held, Spent
<1>5. IsFiniteSet(S) /\ S \subseteq Requests /\ Spent(m) \subseteq Requests
    BY SetsFinite
<1>6. /\ period'[m].request_count = period[m].request_count
      /\ period'[m].active = period[m].active
      /\ period'[m].used = period[m].used
      /\ period'[m].reserved =
            Minus(period[m].reserved, Minus(ledger[r].reserved, Recount(r, exact)))
      /\ \A q \in Months \ {m} : period'[q] = period[q]
    BY DEF Inv, TypeOK, Period
<1>7. CountersOf(m)
    BY DEF Inv, CountersMatchLedger
<1>8. Minus(SumReserved(S), Minus(ledger[r].reserved, Recount(r, exact)))
        = SumReserved(Held(m))'
    <2>1. ASSUME NEW d \in Dim
          PROVE  Total(S, ReservedIn(d)) - (ledger[r].reserved[d] - Recount(r, exact)[d])
                    = Total(S, ReservedIn(d)')
        <3>1. /\ \A e \in S : ReservedIn(d)[e] \in Nat
              /\ ReservedIn(d)[r] = ledger[r].reserved[d]
            BY <1>5 DEF Inv, TypeOK, Event, Amount, ReservedIn
        <3>2. /\ \A e \in S \ {r} : (ReservedIn(d)')[e] = ReservedIn(d)[e]
              /\ (ReservedIn(d)')[r] = Recount(r, exact)[d]
            BY <1>2, <1>5 DEF ReservedIn
        <3>3. (ReservedIn(d)')[r] \in Nat
            BY <1>1, <3>2 DEF Amount
        <3>4. \A e \in S : (ReservedIn(d)')[e] \in Nat
            BY <3>1, <3>2, <3>3
        <3>5. Total(S, ReservedIn(d)') =
                Total(S, ReservedIn(d)) - ReservedIn(d)[r] + (ReservedIn(d)')[r]
            BY <1>1, <1>5, <3>1, <3>2, <3>4, TotalChange
        <3>6. Total(S, ReservedIn(d)) \in Nat /\ ReservedIn(d)[r] \in Nat
            BY <1>1, <1>5, <3>1, TotalType
        <3> QED BY <3>1, <3>2, <3>3, <3>5, <3>6
    <2>2. ASSUME NEW d \in Dim
          PROVE  SumReserved(S)[d]
                    - Minus(ledger[r].reserved, Recount(r, exact))[d]
                    = Total(S, ReservedIn(d)')
        BY <2>1 DEF SumReserved, Minus
    <2>3. SumReserved(Held(m))' = [d \in Dim |-> Total(S, ReservedIn(d)')]
        BY <1>4 DEF SumReserved
    <2> QED BY <2>2, <2>3 DEF Minus
<1>9. SumCharged(Spent(m))' = SumCharged(Spent(m))
    <2>1. ASSUME NEW d \in Dim
          PROVE  ChargedIn(d)' = ChargedIn(d)
        BY <1>3 DEF ChargedIn
    <2> QED BY <1>4, <2>1 DEF SumCharged
<1>10. CountersOf(m)'
    <2>1. /\ period'[m].request_count = Cardinality(Made(m)')
          /\ period'[m].active = Cardinality(Held(m)')
          /\ period'[m].reserved = SumReserved(Held(m))'
          /\ period'[m].used = SumCharged(Spent(m))'
        BY <1>4, <1>6, <1>7, <1>8, <1>9 DEF CountersOf
    <2> QED BY <2>1 DEF CountersOf
<1>11. ASSUME NEW q \in Months, q # m
       PROVE  CountersOf(q)'
    <2>1. \A e \in Held(q) : ledger'[e].reserved = ledger[e].reserved
        BY <1>2, <1>11 DEF Held
    <2>2. \A e \in Spent(q) : ledger'[e].charged = ledger[e].charged
        BY <1>3 DEF Spent
    <2>3. CountersOf(q) /\ period'[q] = period[q]
        BY <1>6, <1>11 DEF Inv, CountersMatchLedger
    <2> QED BY <1>4, <2>1, <2>2, <2>3, MonthFrame
<1> QED BY <1>10, <1>11 DEF CountersMatchLedger

\* The month's row without its stale reservations is what the ledger says
\* of the live ones: the code's max(0, ...) never cuts anything off.
LEMMA ReclaimedMatchesLedger ==
    ASSUME Inv, NEW m \in Months, NEW t
    PROVE  LET live == Held(m) \ Stale(m, t)
           IN  /\ Reclaimed(m, t).request_count = Cardinality(Made(m))
               /\ Reclaimed(m, t).active = Cardinality(live)
               /\ Reclaimed(m, t).reserved = SumReserved(live)
               /\ Reclaimed(m, t).used = SumCharged(Spent(m))
<1> DEFINE S == Held(m)
<1> DEFINE X == Stale(m, t)
<1>1. /\ IsFiniteSet(S) /\ S \subseteq Requests
      /\ IsFiniteSet(X) /\ X \subseteq S
    BY SetsFinite
<1>2. period[m] \in Period /\ CountersOf(m)
    BY DEF Inv, TypeOK, CountersMatchLedger
<1>3. Clamp(Cardinality(S) - Cardinality(X)) = Cardinality(S \ X)
    <2>1. S \cap X = X
        BY <1>1
    <2>2. Cardinality(S \ X) = Cardinality(S) - Cardinality(S \cap X)
        BY <1>1, FS_Difference
    <2>3. Cardinality(S \ X) \in Nat /\ Cardinality(S) \in Nat /\ Cardinality(X) \in Nat
        BY <1>1, FS_Difference, FS_CardinalityType
    <2>4. Cardinality(S \ X) = Cardinality(S) - Cardinality(X)
        BY <2>1, <2>2
    <2> QED BY <2>3, <2>4 DEF Clamp
<1>4. MinusClamped(SumReserved(S), SumReserved(X)) = SumReserved(S \ X)
    <2>1. ASSUME NEW d \in Dim
          PROVE  Clamp(Total(S, ReservedIn(d)) - Total(X, ReservedIn(d)))
                    = Total(S \ X, ReservedIn(d))
        <3>1. \A e \in S : ReservedIn(d)[e] \in Nat
            BY <1>1 DEF Inv, TypeOK, Event, Amount, ReservedIn
        <3>2. Total(S \ X, ReservedIn(d)) = Total(S, ReservedIn(d)) - Total(X, ReservedIn(d))
            BY <1>1, <3>1, TotalMinus
        <3>3. IsFiniteSet(S \ X) /\ \A e \in S \ X : ReservedIn(d)[e] \in Nat
            BY <1>1, <3>1, FS_Subset
        <3>4. Total(S \ X, ReservedIn(d)) \in Nat
            BY <3>3, TotalType
        <3> QED BY <3>2, <3>4 DEF Clamp
    <2> QED BY <2>1 DEF MinusClamped, SumReserved
<1> QED BY <1>2, <1>3, <1>4 DEF Reclaimed, CountersOf, Period

\* A reservation: the stale events leave Held, the new one enters Made and
\* Held, all in the month of the request.
LEMMA ReserveCounts ==
    ASSUME Inv, NEW r \in Requests, Reserve(r),
           NEW t \in Clock, t = ctx[r].began, NEW m \in Months, m = MonthOf(t)
    PROVE  CountersMatchLedger'
<1> DEFINE S == Held(m)
<1> DEFINE X == Stale(m, t)
<1> DEFINE w == Wanted(r)
<1>1. /\ ledger[r].status = "none" /\ w \in Amount
      /\ pc[r] = "reserving"
    BY WantedType DEF Inv, NoEventBeforeReservation, Reserve, Goto
<1>2. /\ IsFiniteSet(S) /\ S \subseteq Requests /\ r \notin S
      /\ IsFiniteSet(X) /\ X \subseteq S /\ IsFiniteSet(S \ X) /\ r \notin X
      /\ IsFiniteSet(Made(m)) /\ Made(m) \subseteq Requests /\ r \notin Made(m)
    <2>1. r \notin S /\ r \notin Made(m)
        BY <1>1 DEF Held, Made
    <2> QED BY <2>1, SetsFinite, FS_Subset
<1>3. ledger' = [e \in Requests |->
                IF e = r
                THEN [NoEvent EXCEPT !.status = "reserved", !.month = m,
                                     !.created_at = now, !.reserved = w]
                ELSE IF e \in X
                THEN [ledger[e] EXCEPT !.status = "expired"]
                ELSE ledger[e]]
    BY DEF Reserve
<1>4. /\ ledger'[r].status = "reserved" /\ ledger'[r].month = m
      /\ ledger'[r].reserved = w
    BY <1>3 DEF NoEvent
<1>5. \A e \in X : /\ ledger'[e].status = "expired" /\ ledger'[e].month = m
                   /\ ledger[e].status = "reserved" /\ ledger[e].month = m
    <2> TAKE e \in X
    <2>1. e \in Requests /\ e # r /\ e \in Held(m)
        BY <1>2
    <2>2. ledger'[e] = [ledger[e] EXCEPT !.status = "expired"]
        BY <1>3, <2>1
    <2> QED BY <2>1, <2>2 DEF Held, Inv, TypeOK, Event
<1>6. \A e \in Requests \ (X \cup {r}) : ledger'[e] = ledger[e]
    BY <1>3
<1>7. /\ Made(m)' = Made(m) \cup {r}
      /\ Held(m)' = (S \ X) \cup {r}
      /\ Spent(m)' = Spent(m)
    <2>1. Made(m)' = Made(m) \cup {r}
        BY <1>1, <1>2, <1>4, <1>5, <1>6 DEF Made
    <2>2. Held(m)' = (S \ X) \cup {r}
        BY <1>1, <1>2, <1>4, <1>5, <1>6 DEF Held
    <2>3. Spent(m)' = Spent(m)
        BY <1>1, <1>2, <1>4, <1>5, <1>6 DEF Spent, Charged
    <2> QED BY <2>1, <2>2, <2>3
<1>8. /\ period'[m].request_count = period[m].request_count + 1
      /\ period'[m].active = Cardinality(S \ X) + 1
      /\ period'[m].reserved = Plus(SumReserved(S \ X), w)
      /\ period'[m].used = period[m].used
      /\ \A q \in Months \ {m} : period'[q] = period[q]
    <2>1. period' = [period EXCEPT ![m] = WithReservation(Reclaimed(m, t), w)]
        BY DEF Reserve
    <2>2. period[m] \in Period
        BY DEF Inv, TypeOK
    <2>3. period'[m] = WithReservation(Reclaimed(m, t), w)
          /\ \A q \in Months \ {m} : period'[q] = period[q]
        BY <2>1 DEF Inv, TypeOK
    <2>4. CountersOf(m)
        BY DEF Inv, CountersMatchLedger
    <2> QED BY <2>2, <2>3, <2>4, ReclaimedMatchesLedger DEF WithReservation, CountersOf, Period
<1>9. CountersOf(m)
    BY DEF Inv, CountersMatchLedger
<1>10. Cardinality(Made(m)) + 1 = Cardinality(Made(m)')
    <2>1. Cardinality(Made(m) \cup {r}) = Cardinality(Made(m)) + 1
        BY <1>2, FS_AddElement
    <2> QED BY <1>7, <2>1
<1>11. Cardinality(S \ X) + 1 = Cardinality(Held(m)')
    <2>1. Cardinality((S \ X) \cup {r}) = Cardinality(S \ X) + 1
        BY <1>2, FS_AddElement
    <2> QED BY <1>7, <2>1
<1>12. Plus(SumReserved(S \ X), w) = SumReserved(Held(m))'
    <2>1. ASSUME NEW d \in Dim
          PROVE  Total(S \ X, ReservedIn(d)) + w[d]
                    = Total((S \ X) \cup {r}, ReservedIn(d)')
        <3>1. \A e \in S \ X : ReservedIn(d)[e] \in Nat
            BY <1>2 DEF Inv, TypeOK, Event, Amount, ReservedIn
        <3>2. /\ \A e \in S \ X : (ReservedIn(d)')[e] = ReservedIn(d)[e]
              /\ (ReservedIn(d)')[r] = w[d] /\ w[d] \in Nat
            <4>1. \A e \in S \ X : e \in Requests /\ ledger'[e] = ledger[e]
                BY <1>2, <1>6
            <4> QED BY <1>1, <1>4, <4>1 DEF ReservedIn, Amount
        <3>3. \A e \in (S \ X) \cup {r} : (ReservedIn(d)')[e] \in Nat
            BY <3>1, <3>2
        <3>4. Total((S \ X) \cup {r}, ReservedIn(d)') =
                Total(S \ X, ReservedIn(d)') + (ReservedIn(d)')[r]
            BY <1>2, <3>3, TotalAdd
        <3>5. Total(S \ X, ReservedIn(d)') = Total(S \ X, ReservedIn(d))
            BY <3>2, TotalSame
        <3> QED BY <3>2, <3>4, <3>5
    <2>2. Plus(SumReserved(S \ X), w) = [d \in Dim |-> Total(S \ X, ReservedIn(d)) + w[d]]
        BY DEF Plus, SumReserved
    <2>3. SumReserved(Held(m))' = [d \in Dim |-> Total((S \ X) \cup {r}, ReservedIn(d)')]
        BY <1>7 DEF SumReserved
    <2> QED BY <2>1, <2>2, <2>3
<1>13. SumCharged(Spent(m))' = SumCharged(Spent(m))
    <2>1. ASSUME NEW d \in Dim
          PROVE  Total(Spent(m), ChargedIn(d)') = Total(Spent(m), ChargedIn(d))
        <3>1. \A e \in Spent(m) : e \in Requests \ (X \cup {r})
            BY <1>1, <1>5 DEF Spent, Charged
        <3>2. \A e \in Spent(m) : (ChargedIn(d)')[e] = ChargedIn(d)[e]
            BY <1>6, <3>1 DEF ChargedIn
        <3> QED BY <3>2, TotalSame
    <2> QED BY <1>7, <2>1 DEF SumCharged
<1>14. CountersOf(m)'
    <2>1. /\ period'[m].request_count = Cardinality(Made(m)')
          /\ period'[m].active = Cardinality(Held(m)')
          /\ period'[m].reserved = SumReserved(Held(m))'
          /\ period'[m].used = SumCharged(Spent(m))'
        BY <1>8, <1>9, <1>10, <1>11, <1>12, <1>13 DEF CountersOf
    <2> QED BY <2>1 DEF CountersOf
<1>15. ASSUME NEW q \in Months, q # m
       PROVE  CountersOf(q)'
    <2>1. Made(q)' = Made(q)
        BY <1>1, <1>4, <1>5, <1>6, <1>15 DEF Made
    <2>2. Held(q)' = Held(q)
        BY <1>1, <1>4, <1>5, <1>6, <1>15 DEF Held
    <2>3. Spent(q)' = Spent(q)
        BY <1>1, <1>4, <1>5, <1>6, <1>15 DEF Spent, Charged
    <2>4. \A e \in Held(q) : ledger'[e].reserved = ledger[e].reserved
        BY <1>1, <1>5, <1>6, <1>15 DEF Held
    <2>5. \A e \in Spent(q) : ledger'[e].charged = ledger[e].charged
        BY <1>1, <1>5, <1>6, <1>15 DEF Spent, Charged
    <2>6. CountersOf(q) /\ period'[q] = period[q]
        BY <1>8, <1>15 DEF Inv, CountersMatchLedger
    <2> QED BY <2>1, <2>2, <2>3, <2>4, <2>5, <2>6, MonthFrame
<1> QED BY <1>14, <1>15 DEF CountersMatchLedger

\* The counters follow every step.
LEMMA CountersStep ==
    ASSUME Inv, [Next]_vars
    PROVE  CountersMatchLedger'
<1>1. CountersMatchLedger
    BY DEF Inv
<1>2. CASE period' = period /\ ledger' = ledger
    BY <1>1, <1>2, StoreFrame
<1>3. ASSUME NEW r \in Requests, Reserve(r)
      PROVE  CountersMatchLedger'
    <2>1. ctx[r].began \in Clock
        BY DEF Inv, TypeOK, Context
    <2> QED BY <1>3, <2>1, MonthType, ReserveCounts
<1>4. ASSUME NEW r \in Requests, CallProvider(r)
      PROVE  CountersMatchLedger'
    <2>1. PICK exact \in ExactCounts :
            IF Lowers(r, exact)
            THEN /\ period' = [period EXCEPT ![ledger[r].month].reserved =
                        Minus(@, Minus(ledger[r].reserved, Recount(r, exact)))]
                 /\ ledger' = [ledger EXCEPT ![r].reserved = Recount(r, exact)]
            ELSE UNCHANGED <<period, ledger>>
        BY <1>4 DEF CallProvider
    <2>2. ledger[r].month \in Months
        BY DEF Inv, TypeOK, Event
    <2>3. CASE Lowers(r, exact)
        BY <2>1, <2>2, <2>3, RecountCounts
    <2>4. CASE ~ Lowers(r, exact)
        BY <1>2, <2>1, <2>4
    <2> QED BY <2>3, <2>4
<1>5. ASSUME NEW r \in Requests, NEW o \in Outcomes, Settle(r, o)
      PROVE  CountersMatchLedger'
    <2>1. ledger[r].month \in Months
        BY DEF Inv, TypeOK, Event
    <2> QED BY <1>5, <2>1, SettleCounts
<1>6. ASSUME NEW r \in Requests, Record(r)
      PROVE  CountersMatchLedger'
    <2>1. /\ period' = period
          /\ \A e \in Requests : /\ ledger'[e].month = ledger[e].month
                                 /\ ledger'[e].status = ledger[e].status
                                 /\ ledger'[e].reserved = ledger[e].reserved
                                 /\ ledger'[e].charged = ledger[e].charged
        BY <1>6 DEF Record, Inv, TypeOK, Event
    <2>2. ASSUME NEW q \in Months
          PROVE  CountersOf(q)'
        <3>1. Made(q)' = Made(q) /\ Held(q)' = Held(q) /\ Spent(q)' = Spent(q)
            BY <2>1 DEF Made, Held, Spent
        <3>2. /\ \A e \in Held(q) : ledger'[e].reserved = ledger[e].reserved
              /\ \A e \in Spent(q) : ledger'[e].charged = ledger[e].charged
            BY <2>1 DEF Held, Spent
        <3>3. CountersOf(q)
            BY <1>1 DEF CountersMatchLedger
        <3> QED BY <2>1, <3>1, <3>2, <3>3, MonthFrame
    <2> QED BY <2>2 DEF CountersMatchLedger
<1>7. ASSUME NEW r \in Requests,
             Prepare(r) \/ Enter(r) \/ Refuse(r) \/ RejectSettlement(r) \/ Crash(r)
      PROVE  CountersMatchLedger'
    BY <1>2, <1>7 DEF Prepare, Enter, Refuse, RejectSettlement, Crash, store
<1>8. CASE Tick \/ (\E p \in Policies : UpdatePolicy(p)) \/ UNCHANGED vars
    BY <1>2, <1>8 DEF Tick, UpdatePolicy, vars, store
<1> QED BY <1>3, <1>4, <1>5, <1>6, <1>7, <1>8 DEF Next, Serve

\* The types follow every step.
LEMMA TypeStep ==
    ASSUME Inv, [Next]_vars
    PROVE  TypeOK'
<1> USE DEF Inv
<1>1. ASSUME NEW r \in Requests, Prepare(r)
      PROVE  TypeOK'
    <2>1. PICK a \in Asks :
            ctx' = [ctx EXCEPT
                    ![r].policy = policy,
                    ![r].ask =
                        IF policy = NoPolicy THEN a
                        ELSE [a EXCEPT !["output"] =
                                SmallerOf(@, policy.per_request_output)]]
        BY <1>1 DEF Prepare
    <2>2. a \in Ask
        BY GovernanceAssumption
    <2>3. policy # NoPolicy => policy.per_request_output \in Nat
        BY GovernanceAssumption DEF TypeOK, Policy
    <2>4. [a EXCEPT !["output"] = SmallerOf(@, policy.per_request_output)] \in Ask
            \/ policy = NoPolicy
        BY <2>2, <2>3 DEF Ask, SmallerOf
    <2>5. ctx' \in [Requests -> Context]
        BY <2>1, <2>2, <2>4 DEF TypeOK, Context
    <2>6. pc' \in [Requests -> Stage]
        BY <1>1 DEF Prepare, Goto, TypeOK, Stage
    <2> QED BY <1>1, <2>5, <2>6 DEF Prepare, TypeOK, store
<1>2. ASSUME NEW r \in Requests, Enter(r)
      PROVE  TypeOK'
    BY <1>2 DEF Enter, Goto, TypeOK, Stage, Context, store
<1>3. ASSUME NEW r \in Requests, Reserve(r)
      PROVE  TypeOK'
    <2>1. NoContext \in Context
        BY GovernanceAssumption DEF NoContext, Context, Clock, Ask
    <2> DEFINE t == ctx[r].began
    <2> DEFINE m == MonthOf(t)
    <2>2. t \in Clock /\ m \in Months /\ Wanted(r) \in Amount
        BY MonthType, WantedType DEF TypeOK, Context
    <2>3. ledger' = [e \in Requests |->
                IF e = r
                THEN [NoEvent EXCEPT !.status = "reserved", !.month = m,
                                     !.created_at = now, !.reserved = Wanted(r)]
                ELSE IF e \in Stale(m, t)
                THEN [ledger[e] EXCEPT !.status = "expired"]
                ELSE ledger[e]]
        BY <1>3 DEF Reserve
    <2>4. period' = [period EXCEPT ![m] = WithReservation(Reclaimed(m, t), Wanted(r))]
        BY <1>3 DEF Reserve
    <2> HIDE DEF t, m
    <2>5. ASSUME NEW e \in Requests
          PROVE  ledger'[e] \in Event
        <3>1. CASE e = r
            <4>1. ledger'[e] = [status |-> "reserved", month |-> m, created_at |-> now,
                        reserved |-> Wanted(r), charged |-> Zero, run |-> FALSE]
                BY <2>3, <3>1 DEF NoEvent
            <4> QED BY <2>2, <4>1, ZeroType DEF Event, Status, TypeOK
        <3>2. CASE e # r /\ e \in Stale(m, t)
            BY <2>3, <3>2 DEF TypeOK, Event, Status
        <3>3. CASE e # r /\ e \notin Stale(m, t)
            BY <2>3, <3>3 DEF TypeOK
        <3> QED BY <3>1, <3>2, <3>3
    <2>6. ledger' \in [Requests -> Event]
        BY <2>3, <2>5
    <2>7. WithReservation(Reclaimed(m, t), Wanted(r)) \in Period
        <3>1. period[m] \in Period
            BY <2>2 DEF TypeOK
        <3>2. Stale(m, t) \subseteq Requests /\ IsFiniteSet(Stale(m, t))
            BY SetsFinite
        <3>3. SumReserved(Stale(m, t)) \in Amount /\ Cardinality(Stale(m, t)) \in Nat
            BY <3>2, SumsType, FS_CardinalityType
        <3>4. Reclaimed(m, t) \in Period
            <4>1. MinusClamped(period[m].reserved, SumReserved(Stale(m, t))) \in Amount
                BY <3>1, <3>3, MinusClampedType DEF Period
            <4>2. Clamp(period[m].active - Cardinality(Stale(m, t))) \in Nat
                BY <3>1, <3>3, ClampType DEF Period
            <4> QED BY <3>1, <4>1, <4>2 DEF Reclaimed, Period
        <3>5. Plus(Reclaimed(m, t).reserved, Wanted(r)) \in Amount
            BY <2>2, <3>4, PlusType DEF Period
        <3>6. PICK q \in Period : q = Reclaimed(m, t)
            BY <3>4
        <3>7. q.request_count + 1 \in Nat /\ q.active + 1 \in Nat
            BY DEF Period
        <3> QED BY <3>5, <3>6, <3>7 DEF WithReservation, Period
    <2>8. period' \in [Months -> Period]
        BY <2>2, <2>4, <2>7 DEF TypeOK
    <2>9. /\ now' = now /\ policy' = policy
          /\ ctx' = [ctx EXCEPT ![r] = NoContext]
          /\ pc' = [pc EXCEPT ![r] = "reserved"]
        BY <1>3 DEF Reserve, Goto
    <2>10. ctx' \in [Requests -> Context] /\ pc' \in [Requests -> Stage]
        BY <2>1, <2>9 DEF TypeOK, Stage
    <2> QED BY <2>6, <2>8, <2>9, <2>10 DEF TypeOK
<1>4. ASSUME NEW r \in Requests, Refuse(r)
      PROVE  TypeOK'
    <2>1. NoContext \in Context
        BY GovernanceAssumption DEF NoContext, Context, Clock, Ask
    <2> QED BY <1>4, <2>1 DEF Refuse, Goto, TypeOK, Stage, Ended, store
<1>5. ASSUME NEW r \in Requests, CallProvider(r)
      PROVE  TypeOK'
    <2>1. PICK exact \in ExactCounts :
            IF Lowers(r, exact)
            THEN /\ period' = [period EXCEPT ![ledger[r].month].reserved =
                        Minus(@, Minus(ledger[r].reserved, Recount(r, exact)))]
                 /\ ledger' = [ledger EXCEPT ![r].reserved = Recount(r, exact)]
            ELSE UNCHANGED <<period, ledger>>
        BY <1>5 DEF CallProvider
    <2>2. /\ now' = now /\ policy' = policy /\ ctx' = ctx
          /\ pc' \in [Requests -> Stage]
        BY <1>5 DEF CallProvider, Goto, TypeOK, Stage
    <2>3. CASE Lowers(r, exact)
        <3> DEFINE m == ledger[r].month
        <3>1. m \in Months /\ Recount(r, exact) \in Amount
            BY RecountType, GovernanceAssumption DEF TypeOK, Event
        <3>2. ledger' \in [Requests -> Event]
            BY <2>1, <2>3, <3>1 DEF TypeOK, Event
        <3>3. m' = m
            BY <2>1, <2>3 DEF TypeOK, Event
        <3> HIDE DEF m
        <3>4. SumReserved(Held(m))' \in Amount
            <4>1. IsFiniteSet(Held(m)') /\ Held(m)' \subseteq Requests
                <5>1. Held(m)' \subseteq Requests
                    BY DEF Held
                <5> QED BY <5>1, FS_Subset, GovernanceAssumption
            <4>2. ASSUME NEW d \in Dim
                  PROVE  Total(Held(m)', ReservedIn(d)') \in Nat
                <5>1. \A e \in Held(m)' : (ReservedIn(d)')[e] \in Nat
                    BY <3>2, <4>1 DEF Event, Amount, ReservedIn
                <5> QED BY <4>1, <5>1, TotalType
            <4> QED BY <4>2 DEF SumReserved, Amount
        <3>5. (period'[m].reserved) \in Amount
            BY <3>1, <3>3, <3>4, CountersStep, <1>5 DEF CountersMatchLedger, CountersOf, Next, Serve
        <3>6. period' \in [Months -> Period]
            <4>1. period' = [period EXCEPT ![m].reserved =
                        Minus(@, Minus(ledger[r].reserved, Recount(r, exact)))]
                BY <2>1, <2>3 DEF m
            <4>2. \A q \in Months \ {m} : period'[q] = period[q]
                BY <4>1 DEF TypeOK
            <4>3. period'[m] \in Period
                BY <3>1, <3>5, <4>1 DEF TypeOK, Period
            <4>4. DOMAIN period' = Months /\ period' = [q \in Months |-> period'[q]]
                BY <4>1 DEF TypeOK
            <4> QED BY <4>2, <4>3, <4>4 DEF TypeOK
        <3> QED BY <2>2, <3>2, <3>6 DEF TypeOK
    <2>4. CASE ~ Lowers(r, exact)
        BY <2>1, <2>2, <2>4 DEF TypeOK
    <2> QED BY <2>3, <2>4
<1>6. ASSUME NEW r \in Requests, NEW o \in Outcomes, Settle(r, o)
      PROVE  TypeOK'
    <2> DEFINE m == ledger[r].month
    <2>1. /\ m \in Months /\ Charge(r, o) \in Amount /\ FinalStatus(r, o) \in Charged
          /\ ledger[r].reserved \in Amount
        BY ChargeType, FinalStatusType DEF TypeOK, Event
    <2>2. ledger' \in [Requests -> Event]
        <3>1. ledger' = [ledger EXCEPT ![r].status  = FinalStatus(r, o),
                                       ![r].charged = Charge(r, o)]
            BY <1>6 DEF Settle
        <3> QED BY <2>1, <3>1 DEF TypeOK, Event, Status
    <2>3. period' \in [Months -> Period]
        <3>1. period' = [period EXCEPT
                ![m].active   = Clamp(@ - 1),
                ![m].reserved = MinusClamped(@, ledger[r].reserved),
                ![m].used     = Plus(@, Charge(r, o))]
            BY <1>6 DEF Settle
        <3> HIDE DEF m
        <3>2. period[m] \in Period
            BY <2>1 DEF TypeOK
        <3>3. /\ Clamp(period[m].active - 1) \in Nat
              /\ MinusClamped(period[m].reserved, ledger[r].reserved) \in Amount
              /\ Plus(period[m].used, Charge(r, o)) \in Amount
            BY <2>1, <3>2, ClampType, MinusClampedType, PlusType DEF Period
        <3> QED BY <2>1, <3>1, <3>2, <3>3 DEF TypeOK, Period
    <2>4. /\ now' = now /\ policy' = policy /\ ctx' = ctx
          /\ pc' \in [Requests -> Stage]
        BY <1>6 DEF Settle, Goto, TypeOK, Stage
    <2> QED BY <2>2, <2>3, <2>4 DEF TypeOK
<1>7. ASSUME NEW r \in Requests, RejectSettlement(r)
      PROVE  TypeOK'
    BY <1>7 DEF RejectSettlement, Goto, TypeOK, Stage, Ended, store
<1>8. ASSUME NEW r \in Requests, Record(r)
      PROVE  TypeOK'
    <2>1. ledger' \in [Requests -> Event]
        BY <1>8 DEF Record, TypeOK, Event
    <2>2. pc' \in [Requests -> Stage]
        BY <1>8 DEF Record, Goto, TypeOK, Stage, Ended
    <2> QED BY <1>8, <2>1, <2>2 DEF Record, TypeOK
<1>9. ASSUME NEW r \in Requests, Crash(r)
      PROVE  TypeOK'
    BY <1>9 DEF Crash, TypeOK, Stage, Ended, store
<1>10. CASE Tick
    BY <1>10, GovernanceAssumption DEF Tick, TypeOK, Clock, store
<1>11. ASSUME NEW p \in Policies, UpdatePolicy(p)
       PROVE  TypeOK'
    BY <1>11 DEF UpdatePolicy, TypeOK
<1>12. CASE UNCHANGED vars
    BY <1>12 DEF vars, store, TypeOK
<1> QED BY <1>1, <1>2, <1>3, <1>4, <1>5, <1>6, <1>7, <1>8, <1>9, <1>10, <1>11, <1>12
        DEF Next, Serve

\* What a step may do to one event.
LEMMA EventSteps ==
    ASSUME Inv, [Next]_vars, NEW r \in Requests
    PROVE  \/ ledger'[r] = ledger[r]
           \/ Reserve(r) /\ ledger[r].status = "none"
           \/ /\ ledger[r].status = "reserved"
              /\ ledger'[r] = [ledger[r] EXCEPT !.status = "expired"]
           \/ \E exact \in ExactCounts :
                /\ CallProvider(r) /\ Lowers(r, exact)
                /\ ledger'[r] = [ledger[r] EXCEPT !.reserved = Recount(r, exact)]
           \/ \E o \in Outcomes :
                /\ Settle(r, o) /\ ledger[r].status = "reserved"
                /\ ledger'[r] = [ledger[r] EXCEPT !.status  = FinalStatus(r, o),
                                                 !.charged = Charge(r, o)]
           \/ Record(r) /\ ledger'[r] = [ledger[r] EXCEPT !.run = TRUE]
<1>1. ledger \in [Requests -> Event]
    BY DEF Inv, TypeOK
<1>2. CASE ledger' = ledger
    BY <1>2
<1>3. ASSUME NEW e \in Requests, Reserve(e)
      PROVE  \/ ledger'[r] = ledger[r]
             \/ Reserve(r) /\ ledger[r].status = "none"
             \/ /\ ledger[r].status = "reserved"
                /\ ledger'[r] = [ledger[r] EXCEPT !.status = "expired"]
    <2>1. ledger[e].status = "none"
        BY <1>3 DEF Inv, NoEventBeforeReservation, Reserve, Goto
    <2> DEFINE X == Stale(MonthOf(ctx[e].began), ctx[e].began)
    <2>2. CASE r = e
        BY <1>3, <2>1, <2>2
    <2>3. CASE r # e /\ r \in X
        <3>1. ledger'[r] = [ledger[r] EXCEPT !.status = "expired"]
            BY <1>3, <2>3 DEF Reserve
        <3>2. ledger[r].status = "reserved"
            BY <2>3 DEF Stale, Held
        <3> QED BY <3>1, <3>2
    <2>4. CASE r # e /\ r \notin X
        BY <1>3, <2>4 DEF Reserve
    <2> QED BY <2>2, <2>3, <2>4
<1>4. ASSUME NEW e \in Requests, CallProvider(e)
      PROVE  \/ ledger'[r] = ledger[r]
             \/ \E exact \in ExactCounts :
                /\ CallProvider(r) /\ Lowers(r, exact)
                /\ ledger'[r] = [ledger[r] EXCEPT !.reserved = Recount(r, exact)]
    <2>1. PICK exact \in ExactCounts :
            IF Lowers(e, exact)
            THEN ledger' = [ledger EXCEPT ![e].reserved = Recount(e, exact)]
            ELSE ledger' = ledger
        BY <1>4 DEF CallProvider
    <2>2. CASE Lowers(e, exact) /\ r = e
        BY <1>1, <1>4, <2>1, <2>2
    <2>3. CASE ~ Lowers(e, exact) \/ r # e
        BY <1>1, <2>1, <2>3
    <2> QED BY <2>2, <2>3
<1>5. ASSUME NEW e \in Requests, NEW o \in Outcomes, Settle(e, o)
      PROVE  \/ ledger'[r] = ledger[r]
             \/ /\ Settle(r, o) /\ ledger[r].status = "reserved"
                /\ ledger'[r] = [ledger[r] EXCEPT !.status  = FinalStatus(r, o),
                                                 !.charged = Charge(r, o)]
    <2>1. /\ ledger[e].status = "reserved"
          /\ ledger' = [ledger EXCEPT ![e].status  = FinalStatus(e, o),
                                      ![e].charged = Charge(e, o)]
        BY <1>5 DEF Settle, Settleable
    <2>2. CASE r = e
        BY <1>1, <1>5, <2>1, <2>2
    <2>3. CASE r # e
        BY <1>1, <2>1, <2>3
    <2> QED BY <2>2, <2>3
<1>6. ASSUME NEW e \in Requests, Record(e)
      PROVE  \/ ledger'[r] = ledger[r]
             \/ Record(r) /\ ledger'[r] = [ledger[r] EXCEPT !.run = TRUE]
    <2>1. ledger' = [ledger EXCEPT ![e].run = TRUE]
        BY <1>6 DEF Record
    <2>2. CASE r = e
        BY <1>1, <1>6, <2>1, <2>2
    <2>3. CASE r # e
        BY <1>1, <2>1, <2>3
    <2> QED BY <2>2, <2>3
<1>7. ASSUME NEW e \in Requests,
             Prepare(e) \/ Enter(e) \/ Refuse(e) \/ RejectSettlement(e) \/ Crash(e)
      PROVE  ledger' = ledger
    BY <1>7 DEF Prepare, Enter, Refuse, RejectSettlement, Crash, store
<1>8. CASE Tick \/ (\E p \in Policies : UpdatePolicy(p)) \/ UNCHANGED vars
    BY <1>2, <1>8 DEF Tick, UpdatePolicy, vars, store
<1> QED BY <1>2, <1>3, <1>4, <1>5, <1>6, <1>7, <1>8 DEF Next, Serve

\* A handler that has not reserved is still without an event after a step.
LEMMA NoEventStep ==
    ASSUME Inv, [Next]_vars
    PROVE  NoEventBeforeReservation'
<1> SUFFICES ASSUME NEW r \in Requests,
                    pc'[r] \in {"idle", "prepared", "reserving", "refused"}
             PROVE  ledger'[r].status = "none"
    BY DEF NoEventBeforeReservation
<1>1. pc[r] \in {"idle", "prepared", "reserving", "refused"}
    BY DEF Next, Serve, Inv, TypeOK, Prepare, Enter, Reserve, Refuse, CallProvider,
           Settle, RejectSettlement, Record, Crash, Goto, Tick, UpdatePolicy, vars, store
<1>2. ledger[r].status = "none"
    BY <1>1 DEF Inv, NoEventBeforeReservation
<1>3. ASSUME Reserve(r) PROVE FALSE
    <2>1. pc \in [Requests -> Stage]
        BY DEF Inv, TypeOK
    <2>2. pc'[r] = "reserved"
        BY <1>3, <2>1 DEF Reserve, Goto
    <2> QED BY <2>2
<1>4. ASSUME Record(r) PROVE FALSE
    <2>1. pc[r] = "settled"
        BY <1>4 DEF Record, Goto
    <2> QED BY <1>1, <2>1
<1>5. ledger[r] \in Event
    BY DEF Inv, TypeOK
<1> QED BY <1>2, <1>3, <1>4, <1>5, EventSteps DEF Event

\* A live reservation is repriced with its tokens.
LEMMA PricedStep ==
    ASSUME Inv, [Next]_vars
    PROVE  ReservationsArePriced'
<1> DEFINE Repriced(a) == a = Priced(a["input"], 0, a["output"], a["web"])
<1> SUFFICES ASSUME NEW r \in Requests, ledger'[r].status = "reserved"
             PROVE  Repriced(ledger'[r].reserved)
    BY DEF ReservationsArePriced
<1>1. ASSUME NEW input \in Nat, NEW output \in Nat, NEW web \in Nat
      PROVE  Repriced(Priced(input, 0, output, web))
    BY <1>1 DEF Priced, Clamp, Dim
<1> HIDE DEF Repriced
<1>2. ledger[r] \in Event
    BY DEF Inv, TypeOK
<1>3. CASE ledger'[r].status = ledger[r].status /\ ledger'[r].reserved = ledger[r].reserved
    BY <1>3 DEF Inv, ReservationsArePriced, Repriced
<1>4. CASE Reserve(r)
    <2>1. ctx[r].ask \in Ask
        BY DEF Inv, TypeOK, Context
    <2>2. ledger'[r].reserved = Wanted(r)
        BY <1>4 DEF Reserve, NoEvent
    <2> QED BY <1>1, <2>1, <2>2 DEF Wanted, Ask
<1>5. ASSUME NEW exact \in ExactCounts,
             ledger'[r] = [ledger[r] EXCEPT !.reserved = Recount(r, exact)]
      PROVE  Repriced(ledger'[r].reserved)
    <2>1. ledger'[r].reserved = Recount(r, exact)
        BY <1>2, <1>5 DEF Event
    <2>2. /\ exact \in Nat
          /\ ledger[r].reserved["output"] \in Nat /\ ledger[r].reserved["web"] \in Nat
        BY <1>2, GovernanceAssumption DEF Event, Amount, Dim
    <2> QED BY <1>1, <2>1, <2>2 DEF Recount
<1>6. ASSUME NEW o \in Outcomes,
             ledger'[r] = [ledger[r] EXCEPT !.status  = FinalStatus(r, o),
                                            !.charged = Charge(r, o)]
      PROVE  FALSE
    <2>1. ledger'[r].status \in Charged
        BY <1>2, <1>6, FinalStatusType DEF Event
    <2> QED BY <2>1 DEF Charged
<1>7. ASSUME ledger'[r] = [ledger[r] EXCEPT !.status = "expired"]
      PROVE  FALSE
    BY <1>2, <1>7 DEF Event
<1>8. CASE ledger'[r] = [ledger[r] EXCEPT !.run = TRUE]
    BY <1>2, <1>3, <1>8 DEF Event
<1> QED BY <1>3, <1>4, <1>5, <1>6, <1>7, <1>8, EventSteps

-----------------------------------------------------------------------------

\* The inductive invariant holds at the start.
LEMMA InvInit == Init => Inv
<1> SUFFICES ASSUME Init PROVE Inv
    OBVIOUS
<1>1. 0 \in Clock
    BY GovernanceAssumption DEF Clock
<1>2. 0 \in Months
    <2>1. MonthOf(0) = 0
        BY GovernanceAssumption DEF MonthOf
    <2> QED BY <1>1, <2>1 DEF Months
<1>3. NoEvent \in Event /\ EmptyPeriod \in Period
    BY <1>1, <1>2, ZeroType DEF NoEvent, Event, Status, EmptyPeriod, Period
<1>4. NoContext \in Context
    BY <1>1 DEF NoContext, Context, Ask
<1>5. TypeOK
    BY <1>1, <1>3, <1>4 DEF Init, TypeOK, Stage
<1>6. ASSUME NEW m \in Months
      PROVE  CountersOf(m)
    <2>1. Made(m) = {} /\ Held(m) = {} /\ Spent(m) = {}
        BY DEF Init, NoEvent, Made, Held, Spent, Charged
    <2>2. SumReserved({}) = Zero /\ SumCharged({}) = Zero
        BY TotalEmpty DEF SumReserved, SumCharged, Zero
    <2> QED BY <2>1, <2>2, FS_EmptySet DEF Init, EmptyPeriod, CountersOf
<1>7. NoEventBeforeReservation
    BY DEF Init, NoEvent, NoEventBeforeReservation
<1>8. ReservationsArePriced
    BY DEF Init, NoEvent, ReservationsArePriced
<1> QED BY <1>5, <1>6, <1>7, <1>8 DEF Inv, CountersMatchLedger

\* Every step preserves the inductive invariant.
LEMMA InvStep == Inv /\ [Next]_vars => Inv'
BY CountersStep, TypeStep, NoEventStep, PricedStep DEF Inv

\* The inductive invariant holds in every reachable state.
THEOREM SpecInv == Spec => []Inv
BY InvInit, InvStep, PTL DEF Spec

\* No counter and no event of the budget ever holds a negative amount.
THEOREM SpecTypeOK == Spec => []TypeOK
<1>1. Inv => TypeOK
    BY DEF Inv
<1> QED BY <1>1, SpecInv, PTL

\* The counters of every month equal what its events say, for any number of
\* requests, in any interleaving with expiry, recounting and crashes.
THEOREM SpecCountersMatchLedger == Spec => []CountersMatchLedger
<1>1. Inv => CountersMatchLedger
    BY DEF Inv
<1> QED BY <1>1, SpecInv, PTL

-----------------------------------------------------------------------------

\* The exact count lowers every dimension of what is reserved.
LEMMA RecountLowers ==
    ASSUME Inv, NEW r \in Requests, NEW exact \in ExactCounts, Lowers(r, exact),
           NEW d \in Dim
    PROVE  Recount(r, exact)[d] <= ledger[r].reserved[d]
<1> DEFINE a == ledger[r].reserved
<1>1. /\ exact \in Nat /\ exact <= a["input"] /\ a \in Amount
      /\ a = Priced(a["input"], 0, a["output"], a["web"])
    BY GovernanceAssumption
        DEF Inv, TypeOK, Event, Amount, Dim, ReservationsArePriced, Lowers
<1>2. a["input"] \in Nat /\ a["output"] \in Nat /\ a["web"] \in Nat
    BY <1>1 DEF Amount, Dim
<1>3. a["cost"] = EstimateCost(a["input"], 0, a["output"], a["web"])
    BY <1>1 DEF Priced, Dim
<1> HIDE DEF a
<1>4. /\ Priced(exact, 0, a["output"], a["web"])["input"] = exact
      /\ Priced(exact, 0, a["output"], a["web"])["output"] = a["output"]
      /\ Priced(exact, 0, a["output"], a["web"])["web"] = a["web"]
      /\ Priced(exact, 0, a["output"], a["web"])["cost"]
            = EstimateCost(exact, 0, a["output"], a["web"])
    BY <1>1, <1>2 DEF Priced, Dim, Clamp
<1>5. EstimateCost(exact, 0, a["output"], a["web"])
        <= EstimateCost(a["input"], 0, a["output"], a["web"])
    BY <1>1, <1>2, EstimateCostMonotonic
<1>6. Priced(exact, 0, a["output"], a["web"])[d] <= a[d]
    BY <1>1, <1>2, <1>3, <1>4, <1>5 DEF Dim
<1> QED BY <1>6 DEF Recount, a

\* The usage ledger is append-oriented: a finished or expired event is never
\* charged, released or repriced again, and a live one is never raised.
THEOREM SpecLedgerIsAppendOnly == Spec => LedgerIsAppendOnly
<1>1. ASSUME Inv, [Next]_vars, NEW r \in Requests
      PROVE  LedgerStep(ledger[r], ledger'[r])
    <2>1. ledger[r] \in Event
        BY <1>1 DEF Inv, TypeOK
    <2>2. \A d \in Dim : ledger[r].reserved[d] <= ledger[r].reserved[d]
        BY <2>1 DEF Event, Amount
    <2>3. CASE ledger'[r] = ledger[r]
        BY <2>2, <2>3 DEF LedgerStep
    <2>4. CASE ledger[r].status = "none"
        BY <2>4 DEF LedgerStep, Charged
    <2>5. CASE /\ ledger[r].status = "reserved"
               /\ ledger'[r] = [ledger[r] EXCEPT !.status = "expired"]
        BY <2>1, <2>2, <2>5 DEF LedgerStep, Event, Charged
    <2>6. ASSUME NEW exact \in ExactCounts, Lowers(r, exact),
                 ledger'[r] = [ledger[r] EXCEPT !.reserved = Recount(r, exact)]
          PROVE  LedgerStep(ledger[r], ledger'[r])
        <3>1. ledger[r].status = "reserved"
            BY <2>6 DEF Lowers
        <3>2. ledger'[r].month = ledger[r].month /\ ledger'[r].reserved = Recount(r, exact)
            BY <2>1, <2>6 DEF Event
        <3> QED BY <1>1, <2>6, <3>1, <3>2, RecountLowers DEF LedgerStep, Charged
    <2>7. ASSUME NEW o \in Outcomes, ledger[r].status = "reserved",
                 ledger'[r] = [ledger[r] EXCEPT !.status  = FinalStatus(r, o),
                                                !.charged = Charge(r, o)]
          PROVE  LedgerStep(ledger[r], ledger'[r])
        BY <2>1, <2>2, <2>7 DEF LedgerStep, Event, Charged
    <2>8. CASE ledger'[r] = [ledger[r] EXCEPT !.run = TRUE]
        BY <2>1, <2>2, <2>8 DEF LedgerStep, Event
    <2> QED BY <1>1, <2>3, <2>4, <2>5, <2>6, <2>7, <2>8, EventSteps
<1>2. Inv /\ [Next]_vars => [\A r \in Requests : LedgerStep(ledger[r], ledger'[r])]_vars
    BY <1>1
<1> QED BY <1>2, SpecInv, PTL DEF Spec, LedgerIsAppendOnly

-----------------------------------------------------------------------------

\* What the monthly checks come to.
LEMMA NoMonthlyWarnings ==
    ASSUME NEW p, NEW q, NEW a, NEW n
    PROVE  LET used == Plus(q.used, q.reserved)
           IN  MonthlyWarnings(p, q, a, n) = {} <=>
                /\ ~ Exceeds(q.request_count, n, p.monthly_requests)
                /\ ~ Exceeds(used["input"], a["input"], p.monthly_input)
                /\ ~ Exceeds(used["output"], a["output"], p.monthly_output)
                /\ ~ Exceeds(used["cost"], a["cost"], p.monthly_budget)
BY DEF MonthlyWarnings

\* A limit that is not exceeded has room.
LEMMA NotExceeding ==
    ASSUME NEW used \in Nat, NEW more \in Nat, NEW limit \in Nat
    PROVE  ~ Exceeds(used, more, limit) <=> RoomFor(used, more, limit)
BY DEF Exceeds, RoomFor

\* The checks of reserve_ai_usage on its counters decide as the ledger does.
LEMMA AdmitsMatchesLedger ==
    ASSUME Inv, NEW r \in Requests
    PROVE  Admits(r) <=> LedgerHasRoom(r)
<1> DEFINE p == PolicyHeld(r)
<1> DEFINE t == ctx[r].began
<1> DEFINE m == MonthOf(t)
<1> DEFINE live == Held(m) \ Stale(m, t)
<1> DEFINE q == Reclaimed(m, t)
<1> DEFINE w == Wanted(r)
<1>1. t \in Clock /\ m \in Months /\ w \in Amount
    BY MonthType, WantedType DEF Inv, TypeOK, Context
<1>2. p = NoPolicy \/ p \in Policy
    BY GovernanceAssumption DEF PolicyHeld, Inv, TypeOK, Context
<1>3. CASE p = NoPolicy
    BY <1>3 DEF Admits, LedgerHasRoom
<1>4. CASE p # NoPolicy
    <2>1. /\ q.request_count = Cardinality(Made(m))
          /\ q.active = Cardinality(live)
          /\ q.reserved = SumReserved(live)
          /\ q.used = SumCharged(Spent(m))
        BY <1>1, ReclaimedMatchesLedger
    <2> DEFINE use == Plus(SumCharged(Spent(m)), SumReserved(live))
    <2>2. Plus(q.used, q.reserved) = use
        BY <2>1
    <2>3. use \in Amount
        <3>1. live \subseteq Requests /\ Spent(m) \subseteq Requests
            BY SetsFinite
        <3>2. SumReserved(live) \in Amount /\ SumCharged(Spent(m)) \in Amount
            BY <3>1, SumsType DEF Inv
        <3> QED BY <3>2, PlusType
    <2>4. Cardinality(Made(m)) \in Nat
        BY SetsFinite, FS_CardinalityType
    <2> HIDE DEF p, q, use, w, live
    <2>5. MonthlyWarnings(p, q, w, 1) = {} <=>
            /\ ~ Exceeds(Cardinality(Made(m)), 1, p.monthly_requests)
            /\ ~ Exceeds(use["input"], w["input"], p.monthly_input)
            /\ ~ Exceeds(use["output"], w["output"], p.monthly_output)
            /\ ~ Exceeds(use["cost"], w["cost"], p.monthly_budget)
        BY <2>1, <2>2, NoMonthlyWarnings
    <2>6. /\ p.monthly_requests \in Nat /\ p.monthly_input \in Nat
          /\ p.monthly_output \in Nat /\ p.monthly_budget \in Nat
        BY <1>2, <1>4 DEF Policy
    <2>7. /\ \A d \in Dim : use[d] \in Nat /\ w[d] \in Nat
          /\ "input" \in Dim /\ "output" \in Dim /\ "cost" \in Dim
        BY <1>1, <2>3 DEF Amount, Dim
    <2>8. MonthlyWarnings(p, q, w, 1) = {} <=>
            /\ Cardinality(Made(m)) < p.monthly_requests
            /\ RoomFor(use["input"], w["input"], p.monthly_input)
            /\ RoomFor(use["output"], w["output"], p.monthly_output)
            /\ RoomFor(use["cost"], w["cost"], p.monthly_budget)
        <3>1. ~ Exceeds(Cardinality(Made(m)), 1, p.monthly_requests)
                <=> Cardinality(Made(m)) < p.monthly_requests
            BY <2>4, <2>6 DEF Exceeds
        <3>2. /\ ~ Exceeds(use["input"], w["input"], p.monthly_input)
                    <=> RoomFor(use["input"], w["input"], p.monthly_input)
              /\ ~ Exceeds(use["output"], w["output"], p.monthly_output)
                    <=> RoomFor(use["output"], w["output"], p.monthly_output)
              /\ ~ Exceeds(use["cost"], w["cost"], p.monthly_budget)
                    <=> RoomFor(use["cost"], w["cost"], p.monthly_budget)
            BY <2>6, <2>7, NotExceeding
        <3> QED BY <2>5, <3>1, <3>2
    <2>9. Admits(r) <=>
            /\ p # NoPolicy
            /\ p.enabled
            /\ w["input"] <= p.per_request_input
            /\ w["output"] <= p.per_request_output
            /\ Cardinality(live) < p.max_concurrent
            /\ p.enforce => MonthlyWarnings(p, q, w, 1) = {}
        BY <2>1 DEF Admits, QuotaAllows, p, q, w
    <2>10. LedgerHasRoom(r) <=>
            /\ p # NoPolicy
            /\ p.enabled
            /\ w["input"] <= p.per_request_input
            /\ w["output"] <= p.per_request_output
            /\ Cardinality(live) < p.max_concurrent
            /\ p.enforce =>
                /\ Cardinality(Made(m)) < p.monthly_requests
                /\ RoomFor(use["input"], w["input"], p.monthly_input)
                /\ RoomFor(use["output"], w["output"], p.monthly_output)
                /\ RoomFor(use["cost"], w["cost"], p.monthly_budget)
        BY DEF LedgerHasRoom, p, w, live, use
    <2> QED BY <2>8, <2>9, <2>10
<1> QED BY <1>3, <1>4

\* A request is let in exactly when the ledger itself has room for it.
THEOREM SpecAdmissionFollowsLedger == Spec => AdmissionFollowsLedger
<1>1. ASSUME Inv, [Next]_vars, NEW r \in Requests, pc[r] = "reserving",
             pc'[r] \in {"reserved", "refused"}
      PROVE  pc'[r] = "reserved" <=> LedgerHasRoom(r)
    <2>2. pc \in [Requests -> Stage]
        BY <1>1 DEF Inv, TypeOK
    <2>1. Reserve(r) \/ Refuse(r)
        <3>1. CASE UNCHANGED vars \/ Tick \/ \E p \in Policies : UpdatePolicy(p)
            BY <1>1, <3>1 DEF vars, Tick, UpdatePolicy
        <3>2. ASSUME NEW e \in Requests, Prepare(e) \/ Serve(e) \/ Crash(e)
              PROVE  e = r
            <4>1. PICK to : pc' = [pc EXCEPT ![e] = to]
                BY <3>2 DEF Serve, Prepare, Enter, Reserve, Refuse, CallProvider,
                            Settle, RejectSettlement, Record, Crash, Goto
            <4> QED BY <1>1, <2>2, <4>1
        <3>3. ASSUME Prepare(r) \/ Enter(r) \/ CallProvider(r) \/ RejectSettlement(r)
                        \/ Record(r) \/ Crash(r) \/ \E o \in Outcomes : Settle(r, o)
              PROVE  FALSE
            <4>1. CASE Enter(r)
                BY <1>1, <2>2, <4>1 DEF Enter, Goto
            <4>2. CASE Prepare(r) \/ CallProvider(r) \/ RejectSettlement(r) \/ Record(r)
                BY <1>1, <4>2 DEF Prepare, CallProvider, RejectSettlement, Record, Goto
            <4>3. CASE Crash(r) \/ \E o \in Outcomes : Settle(r, o)
                BY <1>1, <4>3 DEF Crash, Settle, Goto
            <4> QED BY <3>3, <4>1, <4>2, <4>3
        <3> QED BY <1>1, <3>1, <3>2, <3>3 DEF Next, Serve
    <2>3. CASE Reserve(r)
        <3>1. Admits(r) /\ pc'[r] = "reserved"
            BY <2>2, <2>3 DEF Reserve, Goto
        <3> QED BY <1>1, <3>1, AdmitsMatchesLedger
    <2>4. CASE Refuse(r)
        <3>1. ~ Admits(r) /\ pc'[r] = "refused"
            BY <2>2, <2>4 DEF Refuse, Goto
        <3> QED BY <1>1, <3>1, AdmitsMatchesLedger
    <2> QED BY <2>1, <2>3, <2>4
<1>2. Inv /\ [Next]_vars =>
        [\A r \in Requests :
            pc[r] = "reserving" /\ pc'[r] \in {"reserved", "refused"}
                => (pc'[r] = "reserved" <=> LedgerHasRoom(r))]_vars
    BY <1>1
<1> QED BY <1>2, SpecInv, PTL DEF Spec, AdmissionFollowsLedger

-----------------------------------------------------------------------------

\* The abstract stage of each status.
LEMMA StageOfStatus ==
    /\ StageOf("none") = "free" /\ StageOf("reserved") = "held"
    /\ StageOf("expired") = "released"
    /\ \A s \in Charged : StageOf(s) = "spent"
BY DEF StageOf, Charged

\* The escrow's held allowances are the live reservations.
LEMMA EscrowHeld ==
    ASSUME Inv, NEW m \in Months
    PROVE  Escrow!HeldIn(m) = Held(m)
<1>1. \A r \in Requests : EscrowStage[r] = "held" <=> ledger[r].status = "reserved"
    <2> TAKE r \in Requests
    <2>1. ledger[r].status \in Status
        BY DEF Inv, TypeOK, Event
    <2>2. EscrowStage[r] = StageOf(ledger[r].status)
        BY DEF EscrowStage
    <2> QED BY <2>1, <2>2, StageOfStatus DEF Status
<1> QED BY <1>1 DEF Escrow!HeldIn, EscrowMonth, Held

\* UsageEscrow counts with the same operator.
LEMMA EscrowCardinality ==
    ASSUME NEW S
    PROVE  Escrow!Cardinality(S) = Cardinality(S)
BY DEF Escrow!Cardinality, Cardinality

\* The initial states map to initial states of the escrow.
LEMMA EscrowInit ==
    ASSUME Init
    PROVE  Escrow!Init
<1>1. TypeOK
    BY InvInit DEF Inv
<1>2. EscrowStage = [r \in Requests |-> "free"]
    BY StageOfStatus DEF Init, NoEvent, EscrowStage
<1>3. EscrowMonth \in [Requests -> Months]
    BY <1>1 DEF TypeOK, Event, EscrowMonth
<1> QED BY <1>2, <1>3 DEF Escrow!Init

\* A reservation is a grant that releases the stale allowances of its month.
LEMMA EscrowGrant ==
    ASSUME Inv, NEW r \in Requests, Reserve(r)
    PROVE  Escrow!Next
<1>1. PICK t \in Clock : t = ctx[r].began
    BY DEF Inv, TypeOK, Context
<1>2. PICK m \in Months : m = MonthOf(t)
    BY MonthType
<1> DEFINE X == Stale(m, t)
<1>3. X \subseteq Escrow!HeldIn(m)
    BY SetsFinite, EscrowHeld
<1>4. Cardinality(Escrow!HeldIn(m) \ X) < ConcurrencyLimit
    <2>1. PICK p \in Policy : p = PolicyHeld(r)
        BY GovernanceAssumption DEF Reserve, Admits, PolicyHeld, Inv, TypeOK, Context
    <2>2. Reclaimed(m, t).active < p.max_concurrent
        BY <1>1, <1>2, <2>1 DEF Reserve, Admits, QuotaAllows
    <2>3. Reclaimed(m, t).active = Cardinality(Held(m) \ X)
        BY ReclaimedMatchesLedger
    <2>4. Cardinality(Held(m) \ X) \in Nat
        BY SetsFinite, FS_Difference, FS_CardinalityType
    <2>5. p.max_concurrent \in Int /\ p.max_concurrent <= ConcurrencyLimit
        BY GovernanceAssumption DEF Policy
    <2>6. Cardinality(Held(m) \ X) < ConcurrencyLimit
        BY <2>2, <2>3, <2>4, <2>5, GovernanceAssumption
    <2> QED BY <2>6, EscrowHeld
<1>5. /\ ledger[r].status = "none"
      /\ ledger' = [e \in Requests |->
                IF e = r
                THEN [NoEvent EXCEPT !.status = "reserved", !.month = m,
                                     !.created_at = now, !.reserved = Wanted(r)]
                ELSE IF e \in X
                THEN [ledger[e] EXCEPT !.status = "expired"]
                ELSE ledger[e]]
    BY <1>1, <1>2 DEF Inv, NoEventBeforeReservation, Reserve, Goto
<1>6. ASSUME NEW e \in Requests
      PROVE  /\ ledger[e] \in Event
             /\ e = r => ledger'[e].status = "reserved" /\ ledger'[e].month = m
             /\ e # r /\ e \in X => /\ ledger'[e].status = "expired"
                                   /\ ledger'[e].month = ledger[e].month
             /\ e # r /\ e \notin X => ledger'[e] = ledger[e]
    <2>1. ledger[e] \in Event
        BY DEF Inv, TypeOK
    <2> QED BY <1>5, <2>1 DEF NoEvent, Event
<1>7. EscrowStage[r] = "free"
    BY <1>5, StageOfStatus DEF EscrowStage
<1>8. EscrowStage' = [e \in Requests |->
            IF e = r THEN "held" ELSE IF e \in X THEN "released" ELSE EscrowStage[e]]
    BY <1>6, StageOfStatus DEF EscrowStage
<1>9. EscrowMonth' = [EscrowMonth EXCEPT ![r] = m]
    BY <1>6 DEF EscrowMonth
<1>10. Escrow!Grant(r, m, X)
    BY <1>4, <1>7, <1>8, <1>9, EscrowCardinality DEF Escrow!Grant
<1> QED BY <1>3, <1>10 DEF Escrow!Next

\* A settlement spends the allowance of its request.
LEMMA EscrowSpend ==
    ASSUME Inv, NEW r \in Requests, NEW o \in Outcomes, Settle(r, o)
    PROVE  Escrow!Next
<1>1. /\ ledger[r].status = "reserved"
      /\ ledger' = [ledger EXCEPT ![r].status  = FinalStatus(r, o),
                                  ![r].charged = Charge(r, o)]
    BY DEF Settle, Settleable
<1>2. ASSUME NEW e \in Requests
      PROVE  /\ ledger'[e].month = ledger[e].month
             /\ ledger'[e].status = IF e = r THEN FinalStatus(r, o) ELSE ledger[e].status
    BY <1>1 DEF Inv, TypeOK, Event
<1>3. EscrowStage[r] = "held"
    BY <1>1, StageOfStatus DEF EscrowStage
<1>4. EscrowStage' = [EscrowStage EXCEPT ![r] = "spent"]
    BY <1>2, FinalStatusType, StageOfStatus DEF EscrowStage
<1>5. EscrowMonth' = EscrowMonth
    BY <1>2 DEF EscrowMonth
<1> QED BY <1>3, <1>4, <1>5 DEF Escrow!Next, Escrow!Spend

\* No other step touches the escrow.
LEMMA EscrowStutter ==
    ASSUME Inv, [Next]_vars,
           \A e \in Requests : ~ Reserve(e) /\ \A o \in Outcomes : ~ Settle(e, o)
    PROVE  UNCHANGED Escrow!vars
<1>1. ledger \in [Requests -> Event]
    BY DEF Inv, TypeOK
<1>2. ASSUME NEW r \in Requests
      PROVE  ledger'[r].status = ledger[r].status /\ ledger'[r].month = ledger[r].month
    <2>1. CASE ledger' = ledger
        BY <2>1
    <2>2. ASSUME NEW e \in Requests, CallProvider(e)
          PROVE  ledger'[r].status = ledger[r].status /\ ledger'[r].month = ledger[r].month
        <3>1. PICK exact \in ExactCounts :
                IF Lowers(e, exact)
                THEN ledger' = [ledger EXCEPT ![e].reserved = Recount(e, exact)]
                ELSE ledger' = ledger
            BY <2>2 DEF CallProvider
        <3> QED BY <1>1, <3>1 DEF Event
    <2>3. ASSUME NEW e \in Requests, Record(e)
          PROVE  ledger'[r].status = ledger[r].status /\ ledger'[r].month = ledger[r].month
        BY <1>1, <2>3 DEF Record, Event
    <2>4. ASSUME NEW e \in Requests,
                 Prepare(e) \/ Enter(e) \/ Refuse(e) \/ RejectSettlement(e) \/ Crash(e)
          PROVE  ledger' = ledger
        BY <2>4 DEF Prepare, Enter, Refuse, RejectSettlement, Crash, store
    <2>5. CASE Tick \/ (\E p \in Policies : UpdatePolicy(p)) \/ UNCHANGED vars
        BY <2>1, <2>5 DEF Tick, UpdatePolicy, vars, store
    <2> QED BY <2>1, <2>2, <2>3, <2>4, <2>5 DEF Next, Serve
<1>3. EscrowStage' = EscrowStage /\ EscrowMonth' = EscrowMonth
    BY <1>2 DEF EscrowStage, EscrowMonth
<1> QED BY <1>3 DEF Escrow!vars

\* The counters and their ledger implement the abstract escrow.
THEOREM SpecEscrow == Spec => EscrowSpec
<1>1. Init => Escrow!Init
    BY EscrowInit
<1>2. ASSUME Inv, [Next]_vars
      PROVE  [Escrow!Next]_(Escrow!vars)
    <2>1. ASSUME NEW r \in Requests, Reserve(r)
          PROVE  Escrow!Next
        BY <1>2, <2>1, EscrowGrant
    <2>2. ASSUME NEW r \in Requests, NEW o \in Outcomes, Settle(r, o)
          PROVE  Escrow!Next
        BY <1>2, <2>2, EscrowSpend
    <2>3. ASSUME \A e \in Requests : ~ Reserve(e) /\ \A o \in Outcomes : ~ Settle(e, o)
          PROVE  UNCHANGED Escrow!vars
        BY <1>2, <2>3, EscrowStutter
    <2> QED BY <2>1, <2>2, <2>3
<1> QED BY <1>1, <1>2, SpecInv, PTL DEF Spec, EscrowSpec, Escrow!Spec

\* A step of the escrow keeps every month within its capacity.
LEMMA EscrowCapacityStep ==
    ASSUME Escrow!WithinCapacity, Escrow!Next
    PROVE  Escrow!WithinCapacity'
<1> DEFINE H(m) == Escrow!HeldIn(m)
<1> SUFFICES ASSUME NEW m \in Months
             PROVE  Cardinality(H(m)') <= ConcurrencyLimit
    BY EscrowCardinality DEF Escrow!WithinCapacity
<1>1. IsFiniteSet(H(m)) /\ H(m) \subseteq Requests /\ H(m)' \subseteq Requests
    <2>1. H(m) \subseteq Requests /\ H(m)' \subseteq Requests
        BY DEF Escrow!HeldIn
    <2> QED BY <2>1, FS_Subset, GovernanceAssumption
<1>2. Cardinality(H(m)) <= ConcurrencyLimit /\ Cardinality(H(m)) \in Nat
    BY <1>1, EscrowCardinality, FS_CardinalityType DEF Escrow!WithinCapacity
<1>3. CASE H(m)' \subseteq H(m)
    <2>1. Cardinality(H(m)') <= Cardinality(H(m)) /\ IsFiniteSet(H(m)')
        BY <1>1, <1>3, FS_Subset
    <2>2. Cardinality(H(m)') \in Nat
        BY <2>1, FS_CardinalityType
    <2> QED BY <1>2, <2>1, <2>2, GovernanceAssumption
<1>4. ASSUME NEW r \in Requests, Escrow!Spend(r)
      PROVE  H(m)' \subseteq H(m)
    BY <1>4 DEF Escrow!Spend, Escrow!HeldIn, EscrowStage, EscrowMonth
<1>5. ASSUME NEW r \in Requests, NEW q \in Months,
             NEW freed \in SUBSET H(q), Escrow!Grant(r, q, freed)
      PROVE  Cardinality(H(m)') <= ConcurrencyLimit
    <2>1. CASE q # m
        <3>1. H(m)' \subseteq H(m)
            <4>1. DOMAIN EscrowMonth = Requests
                BY DEF EscrowMonth
            <4> QED BY <1>5, <2>1, <4>1 DEF Escrow!Grant, Escrow!HeldIn
        <3> QED BY <1>3, <3>1
    <2>2. CASE q = m
        <3>1. H(m)' \subseteq (H(m) \ freed) \cup {r}
            BY <1>5, <2>2 DEF Escrow!Grant, Escrow!HeldIn
        <3>2. IsFiniteSet(H(m) \ freed) /\ Cardinality(H(m) \ freed) \in Nat
            BY <1>1, FS_Difference, FS_CardinalityType
        <3>3. Cardinality(H(m) \ freed) < ConcurrencyLimit
            BY <1>5, <2>2, EscrowCardinality DEF Escrow!Grant
        <3> DEFINE G == (H(m) \ freed) \cup {r}
        <3>4. /\ IsFiniteSet(G)
              /\ Cardinality(G) <= Cardinality(H(m) \ freed) + 1
              /\ Cardinality(G) \in Nat
            <4>1. /\ IsFiniteSet(G)
                  /\ Cardinality(G) = IF r \in H(m) \ freed THEN Cardinality(H(m) \ freed)
                                                            ELSE Cardinality(H(m) \ freed) + 1
                BY <3>2, FS_AddElement
            <4> HIDE DEF G
            <4> QED BY <3>2, <4>1
        <3>5. /\ IsFiniteSet(H(m)')
              /\ Cardinality(H(m)') <= Cardinality(G)
            BY <3>1, <3>4, FS_Subset
        <3>6. Cardinality(H(m)') \in Nat
            BY <3>5, FS_CardinalityType
        <3> QED BY <3>2, <3>3, <3>4, <3>5, <3>6, GovernanceAssumption
    <2> QED BY <2>1, <2>2
<1> QED BY <1>3, <1>4, <1>5 DEF Escrow!Next

\* No month ever holds more live reservations than the most a policy may
\* allow to run together.
THEOREM SpecWithinCapacity == Spec => []Escrow!WithinCapacity
<1>1. Escrow!Init => Escrow!WithinCapacity
    <2> SUFFICES ASSUME Escrow!Init, NEW m \in Months
                 PROVE  Cardinality(Escrow!HeldIn(m)) <= ConcurrencyLimit
        BY EscrowCardinality DEF Escrow!WithinCapacity
    <2>1. Escrow!HeldIn(m) = {}
        BY DEF Escrow!Init, Escrow!HeldIn
    <2> QED BY <2>1, FS_EmptySet, GovernanceAssumption
<1>2. Escrow!WithinCapacity /\ [Escrow!Next]_(Escrow!vars) => Escrow!WithinCapacity'
    <2>1. CASE UNCHANGED Escrow!vars
        BY <2>1 DEF Escrow!vars, Escrow!WithinCapacity, Escrow!HeldIn
    <2> QED BY <2>1, EscrowCapacityStep
<1> QED BY <1>1, <1>2, SpecEscrow, PTL DEF EscrowSpec, Escrow!Spec
-----------------------------------------------------------------------------

\* Without stale reservations there is nothing to hand back.
LEMMA NothingToReclaim ==
    ASSUME TypeOK, NEW m \in Months, NEW t, Stale(m, t) = {}
    PROVE  Reclaimed(m, t) = period[m]
<1>1. period[m] \in Period
    BY DEF TypeOK
<1>2. Clamp(period[m].active - Cardinality({})) = period[m].active
    BY <1>1, FS_EmptySet DEF Period, Clamp
<1>3. MinusClamped(period[m].reserved, SumReserved({})) = period[m].reserved
    <2>1. SumReserved({}) = Zero
        BY TotalEmpty DEF SumReserved, Zero
    <2>2. ASSUME NEW a \in Amount
          PROVE  MinusClamped(a, Zero) = a
        BY DEF MinusClamped, Zero, Clamp, Amount
    <2> QED BY <1>1, <2>1, <2>2 DEF Period
<1> QED BY <1>1, <1>2, <1>3 DEF Reclaimed, Period

\* Handing back reservations only lowers the row.
LEMMA ReclaimedLowers ==
    ASSUME TypeOK, NEW m \in Months, NEW t
    PROVE  LET q == Reclaimed(m, t)
           IN  /\ q \in Period
               /\ q.request_count = period[m].request_count
               /\ q.used = period[m].used
               /\ q.active <= period[m].active
               /\ \A d \in Dim : q.reserved[d] <= period[m].reserved[d]
<1> DEFINE X == Stale(m, t)
<1>1. period[m] \in Period
    BY DEF TypeOK
<1>2. X \subseteq Requests /\ IsFiniteSet(X)
    BY SetsFinite
<1>3. SumReserved(X) \in Amount /\ Cardinality(X) \in Nat
    BY <1>2, SumsType, FS_CardinalityType
<1>4. /\ Clamp(period[m].active - Cardinality(X)) \in Nat
      /\ Clamp(period[m].active - Cardinality(X)) <= period[m].active
    BY <1>1, <1>3 DEF Clamp, Period
<1>5. MinusClamped(period[m].reserved, SumReserved(X)) \in Amount
    BY <1>1, <1>3, MinusClampedType DEF Period
<1>6. ASSUME NEW d \in Dim
      PROVE  MinusClamped(period[m].reserved, SumReserved(X))[d] <= period[m].reserved[d]
    BY <1>1, <1>3 DEF MinusClamped, Clamp, Period, Amount
<1> HIDE DEF X
<1> QED BY <1>1, <1>4, <1>5, <1>6 DEF Reclaimed, Period, X

\* A row with no more in it than another is refused nothing the other is let.
LEMMA WarningsFollowUse ==
    ASSUME NEW p \in Policy, NEW q \in Period, NEW s \in Period,
           s.request_count = q.request_count,
           \A d \in Dim : Plus(s.used, s.reserved)[d] <= Plus(q.used, q.reserved)[d],
           MonthlyWarnings(p, q, Zero, 0) = {}
    PROVE  MonthlyWarnings(p, s, Zero, 1) = {}
<1> DEFINE u == Plus(q.used, q.reserved)
<1> DEFINE v == Plus(s.used, s.reserved)
<1>1. u \in Amount /\ v \in Amount
    BY PlusType DEF Period
<1>2. /\ u["input"] \in Nat /\ u["output"] \in Nat /\ u["cost"] \in Nat
      /\ v["input"] \in Nat /\ v["output"] \in Nat /\ v["cost"] \in Nat
      /\ v["input"] <= u["input"] /\ v["output"] <= u["output"] /\ v["cost"] <= u["cost"]
    BY <1>1 DEF Amount, Dim
<1>3. /\ p.monthly_requests \in Nat /\ p.monthly_input \in Nat
      /\ p.monthly_output \in Nat /\ p.monthly_budget \in Nat /\ q.request_count \in Nat
    BY DEF Policy, Period
<1>4. Zero["input"] = 0 /\ Zero["output"] = 0 /\ Zero["cost"] = 0
    BY DEF Zero, Dim
<1>5. /\ ~ Exceeds(q.request_count, 0, p.monthly_requests)
      /\ ~ Exceeds(u["input"], 0, p.monthly_input)
      /\ ~ Exceeds(u["output"], 0, p.monthly_output)
      /\ ~ Exceeds(u["cost"], 0, p.monthly_budget)
    BY <1>4, NoMonthlyWarnings
<1> HIDE DEF u, v
<1>6. /\ ~ Exceeds(s.request_count, 1, p.monthly_requests)
      /\ ~ Exceeds(v["input"], 0, p.monthly_input)
      /\ ~ Exceeds(v["output"], 0, p.monthly_output)
      /\ ~ Exceeds(v["cost"], 0, p.monthly_budget)
    BY <1>2, <1>3, <1>5 DEF Exceeds
<1> QED BY <1>4, <1>6, NoMonthlyWarnings DEF v

\* Where the page sees no limit reached, what it says is left is what a
\* request may still take.
LEMMA LeftIsTakeable ==
    ASSUME NEW p \in Policy, p = policy, NEW q \in Period, NEW a \in Amount,
           q.active < p.max_concurrent, MonthlyWarnings(p, q, Zero, 0) = {}, p.enforce,
           a["input"] <= p.per_request_input, a["output"] <= p.per_request_output
    PROVE  QuotaAllows(policy, q, a) <=> Left(q, a)
<1> DEFINE u == Plus(q.used, q.reserved)
<1>1. u \in Amount
    BY PlusType DEF Period
<1>2. /\ u["input"] \in Nat /\ u["output"] \in Nat /\ u["cost"] \in Nat
      /\ a["input"] \in Nat /\ a["output"] \in Nat /\ a["cost"] \in Nat
    BY <1>1 DEF Amount, Dim
<1>3. /\ p.monthly_requests \in Nat /\ p.monthly_input \in Nat
      /\ p.monthly_output \in Nat /\ p.monthly_budget \in Nat /\ q.request_count \in Nat
    BY DEF Policy, Period
<1>4. Zero["input"] = 0 /\ Zero["output"] = 0 /\ Zero["cost"] = 0
    BY DEF Zero, Dim
<1>5. /\ ~ Exceeds(q.request_count, 0, p.monthly_requests)
      /\ ~ Exceeds(u["input"], 0, p.monthly_input)
      /\ ~ Exceeds(u["output"], 0, p.monthly_output)
      /\ ~ Exceeds(u["cost"], 0, p.monthly_budget)
    BY <1>4, NoMonthlyWarnings
<1>6. Left(q, a) <=> /\ a["input"] <= Clamp(p.monthly_input - u["input"])
                     /\ a["output"] <= Clamp(p.monthly_output - u["output"])
                     /\ a["cost"] <= Clamp(p.monthly_budget - u["cost"])
    BY DEF Left, Remaining
<1>7. QuotaAllows(policy, q, a) <=>
            /\ ~ Exceeds(q.request_count, 1, p.monthly_requests)
            /\ ~ Exceeds(u["input"], a["input"], p.monthly_input)
            /\ ~ Exceeds(u["output"], a["output"], p.monthly_output)
            /\ ~ Exceeds(u["cost"], a["cost"], p.monthly_budget)
    BY NoMonthlyWarnings DEF QuotaAllows
<1> HIDE DEF u
<1> QED BY <1>2, <1>3, <1>5, <1>6, <1>7 DEF Exceeds, Clamp

\* The page tells whoever it lets ask what reserve_ai_usage would tell, and
\* what it says is left may be taken.
THEOREM SpecPageAgreesWithReserve == Spec => []PageAgreesWithReserve
<1>1. ASSUME TypeOK
      PROVE  PageAgreesWithReserve
    <2> DEFINE m == MonthOf(now)
    <2> DEFINE q == period[m]
    <2> DEFINE s == Reclaimed(m, now)
    <2>1. m \in Months /\ q \in Period
        BY <1>1, MonthType DEF TypeOK
    <2>2. /\ s \in Period /\ s.request_count = q.request_count /\ s.used = q.used
          /\ s.active <= q.active /\ \A d \in Dim : s.reserved[d] <= q.reserved[d]
        BY <1>1, <2>1, ReclaimedLowers
    <2>3. Stale(m, now) = {} => s = q
        BY <1>1, <2>1, NothingToReclaim
    <2>4. policy = NoPolicy \/ policy \in Policy
        BY <1>1, GovernanceAssumption DEF TypeOK
    <2>5. Zero["input"] = 0 /\ Zero["output"] = 0 /\ Zero["cost"] = 0
        BY DEF Zero, Dim
    <2>6. /\ ReadinessReason = "ready" =>
                /\ policy # NoPolicy /\ policy.enabled /\ ~ PageFull(q)
                /\ ~ (policy.enforce /\ MonthlyWarnings(policy, q, Zero, 0) # {})
          /\ ReadinessReason = "concurrency_limit" => policy # NoPolicy /\ PageFull(q)
          /\ ReadinessReason = "monthly_limit" =>
                /\ policy # NoPolicy /\ ~ PageFull(q)
                /\ policy.enforce /\ MonthlyWarnings(policy, q, Zero, 0) # {}
        <3>1. policy # NoPolicy => policy.enabled \in BOOLEAN
            BY <2>4 DEF Policy
        <3> DEFINE full == PageFull(q)
        <3> DEFINE over == policy.enforce /\ MonthlyWarnings(policy, q, Zero, 0) # {}
        <3> DEFINE none == policy = NoPolicy
        <3> DEFINE off == policy # NoPolicy /\ ~ policy.enabled
        <3>2. ReadinessReason =
                CASE none -> "policy_required"
                  [] off -> "organization_disabled"
                  [] OTHER -> IF full THEN "concurrency_limit"
                              ELSE IF over THEN "monthly_limit" ELSE "ready"
            BY DEF ReadinessReason
        <3>3. off \/ none => ReadinessReason \notin {"ready", "concurrency_limit", "monthly_limit"}
            <4>1. ~ (none /\ off)
                OBVIOUS
            <4> HIDE DEF none, off, full, over
            <4> QED BY <3>2, <4>1
        <3>4. ~ off /\ ~ none => ReadinessReason =
                              IF full THEN "concurrency_limit"
                              ELSE IF over THEN "monthly_limit" ELSE "ready"
            <4> HIDE DEF none, off, full, over
            <4> QED BY <3>2
        <3> HIDE DEF full, over
        <3>5. ~ off /\ ~ none => policy # NoPolicy /\ policy.enabled
            BY <3>1
        <3>6. /\ ReadinessReason = "ready" => ~ full /\ ~ over
              /\ ReadinessReason = "concurrency_limit" => full
              /\ ReadinessReason = "monthly_limit" => ~ full /\ over
            BY <3>3, <3>4
        <3> QED BY <3>3, <3>5, <3>6 DEF full, over
    <2>7. policy # NoPolicy =>
            /\ policy \in Policy /\ policy.enforce \in BOOLEAN /\ policy.max_concurrent \in Nat
            /\ policy.per_request_input \in Nat /\ policy.per_request_output \in Nat
        BY <2>4, GovernanceAssumption DEF Policy
    <2>8. q.active \in Nat /\ s.active \in Nat
        BY <2>1, <2>2 DEF Period
    <2>9. ASSUME ReadinessReason = "ready"
          PROVE  ReserveAllows(m)
        <3>1. s.active < policy.max_concurrent
            BY <2>2, <2>6, <2>7, <2>8, <2>9 DEF PageFull
        <3>2. policy.enforce => MonthlyWarnings(policy, s, Zero, 1) = {}
            <4>1. \A d \in Dim : Plus(s.used, s.reserved)[d] <= Plus(q.used, q.reserved)[d]
                BY <2>1, <2>2 DEF Plus, Period, Amount
            <4> QED BY <2>1, <2>2, <2>6, <2>7, <2>9, <4>1, WarningsFollowUse
        <3> QED BY <2>5, <2>6, <2>7, <2>9, <3>1, <3>2 DEF ReserveAllows, QuotaAllows
    <2>10. ASSUME ReadinessReason \in {"concurrency_limit", "monthly_limit"}, Stale(m, now) = {}
           PROVE  ~ ReserveAllows(m)
        <3>1. CASE PageFull(q)
            BY <2>3, <2>6, <2>7, <2>8, <2>10, <3>1 DEF PageFull, ReserveAllows, QuotaAllows
        <3>2. CASE policy.enforce /\ MonthlyWarnings(policy, q, Zero, 0) # {} /\ policy # NoPolicy
            <4>1. MonthlyWarnings(policy, q, Zero, 1) # {}
                <5> DEFINE u == Plus(q.used, q.reserved)
                <5>1. policy.monthly_requests \in Nat /\ q.request_count \in Nat
                    BY <2>1, <2>7, <3>2 DEF Policy, Period
                <5>2. \/ Exceeds(q.request_count, 0, policy.monthly_requests)
                      \/ Exceeds(u["input"], Zero["input"], policy.monthly_input)
                      \/ Exceeds(u["output"], Zero["output"], policy.monthly_output)
                      \/ Exceeds(u["cost"], Zero["cost"], policy.monthly_budget)
                    BY <3>2, NoMonthlyWarnings
                <5>3. Exceeds(q.request_count, 0, policy.monthly_requests)
                        => Exceeds(q.request_count, 1, policy.monthly_requests)
                    BY <5>1 DEF Exceeds
                <5> HIDE DEF u
                <5> QED BY <5>2, <5>3, NoMonthlyWarnings DEF u
            <4> QED BY <2>3, <2>10, <3>2, <4>1 DEF ReserveAllows, QuotaAllows
        <3> QED BY <2>6, <2>10, <3>1, <3>2
    <2>11. ASSUME ReadinessReason = "ready", policy.enforce, NEW ask \in Asks,
                  NEW output, output = SmallerOf(ask["output"], policy.per_request_output),
                  NEW a, a = Priced(ask["input"], 0, output, ask["web"]),
                  a["input"] <= policy.per_request_input
           PROVE  QuotaAllows(policy, q, a) <=> Left(q, a)
        <3>1. /\ ask["input"] \in Nat /\ ask["output"] \in Nat /\ ask["web"] \in Nat
            BY GovernanceAssumption DEF Ask
        <3>2. output \in Nat /\ output <= policy.per_request_output
            BY <2>6, <2>7, <2>11, <3>1 DEF SmallerOf
        <3>3. a \in Amount /\ a["output"] = output
            <4>1. a \in Amount
                BY <2>11, <3>1, <3>2, PricedType
            <4>2. a["output"] = Clamp(output)
                BY <2>11 DEF Priced, Dim
            <4>3. Clamp(output) = output
                BY <3>2 DEF Clamp
            <4> QED BY <4>1, <4>2, <4>3
        <3>4. q.active < policy.max_concurrent
            BY <2>6, <2>7, <2>8, <2>11 DEF PageFull
        <3> QED BY <2>1, <2>6, <2>7, <2>11, <3>2, <3>3, <3>4, LeftIsTakeable
    <2> QED BY <2>9, <2>10, <2>11 DEF PageAgreesWithReserve
<1> QED BY <1>1, SpecTypeOK, PTL

-----------------------------------------------------------------------------

\* What MonthlyCeiling says of one month.
WithinLimits(m) ==
    /\ \E p \in Policies : period[m].request_count <= p.monthly_requests
    /\ \E p \in Policies : Committed(m, "input") <= p.monthly_input + Overrun(m, "input")
    /\ \E p \in Policies : Committed(m, "output") <= p.monthly_output + Overrun(m, "output")
    /\ \E p \in Policies : Committed(m, "cost") <= p.monthly_budget + Overrun(m, "cost")

\* The part of each charge above its reservation.
Excess(d) == [r \in Requests |-> Clamp(ledger[r].charged[d] - ledger[r].reserved[d])]

\* A month's overrun, and what it has committed, are natural numbers.
LEMMA CommittedType ==
    ASSUME TypeOK, NEW m \in Months, NEW d \in Dim
    PROVE  /\ Overrun(m, d) \in Nat
           /\ Committed(m, d) \in Nat
           /\ \A r \in Requests : Excess(d)[r] \in Nat
           /\ Overrun(m, d) = Total(Spent(m), Excess(d))
<1>1. \A r \in Requests : Excess(d)[r] \in Nat
    BY DEF TypeOK, Event, Amount, Excess, Clamp
<1>2. IsFiniteSet(Spent(m)) /\ Spent(m) \subseteq Requests
    BY SetsFinite
<1>3. Overrun(m, d) = Total(Spent(m), Excess(d))
    BY DEF Overrun, Excess
<1>4. Total(Spent(m), Excess(d)) \in Nat
    BY <1>1, <1>2, TotalType
<1>5. Committed(m, d) \in Nat
    <2>1. period[m].used \in Amount /\ period[m].reserved \in Amount
        BY DEF TypeOK, Period
    <2> QED BY <2>1 DEF Committed, Amount
<1> QED BY <1>1, <1>3, <1>4, <1>5

AmountsAreNatural ==
    \A m \in Months, d \in Dim : Overrun(m, d) \in Nat /\ Committed(m, d) \in Nat

\* The same of every month and dimension at once.
LEMMA CommittedTypes == TypeOK => AmountsAreNatural
BY CommittedType DEF AmountsAreNatural

\* And of the state after a step.
LEMMA CommittedTypesNext == TypeOK' => AmountsAreNatural'
BY CommittedTypes, PTL

\* Charges nobody touches overrun by as much as before.
LEMMA OverrunSame ==
    ASSUME NEW m, NEW d, Spent(m)' = Spent(m),
           \A e \in Spent(m) : /\ ledger'[e].charged = ledger[e].charged
                               /\ ledger'[e].reserved = ledger[e].reserved
    PROVE  Overrun(m, d)' = Overrun(m, d)
<1>1. Spent(m) \subseteq Requests
    BY DEF Spent
<1>2. \A e \in Spent(m) : (Excess(d)')[e] = Excess(d)[e]
    BY <1>1 DEF Excess
<1>3. Total(Spent(m), Excess(d)') = Total(Spent(m), Excess(d))
    BY <1>2, TotalSame
<1>4. /\ Overrun(m, d)' = Total(Spent(m)', Excess(d)')
      /\ Overrun(m, d) = Total(Spent(m), Excess(d))
    BY DEF Overrun, Excess
<1> QED BY <1>3, <1>4

\* A step that commits no more than it adds to the overrun keeps the limits.
LEMMA LimitsFrame ==
    ASSUME TypeOK, TypeOK', NEW m \in Months, WithinLimits(m),
           period'[m].request_count = period[m].request_count,
           \A d \in Dim : Committed(m, d)' + Overrun(m, d) <= Committed(m, d) + Overrun(m, d)'
    PROVE  WithinLimits(m)'
<1>1. \A d \in Dim : /\ Overrun(m, d) \in Nat /\ Committed(m, d) \in Nat
                     /\ Overrun(m, d)' \in Nat /\ Committed(m, d)' \in Nat
    <2> TAKE d \in Dim
    <2>1. Overrun(m, d) \in Nat /\ Committed(m, d) \in Nat
        BY CommittedType
    <2>2. Overrun(m, d)' \in Nat /\ Committed(m, d)' \in Nat
        BY CommittedTypesNext DEF AmountsAreNatural
    <2> QED BY <2>1, <2>2
<1>2. \A p \in Policies : /\ p.monthly_input \in Nat /\ p.monthly_output \in Nat
                          /\ p.monthly_budget \in Nat
    BY GovernanceAssumption DEF Policy
<1>3. ASSUME NEW d \in Dim, NEW limit \in Nat, Committed(m, d) <= limit + Overrun(m, d)
      PROVE  Committed(m, d)' <= limit + Overrun(m, d)'
    BY <1>1, <1>3
<1>4. "input" \in Dim /\ "output" \in Dim /\ "cost" \in Dim
    BY DEF Dim
<1>5. \E p \in Policies : Committed(m, "input")' <= p.monthly_input + Overrun(m, "input")'
    BY <1>2, <1>3, <1>4 DEF WithinLimits
<1>6. \E p \in Policies : Committed(m, "output")' <= p.monthly_output + Overrun(m, "output")'
    BY <1>2, <1>3, <1>4 DEF WithinLimits
<1>7. \E p \in Policies : Committed(m, "cost")' <= p.monthly_budget + Overrun(m, "cost")'
    BY <1>2, <1>3, <1>4 DEF WithinLimits
<1>8. \E p \in Policies : period'[m].request_count <= p.monthly_requests
    BY DEF WithinLimits
<1> QED BY <1>5, <1>6, <1>7, <1>8 DEF WithinLimits

\* A step that leaves a month's row and its charges alone.
LEMMA LimitsSame ==
    ASSUME TypeOK, NEW m \in Months, WithinLimits(m), period'[m] = period[m],
           Spent(m)' = Spent(m),
           \A e \in Spent(m) : /\ ledger'[e].charged = ledger[e].charged
                               /\ ledger'[e].reserved = ledger[e].reserved
    PROVE  WithinLimits(m)'
<1>1. \A d : Overrun(m, d)' = Overrun(m, d)
    BY OverrunSame
<1>2. \A d : Committed(m, d)' = Committed(m, d)
    BY DEF Committed
<1> QED BY <1>1, <1>2 DEF WithinLimits

\* A reservation enters within the limits of the policy that admitted it.
LEMMA LimitsReserve ==
    ASSUME Inv, TypeOK', NEW r \in Requests, Reserve(r), \A p \in Policies : p.enforce,
           NEW m \in Months, m = MonthOf(ctx[r].began)
    PROVE  WithinLimits(m)'
<1> DEFINE p == PolicyHeld(r)
<1> DEFINE t == ctx[r].began
<1> DEFINE q == Reclaimed(m, t)
<1> DEFINE w == Wanted(r)
<1> DEFINE u == Plus(q.used, q.reserved)
<1>1. TypeOK
    BY DEF Inv
<1>2. q \in Period /\ w \in Amount
    BY <1>1, ReclaimedLowers, WantedType
<1>3. Admits(r)
    BY DEF Reserve
<1>4. /\ p \in Policies /\ p \in Policy
      /\ MonthlyWarnings(p, q, w, 1) = {}
    <2>1. p # NoPolicy /\ QuotaAllows(p, q, w)
        BY <1>3 DEF Admits
    <2>2. p \in Policies
        BY <1>1, <2>1 DEF TypeOK, Context, PolicyHeld
    <2>3. p \in Policy
        BY <2>2, GovernanceAssumption
    <2>4. p.enforce
        BY <2>2
    <2> HIDE DEF p, q, w
    <2> QED BY <2>1, <2>2, <2>3, <2>4 DEF QuotaAllows
<1>5. period'[m] = WithReservation(q, w)
    BY <1>1 DEF Reserve, TypeOK
<1>6. u \in Amount
    BY <1>2, PlusType DEF Period
<1> HIDE DEF p, q, w
<1>7. /\ period'[m].request_count = q.request_count + 1
      /\ \A d \in Dim : Committed(m, d)' = u[d] + w[d]
    <2>1. /\ period'[m].request_count = q.request_count + 1
          /\ period'[m].used = q.used
          /\ period'[m].reserved = Plus(q.reserved, w)
        BY <1>2, <1>5 DEF WithReservation, Period
    <2>2. ASSUME NEW d \in Dim
          PROVE  Committed(m, d)' = u[d] + w[d]
        <3>1. Committed(m, d)' = q.used[d] + (q.reserved[d] + w[d])
            BY <2>1 DEF Committed, Plus
        <3>2. q.used[d] \in Nat /\ q.reserved[d] \in Nat /\ w[d] \in Nat
            BY <1>2 DEF Period, Amount
        <3>3. u[d] = q.used[d] + q.reserved[d]
            BY DEF Plus
        <3> QED BY <3>1, <3>2, <3>3
    <2> QED BY <2>1, <2>2
<1>8. /\ ~ Exceeds(q.request_count, 1, p.monthly_requests)
      /\ ~ Exceeds(u["input"], w["input"], p.monthly_input)
      /\ ~ Exceeds(u["output"], w["output"], p.monthly_output)
      /\ ~ Exceeds(u["cost"], w["cost"], p.monthly_budget)
    BY <1>4, NoMonthlyWarnings
<1>9. \A d \in Dim : Overrun(m, d)' \in Nat
    BY CommittedTypesNext DEF AmountsAreNatural
<1>10. /\ p.monthly_requests \in Nat /\ p.monthly_input \in Nat
       /\ p.monthly_output \in Nat /\ p.monthly_budget \in Nat /\ q.request_count \in Nat
    BY <1>2, <1>4 DEF Policy, Period
<1>11. /\ "input" \in Dim /\ "output" \in Dim /\ "cost" \in Dim
       /\ \A d \in Dim : u[d] \in Nat /\ w[d] \in Nat
    BY <1>2, <1>6 DEF Dim, Amount
<1> HIDE DEF u
<1>12. /\ period'[m].request_count <= p.monthly_requests
       /\ Committed(m, "input")' <= p.monthly_input + Overrun(m, "input")'
       /\ Committed(m, "output")' <= p.monthly_output + Overrun(m, "output")'
       /\ Committed(m, "cost")' <= p.monthly_budget + Overrun(m, "cost")'
    BY <1>7, <1>8, <1>9, <1>10, <1>11 DEF Exceeds
<1> QED BY <1>4, <1>12 DEF WithinLimits

\* The exact token count only lowers what a month has committed.
LEMMA LimitsRecount ==
    ASSUME Inv, TypeOK', NEW r \in Requests, NEW exact \in ExactCounts, Lowers(r, exact),
           period' = [period EXCEPT ![ledger[r].month].reserved =
                        Minus(@, Minus(ledger[r].reserved, Recount(r, exact)))],
           ledger' = [ledger EXCEPT ![r].reserved = Recount(r, exact)],
           NEW m \in Months, WithinLimits(m)
    PROVE  WithinLimits(m)'
<1> DEFINE a == ledger[r].reserved
<1> DEFINE b == Recount(r, exact)
<1>1. TypeOK /\ ledger[r] \in Event /\ period[m] \in Period
    BY DEF Inv, TypeOK
<1>2. /\ ledger[r].status = "reserved" /\ r \notin Spent(m)
      /\ \A e \in Requests : /\ ledger'[e].status = ledger[e].status
                             /\ ledger'[e].month = ledger[e].month
                             /\ ledger'[e].charged = ledger[e].charged
                             /\ e # r => ledger'[e] = ledger[e]
    BY <1>1 DEF Lowers, Spent, Charged, TypeOK, Event
<1>3. /\ Spent(m)' = Spent(m)
      /\ \A e \in Spent(m) : /\ ledger'[e].charged = ledger[e].charged
                             /\ ledger'[e].reserved = ledger[e].reserved
    BY <1>2 DEF Spent
<1>4. CASE m # ledger[r].month
    <2>1. period'[m] = period[m]
        BY <1>4 DEF Inv, TypeOK
    <2> QED BY <1>1, <1>3, <2>1, LimitsSame
<1>5. CASE m = ledger[r].month
    <2>1. /\ period'[m].request_count = period[m].request_count
          /\ period'[m].used = period[m].used
          /\ period'[m].reserved = Minus(period[m].reserved, Minus(a, b))
        BY <1>1, <1>5 DEF TypeOK, Period
    <2>2. ASSUME NEW d \in Dim
          PROVE  Committed(m, d)' + Overrun(m, d) <= Committed(m, d) + Overrun(m, d)'
        <3>1. b[d] <= a[d]
            BY RecountLowers
        <3>2. a[d] \in Nat /\ b[d] \in Nat
            BY <1>1, GovernanceAssumption, RecountType DEF Event, Amount
        <3>3. period[m].used[d] \in Nat /\ period[m].reserved[d] \in Nat
            BY <1>1 DEF Period, Amount
        <3>4. Committed(m, d)' = period[m].used[d] + (period[m].reserved[d] - (a[d] - b[d]))
            BY <2>1 DEF Committed, Minus
        <3>5. Overrun(m, d)' = Overrun(m, d)
            BY <1>3, OverrunSame
        <3>6. Overrun(m, d) \in Nat
            BY <1>1, CommittedType
        <3> HIDE DEF a, b
        <3> QED BY <3>1, <3>2, <3>3, <3>4, <3>5, <3>6 DEF Committed
    <2> QED BY <1>1, <2>1, <2>2, LimitsFrame
<1> QED BY <1>4, <1>5

\* A settled charge commits no more than its reservation did, but for its
\* own overrun.
LEMMA LimitsSettle ==
    ASSUME Inv, TypeOK', NEW r \in Requests, NEW o \in Outcomes, Settle(r, o),
           NEW m \in Months, WithinLimits(m)
    PROVE  WithinLimits(m)'
<1> DEFINE a == ledger[r].reserved
<1> DEFINE c == Charge(r, o)
<1>1. TypeOK /\ ledger[r] \in Event /\ period[m] \in Period
    BY DEF Inv, TypeOK
<1>2. /\ ledger[r].status = "reserved" /\ r \notin Spent(m)
      /\ ledger' = [ledger EXCEPT ![r].status  = FinalStatus(r, o),
                                  ![r].charged = c]
    BY DEF Settle, Settleable, Spent, Charged
<1>3. /\ \A e \in Requests \ {r} : ledger'[e] = ledger[e]
      /\ ledger'[r].month = ledger[r].month /\ ledger'[r].status \in Charged
      /\ ledger'[r].reserved = a /\ ledger'[r].charged = c
    BY <1>1, <1>2, FinalStatusType DEF TypeOK, Event
<1>4. CASE m # ledger[r].month
    <2>1. period'[m] = period[m]
        BY <1>4 DEF Settle, Inv, TypeOK
    <2>2. /\ Spent(m)' = Spent(m)
          /\ \A e \in Spent(m) : /\ ledger'[e].charged = ledger[e].charged
                                 /\ ledger'[e].reserved = ledger[e].reserved
        BY <1>2, <1>3, <1>4 DEF Spent
    <2> QED BY <1>1, <2>1, <2>2, LimitsSame
<1>5. CASE m = ledger[r].month
    <2>1. /\ period'[m].request_count = period[m].request_count
          /\ period'[m].used = Plus(period[m].used, c)
          /\ period'[m].reserved = MinusClamped(period[m].reserved, a)
        BY <1>1, <1>5 DEF Settle, TypeOK, Period
    <2>2. Spent(m)' = Spent(m) \cup {r}
        BY <1>2, <1>3, <1>5 DEF Spent
    <2>3. r \in Held(m) /\ CountersOf(m)
        BY <1>2, <1>5 DEF Held, Inv, CountersMatchLedger
    <2>4. IsFiniteSet(Spent(m)) /\ Spent(m) \subseteq Requests
          /\ IsFiniteSet(Held(m)) /\ Held(m) \subseteq Requests
        BY SetsFinite
    <2>5. ASSUME NEW d \in Dim
          PROVE  Committed(m, d)' + Overrun(m, d) <= Committed(m, d) + Overrun(m, d)'
        <3>1. a[d] \in Nat /\ c[d] \in Nat
            BY <1>1, ChargeType DEF Event, Amount
        <3>2. period[m].used[d] \in Nat /\ period[m].reserved[d] \in Nat
            BY <1>1 DEF Period, Amount
        <3>3. a[d] <= period[m].reserved[d]
            <4>1. \A e \in Requests : ReservedIn(d)[e] \in Nat
                BY <1>1 DEF TypeOK, Event, Amount, ReservedIn
            <4>2. ReservedIn(d)[r] <= Total(Held(m), ReservedIn(d))
                BY <2>3, <2>4, <4>1, TotalRemove
            <4> QED BY <2>3, <4>2 DEF ReservedIn, CountersOf, SumReserved
        <3>4. Committed(m, d)' = (period[m].used[d] + c[d])
                                    + Clamp(period[m].reserved[d] - a[d])
            BY <2>1 DEF Committed, Plus, MinusClamped
        <3>5. Overrun(m, d)' = Overrun(m, d) + Clamp(c[d] - a[d])
            <4>1. ASSUME NEW e \in Spent(m)
                  PROVE  (Excess(d)')[e] = Excess(d)[e]
                <5>1. e \in Requests \ {r}
                    BY <1>2, <2>4
                <5>2. ledger'[e] = ledger[e]
                    BY <1>3, <5>1
                <5> QED BY <5>1, <5>2 DEF Excess
            <4>2. (Excess(d)')[r] = Clamp(c[d] - a[d])
                BY <1>3 DEF Excess
            <4>3. \A e \in Requests : Excess(d)[e] \in Nat
                BY <1>1, CommittedType
            <4>4. Clamp(c[d] - a[d]) \in Nat
                BY <3>1 DEF Clamp
            <4>5. \A e \in Spent(m) \cup {r} : (Excess(d)')[e] \in Nat
                BY <2>4, <4>1, <4>2, <4>3, <4>4
            <4>6. Total(Spent(m) \cup {r}, Excess(d)') =
                    Total(Spent(m), Excess(d)') + (Excess(d)')[r]
                BY <1>2, <2>4, <4>5, TotalAdd
            <4>7. Total(Spent(m), Excess(d)') = Total(Spent(m), Excess(d))
                BY <4>1, TotalSame
            <4>8. /\ Overrun(m, d)' = Total(Spent(m)', Excess(d)')
                  /\ Overrun(m, d) = Total(Spent(m), Excess(d))
                BY DEF Overrun, Excess
            <4> QED BY <2>2, <4>2, <4>6, <4>7, <4>8
        <3>6. Overrun(m, d) \in Nat
            BY <1>1, CommittedType
        <3> HIDE DEF a, c
        <3> QED BY <3>1, <3>2, <3>3, <3>4, <3>5, <3>6 DEF Committed, Clamp
    <2> QED BY <1>1, <2>1, <2>5, LimitsFrame
<1> QED BY <1>4, <1>5

\* Every step keeps every month within the limits.
LEMMA CeilingStep ==
    ASSUME Inv, \A p \in Policies : p.enforce, \A m \in Months : WithinLimits(m),
           [Next]_vars, NEW m \in Months
    PROVE  WithinLimits(m)'
<1>1. TypeOK /\ TypeOK' /\ WithinLimits(m)
    BY TypeStep DEF Inv
<1>2. CASE period' = period /\ ledger' = ledger
    <2>1. Spent(m)' = Spent(m)
        BY <1>2 DEF Spent
    <2> QED BY <1>1, <1>2, <2>1, LimitsSame
<1>3. ASSUME NEW r \in Requests, Reserve(r)
      PROVE  WithinLimits(m)'
    <2> DEFINE n == MonthOf(ctx[r].began)
    <2>1. CASE m = n
        BY <1>1, <1>3, <2>1, LimitsReserve
    <2>2. CASE m # n
        <3>1. period'[m] = period[m]
            BY <1>1, <1>3, <2>2 DEF Reserve, TypeOK
        <3>2. ledger[r].status = "none"
            BY <1>3 DEF Inv, NoEventBeforeReservation, Reserve, Goto
        <3>3. ledger'[r].status = "reserved"
            BY <1>3 DEF Reserve, NoEvent
        <3>4. ASSUME NEW e \in Requests, e # r
              PROVE  \/ ledger'[e] = ledger[e]
                     \/ /\ ledger[e].status = "reserved"
                        /\ ledger'[e].status = "expired"
            <4>1. CASE e \in Stale(n, ctx[r].began)
                <5>1. ledger'[e] = [ledger[e] EXCEPT !.status = "expired"]
                    BY <1>3, <3>4, <4>1 DEF Reserve
                <5>2. ledger[e] \in Event /\ ledger[e].status = "reserved"
                    BY <1>1, <4>1 DEF TypeOK, Stale, Held
                <5> QED BY <5>1, <5>2 DEF Event
            <4>2. CASE e \notin Stale(n, ctx[r].began)
                BY <1>3, <3>4, <4>2 DEF Reserve
            <4> QED BY <4>1, <4>2
        <3>5. Spent(m)' = Spent(m)
            BY <3>2, <3>3, <3>4 DEF Spent, Charged
        <3>6. \A e \in Spent(m) : ledger'[e] = ledger[e]
            BY <3>2, <3>4 DEF Spent, Charged
        <3> QED BY <1>1, <3>1, <3>5, <3>6, LimitsSame
    <2> QED BY <2>1, <2>2
<1>4. ASSUME NEW r \in Requests, CallProvider(r)
      PROVE  WithinLimits(m)'
    <2>1. PICK exact \in ExactCounts :
            IF Lowers(r, exact)
            THEN /\ period' = [period EXCEPT ![ledger[r].month].reserved =
                        Minus(@, Minus(ledger[r].reserved, Recount(r, exact)))]
                 /\ ledger' = [ledger EXCEPT ![r].reserved = Recount(r, exact)]
            ELSE UNCHANGED <<period, ledger>>
        BY <1>4 DEF CallProvider
    <2>2. CASE Lowers(r, exact)
        BY <1>1, <2>1, <2>2, LimitsRecount
    <2>3. CASE ~ Lowers(r, exact)
        BY <1>2, <2>1, <2>3
    <2> QED BY <2>2, <2>3
<1>5. ASSUME NEW r \in Requests, NEW o \in Outcomes, Settle(r, o)
      PROVE  WithinLimits(m)'
    BY <1>1, <1>5, LimitsSettle
<1>6. ASSUME NEW r \in Requests, Record(r)
      PROVE  WithinLimits(m)'
    <2>1. /\ period' = period
          /\ \A e \in Requests : /\ ledger'[e].month = ledger[e].month
                                 /\ ledger'[e].status = ledger[e].status
                                 /\ ledger'[e].reserved = ledger[e].reserved
                                 /\ ledger'[e].charged = ledger[e].charged
        BY <1>1, <1>6 DEF Record, TypeOK, Event
    <2>2. /\ Spent(m)' = Spent(m)
          /\ \A e \in Spent(m) : /\ ledger'[e].charged = ledger[e].charged
                                 /\ ledger'[e].reserved = ledger[e].reserved
        BY <2>1 DEF Spent
    <2> QED BY <1>1, <2>1, <2>2, LimitsSame
<1>7. ASSUME NEW r \in Requests,
             Prepare(r) \/ Enter(r) \/ Refuse(r) \/ RejectSettlement(r) \/ Crash(r)
      PROVE  WithinLimits(m)'
    BY <1>2, <1>7 DEF Prepare, Enter, Refuse, RejectSettlement, Crash, store
<1>8. CASE Tick \/ (\E p \in Policies : UpdatePolicy(p)) \/ UNCHANGED vars
    BY <1>2, <1>8 DEF Tick, UpdatePolicy, vars, store
<1> QED BY <1>3, <1>4, <1>5, <1>6, <1>7, <1>8 DEF Next, Serve

\* An organisation whose policies all enforce their monthly limits commits
\* in no month more than one of them allows, whatever the interleaving of
\* reservations, policy changes, expiries and late settlements, but for what
\* the provider itself charged above a reservation.
THEOREM SpecMonthlyCeiling == Policies # {} => (Spec => []MonthlyCeiling)
<1> DEFINE Enforced == \A p \in Policies : p.enforce
<1> DEFINE Limited == Enforced => \A m \in Months : WithinLimits(m)
<1>1. Limited <=> MonthlyCeiling
    BY DEF MonthlyCeiling, WithinLimits
<1>2. Policies # {} /\ Init => Limited
    <2> SUFFICES ASSUME Policies # {}, Init, NEW m \in Months
                 PROVE  WithinLimits(m)
        OBVIOUS
    <2>1. TypeOK
        BY InvInit DEF Inv
    <2>2. \A d \in Dim : Committed(m, d) = 0 /\ Overrun(m, d) \in Nat
        <3>1. period[m] = EmptyPeriod
            BY DEF Init
        <3> QED BY <2>1, <3>1, CommittedType DEF EmptyPeriod, Zero, Committed
    <2>3. period[m].request_count = 0
        BY DEF Init, EmptyPeriod
    <2>4. PICK p \in Policies : TRUE
        OBVIOUS
    <2>5. /\ p.monthly_requests \in Nat /\ p.monthly_input \in Nat
          /\ p.monthly_output \in Nat /\ p.monthly_budget \in Nat
        BY GovernanceAssumption DEF Policy
    <2>6. "input" \in Dim /\ "output" \in Dim /\ "cost" \in Dim
        BY DEF Dim
    <2>7. /\ period[m].request_count <= p.monthly_requests
          /\ Committed(m, "input") <= p.monthly_input + Overrun(m, "input")
          /\ Committed(m, "output") <= p.monthly_output + Overrun(m, "output")
          /\ Committed(m, "cost") <= p.monthly_budget + Overrun(m, "cost")
        BY <2>2, <2>3, <2>5, <2>6
    <2> QED BY <2>7 DEF WithinLimits
<1>3. Inv /\ Limited /\ [Next]_vars => Limited'
    BY CeilingStep
<1> HIDE DEF Limited
<1> QED BY <1>1, <1>2, <1>3, SpecInv, PTL DEF Spec

-----------------------------------------------------------------------------
(***************************************************************************)
(* Why capacity comes back.  A reservation that is held is held by a       *)
(* handler on its way to the settlement, which will find it settleable, or *)
(* by one that crashed; and handlers only move on.                         *)
(***************************************************************************)

Place ==
    [s \in Stage |->
        IF s = "idle" THEN 0
        ELSE IF s = "prepared" THEN 1
        ELSE IF s = "reserving" THEN 2
        ELSE IF s = "reserved" THEN 3
        ELSE IF s = "calling" THEN 4
        ELSE IF s = "settled" THEN 5
        ELSE 6]

\* A step moves one handler on, by its own action, or none.
LEMMA HandlersStep ==
    ASSUME Inv, [Next]_vars, NEW r \in Requests
    PROVE  \/ pc'[r] = pc[r]
           \/ /\ Place[pc'[r]] > Place[pc[r]]
              /\ Prepare(r) \/ Serve(r) \/ Crash(r)
<1>t. pc \in [Requests -> Stage] /\ pc[r] \in Stage
    BY DEF Inv, TypeOK
<1>1. ASSUME NEW e \in Requests, NEW from, NEW to, Goto(e, from, to), e # r
      PROVE  pc'[r] = pc[r]
    BY <1>1, <1>t DEF Goto
<1>2. ASSUME NEW from \in Stage, NEW to \in Stage, Goto(r, from, to), Place[to] > Place[from]
      PROVE  Place[pc'[r]] > Place[pc[r]]
    BY <1>2, <1>t DEF Goto
<1>3. CASE Tick \/ (\E p \in Policies : UpdatePolicy(p)) \/ UNCHANGED vars
    BY <1>3 DEF Tick, UpdatePolicy, vars
<1>4. ASSUME NEW e \in Requests, Crash(e)
      PROVE  e # r => pc'[r] = pc[r]
    BY <1>4, <1>t DEF Crash
<1>5. ASSUME Crash(r) PROVE Place[pc'[r]] > Place[pc[r]]
    BY <1>5, <1>t DEF Crash, Place, Stage, Ended
<1>6. ASSUME NEW e \in Requests, Prepare(e) \/ Serve(e)
      PROVE  /\ e # r => pc'[r] = pc[r]
             /\ e = r => Place[pc'[r]] > Place[pc[r]]
    <2>1. \/ Goto(e, "idle", "prepared") \/ Goto(e, "prepared", "reserving")
          \/ Goto(e, "reserving", "reserved") \/ Goto(e, "reserving", "refused")
          \/ Goto(e, "reserved", "calling") \/ Goto(e, "calling", "settled")
          \/ Goto(e, "calling", "rejected") \/ Goto(e, "settled", "recorded")
        BY <1>6 DEF Prepare, Serve, Enter, Reserve, Refuse, CallProvider, Settle,
           RejectSettlement, Record
    <2>2. e # r => pc'[r] = pc[r]
        BY <1>1, <2>1
    <2>3. e = r => Place[pc'[r]] > Place[pc[r]]
        BY <1>2, <2>1 DEF Place, Stage, Ended
    <2> QED BY <2>2, <2>3
<1> QED BY <1>3, <1>4, <1>5, <1>6 DEF Next

HandlersMoveOn ==
    [][\A r \in Requests : pc'[r] # pc[r] => Place[pc'[r]] > Place[pc[r]]]_vars

\* No handler returns to a stage it has left: a request is counted, sent and
\* settled once at most, whatever is refused, rejected or crashes.
THEOREM SpecHandlersMoveOn == Spec => HandlersMoveOn
<1>1. Inv /\ [Next]_vars =>
        [\A r \in Requests : pc'[r] # pc[r] => Place[pc'[r]] > Place[pc[r]]]_vars
    BY HandlersStep
<1> QED BY SpecInv, <1>1, PTL DEF Spec, HandlersMoveOn

\* What a handler holds of the policy was the organisation's, which stays.
PoliciesStay == \A r \in Requests : ctx[r].policy # NoPolicy => policy # NoPolicy

CapacityIsReturnable ==
    \A r \in Requests :
        ledger[r].status = "reserved" =>
            /\ pc[r] \in {"reserved", "calling", "crashed"}
            /\ Settleable(r)

LEMMA PolicyStays ==
    ASSUME Inv, [Next]_vars
    PROVE  policy # NoPolicy => policy' # NoPolicy
BY GovernanceAssumption DEF Next, Serve, Prepare, Enter, Reserve, Refuse, CallProvider,
   Settle, RejectSettlement, Record, Crash, Tick, UpdatePolicy, vars, store

LEMMA PolicyStep ==
    ASSUME Inv, PoliciesStay, [Next]_vars
    PROVE  PoliciesStay'
<1> SUFFICES ASSUME NEW r \in Requests, ctx'[r].policy # NoPolicy PROVE policy' # NoPolicy
    BY DEF PoliciesStay
<1>t. ctx \in [Requests -> Context] /\ ctx[r] \in Context
    BY DEF Inv, TypeOK
<1>1. CASE ctx'[r].policy = ctx[r].policy
    BY <1>1, PolicyStays DEF PoliciesStay
<1>2. CASE ctx' = ctx
    BY <1>1, <1>2
<1>3. ASSUME NEW e \in Requests, Prepare(e) PROVE policy' # NoPolicy
    <2>1. PICK a \in Asks : ctx' = [ctx EXCEPT
                    ![e].policy = policy,
                    ![e].ask =
                        IF policy = NoPolicy THEN a
                        ELSE [a EXCEPT !["output"] =
                                SmallerOf(@, policy.per_request_output)]]
        BY <1>3 DEF Prepare
    <2>2. CASE e = r
        <3>1. ctx'[r].policy = policy
            BY <1>t, <2>1, <2>2 DEF Context
        <3> QED BY <3>1, PolicyStays
    <2>3. CASE e # r
        <3>1. ctx'[r] = ctx[r]
            BY <1>t, <2>1, <2>3
        <3> QED BY <1>1, <3>1
    <2> QED BY <2>2, <2>3
<1>4. ASSUME NEW e \in Requests, Enter(e) PROVE policy' # NoPolicy
    <2>1. ctx'[r].policy = ctx[r].policy
        BY <1>4, <1>t DEF Enter, Context
    <2> QED BY <1>1, <2>1
<1>5. ASSUME NEW e \in Requests, Reserve(e) \/ Refuse(e) PROVE policy' # NoPolicy
    <2>1. ctx' = [ctx EXCEPT ![e] = NoContext]
        BY <1>5 DEF Reserve, Refuse
    <2>2. e # r
        BY <1>t, <2>1 DEF NoContext
    <2>3. ctx'[r] = ctx[r]
        BY <1>t, <2>1, <2>2
    <2> QED BY <1>1, <2>3
<1>6. ASSUME NEW e \in Requests, \/ CallProvider(e) \/ (\E o \in Outcomes : Settle(e, o))
                                 \/ RejectSettlement(e) \/ Record(e) \/ Crash(e)
      PROVE  ctx' = ctx
    BY <1>6 DEF CallProvider, Settle, RejectSettlement, Record, Crash
<1>7. CASE Tick \/ (\E p \in Policies : UpdatePolicy(p)) \/ UNCHANGED vars
    BY <1>2, <1>7 DEF Tick, UpdatePolicy, vars
<1> QED BY <1>2, <1>3, <1>4, <1>5, <1>6, <1>7 DEF Next, Serve

LEMMA CapacityStep ==
    ASSUME Inv, PoliciesStay, CapacityIsReturnable, [Next]_vars
    PROVE  CapacityIsReturnable'
<1>t. ledger \in [Requests -> Event] /\ pc \in [Requests -> Stage]
    BY DEF Inv, TypeOK
<1> SUFFICES ASSUME NEW r \in Requests, ledger'[r].status = "reserved"
             PROVE  pc'[r] \in {"reserved", "calling", "crashed"} /\ policy' # NoPolicy
    BY DEF CapacityIsReturnable, Settleable
<1>2. CASE Reserve(r)
    <2>1. pc'[r] = "reserved"
        BY <1>2, <1>t DEF Reserve, Goto
    <2>2. policy # NoPolicy
        <3>1. PolicyHeld(r) # NoPolicy
            BY <1>2 DEF Reserve, Admits
        <3> QED BY <3>1 DEF PolicyHeld, PoliciesStay
    <2> QED BY <2>1, <2>2, PolicyStays
<1>3. CASE ledger[r].status = "reserved"
    <2>1. pc[r] \in {"reserved", "calling", "crashed"} /\ policy # NoPolicy
        BY <1>3 DEF CapacityIsReturnable, Settleable
    <2>2. ~ \E o \in Outcomes : Settle(r, o)
        <3> SUFFICES ASSUME NEW o \in Outcomes, Settle(r, o) PROVE FALSE
            OBVIOUS
        <3>1. ledger'[r].status = FinalStatus(r, o)
            BY <1>t DEF Settle, Event
        <3> QED BY <3>1, FinalStatusType DEF Charged
    <2>3. ~ RejectSettlement(r)
        BY <1>3, <2>1 DEF RejectSettlement, Settleable
    <2>4. pc'[r] = pc[r] \/ CallProvider(r) \/ Crash(r)
        <3>1. ~ (Prepare(r) \/ Enter(r) \/ Reserve(r) \/ Refuse(r) \/ Record(r))
            BY <2>1 DEF Prepare, Enter, Reserve, Refuse, Record, Goto
        <3> QED BY <2>2, <2>3, <3>1, HandlersStep DEF Serve
    <2>5. pc'[r] \in {"reserved", "calling", "crashed"}
        BY <1>t, <2>1, <2>4 DEF CallProvider, Crash, Goto
    <2> QED BY <2>1, <2>5, PolicyStays
<1>4. ledger'[r].status = ledger[r].status \/ Reserve(r)
    <2>1. ledger[r] \in Event
        BY <1>t
    <2>2. ASSUME NEW o \in Outcomes,
                 ledger'[r] = [ledger[r] EXCEPT !.status  = FinalStatus(r, o),
                                                !.charged = Charge(r, o)]
          PROVE  FALSE
        <3>1. ledger'[r].status = FinalStatus(r, o)
            BY <2>1, <2>2 DEF Event
        <3> QED BY <3>1, FinalStatusType DEF Charged
    <2>3. ASSUME ledger'[r] = [ledger[r] EXCEPT !.status = "expired"] PROVE FALSE
        BY <2>1, <2>3 DEF Event
    <2>4. ASSUME NEW exact, ledger'[r] = [ledger[r] EXCEPT !.reserved = Recount(r, exact)]
          PROVE  ledger'[r].status = ledger[r].status
        BY <2>1, <2>4 DEF Event
    <2>5. ASSUME ledger'[r] = [ledger[r] EXCEPT !.run = TRUE]
          PROVE  ledger'[r].status = ledger[r].status
        BY <2>1, <2>5 DEF Event
    <2> QED BY <2>2, <2>3, <2>4, <2>5, EventSteps
<1> QED BY <1>2, <1>3, <1>4

(***************************************************************************)
(* Whatever the requests, policies, clock and TTL: capacity is held by a   *)
(* handler that has yet to settle it and can, or by one that crashed.  No  *)
(* handler ends, rejected by settle_ai_usage or otherwise, and keeps it.   *)
(***************************************************************************)
THEOREM SpecCapacityIsReturnable == Spec => []CapacityIsReturnable
<1>1. Init => CapacityIsReturnable
    BY DEF Init, NoEvent, CapacityIsReturnable
<1>2. Init => PoliciesStay
    BY DEF Init, NoContext, PoliciesStay
<1>3. Inv /\ PoliciesStay /\ CapacityIsReturnable /\ [Next]_vars =>
        (PoliciesStay /\ CapacityIsReturnable)'
    BY PolicyStep, CapacityStep
<1> QED BY SpecInv, <1>1, <1>2, <1>3, PTL DEF Spec
==============================================================================
