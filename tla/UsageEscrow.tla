---------------------------- MODULE UsageEscrow ------------------------------
(***************************************************************************)
(* The abstract promise of the AI budget: an allowance is held at most     *)
(* once per request, at most Capacity allowances of one month are held     *)
(* together, and a held allowance ends once, spent or released.  A new one *)
(* may be granted in the same step that releases others of its month.      *)
(***************************************************************************)
EXTENDS Integers, FiniteSets

CONSTANTS Requests, Months, Capacity

VARIABLES stage, month

vars == <<stage, month>>

HeldIn(m) == { r \in Requests : stage[r] = "held" /\ month[r] = m }

Init ==
    /\ stage = [r \in Requests |-> "free"]
    /\ month \in [Requests -> Months]

Grant(r, m, freed) ==
    /\ stage[r] = "free"
    /\ Cardinality(HeldIn(m) \ freed) < Capacity
    /\ stage' = [e \in Requests |->
            IF e = r THEN "held"
            ELSE IF e \in freed THEN "released"
            ELSE stage[e]]
    /\ month' = [month EXCEPT ![r] = m]

Spend(r) ==
    /\ stage[r] = "held"
    /\ stage' = [stage EXCEPT ![r] = "spent"]
    /\ UNCHANGED month

Next ==
    \E r \in Requests :
        \/ \E m \in Months : \E freed \in SUBSET HeldIn(m) : Grant(r, m, freed)
        \/ Spend(r)

Spec == Init /\ [][Next]_vars

WithinCapacity == \A m \in Months : Cardinality(HeldIn(m)) <= Capacity
==============================================================================
