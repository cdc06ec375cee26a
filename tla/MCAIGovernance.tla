--------------------------- MODULE MCAIGovernance ----------------------------
\* Small instances of AIGovernance for TLC.
EXTENDS AIGovernanceProperties, TLC

OneAsk == { ("input" :> 2) @@ ("output" :> 2) @@ ("web" :> 1) }

MCAsks ==
    { ("input" :> 2) @@ ("output" :> 2) @@ ("web" :> 0),
      ("input" :> 1) @@ ("output" :> 1) @@ ("web" :> 1) }

\* Usage within the reservation, usage above it, a rejected answer with its
\* usage, and a failure or an answer that reports none.
Reported(failed, input, cached, output, web) ==
    [reported |-> TRUE, failed |-> failed, input |-> input, cached |-> cached,
     output |-> output, web |-> web]

Unreported(failed) ==
    [reported |-> FALSE, failed |-> failed, input |-> 0, cached |-> 0,
     output |-> 0, web |-> 0]

MCOutcomes ==
    { Reported(FALSE, 1, 1, 1, 0), Reported(TRUE, 3, 0, 2, 0),
      Unreported(TRUE) }

FewOutcomes == { Reported(FALSE, 3, 1, 1, 0), Unreported(TRUE) }

Setting(enabled, enforce, concurrent) ==
    [enabled |-> enabled, enforce |-> enforce, max_concurrent |-> concurrent,
     per_request_input |-> 2, per_request_output |-> 1, monthly_requests |-> 2,
     monthly_input |-> 3, monthly_output |-> 3, monthly_budget |-> 9]

\* An owner who widens and narrows the pilot, opens and closes it, enforces
\* the monthly limits, or leaves one setting alone.
WidenOrNarrow == { Setting(TRUE, FALSE, 2), Setting(TRUE, TRUE, 1) }

OpenOrClose == { Setting(TRUE, FALSE, 1), Setting(FALSE, FALSE, 1) }

EnforcingPolicies == { Setting(TRUE, TRUE, 2), Setting(FALSE, TRUE, 1) }

Symmetry == Permutations(Requests)
=============================================================================
