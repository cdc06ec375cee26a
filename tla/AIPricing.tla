------------------------------ MODULE AIPricing ------------------------------
(***************************************************************************)
(* The price list of mission_intelligence/governance.py: integer micro-USD *)
(* estimates of one provider call.  Rates are micro-USD per million        *)
(* tokens; MultiplierBps is the surcharge in basis points.  The two        *)
(* scales, 10^6 and 10^4 in the code, are constants so that rounding shows *)
(* on small numbers.                                                       *)
(***************************************************************************)
EXTENDS Integers

CONSTANTS
    InputRate, CachedRate, OutputRate,  \* per million tokens
    WebRate,                            \* per web-search call
    MultiplierBps,
    TokensPerMillion, BasisPoints       \* the scales: 1000000 and 10000

ASSUME PricingAssumption ==
    /\ {InputRate, CachedRate, OutputRate, WebRate, MultiplierBps} \subseteq Nat
    /\ {TokensPerMillion, BasisPoints} \subseteq Nat \ {0}

Clamp(n) == IF n > 0 THEN n ELSE 0

SmallerOf(m, n) == IF m <= n THEN m ELSE n

CeilDiv(n, d) == (n + d - 1) \div d

EstimateCost(input, cached, output, web) ==
    LET in       == Clamp(input)
        hit      == SmallerOf(Clamp(cached), in)
        weighted == (in - hit) * InputRate + hit * CachedRate
                        + Clamp(output) * OutputRate
        base     == CeilDiv(weighted, TokensPerMillion)
    IN  CeilDiv(base * MultiplierBps, BasisPoints) + Clamp(web) * Clamp(WebRate)
==============================================================================
