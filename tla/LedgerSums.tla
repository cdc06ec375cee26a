----------------------------- MODULE LedgerSums ------------------------------
(***************************************************************************)
(* Sums over a finite set of ledger entries.  The sum of f over S is the   *)
(* number of its units, the pairs <<s, k>> with s in S and k in 1..f[s]:   *)
(* it equals the recursive sum for natural-valued f, and its laws follow   *)
(* from the theorems on cardinality, without induction.                    *)
(***************************************************************************)
EXTENDS Integers, FiniteSets

Units(S, f) == UNION { {s} \X (1 .. f[s]) : s \in S }

Total(S, f) == Cardinality(Units(S, f))
==============================================================================
