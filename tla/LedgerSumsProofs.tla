-------------------------- MODULE LedgerSumsProofs ---------------------------
(***************************************************************************)
(* The laws of Total that the proofs about counters need: its type, the    *)
(* empty sum, one more entry, a part taken away, and independence from     *)
(* entries outside the set.                                                *)
(***************************************************************************)
EXTENDS LedgerSums, FiniteSetTheorems, TLAPS

\* A unit of S is a pair of an entry and one of its ordinals.
LEMMA UnitsMember ==
    ASSUME NEW S, NEW f
    PROVE  \A u : u \in Units(S, f) <=>
                \E s \in S : \E k \in 1 .. f[s] : u = <<s, k>>
BY DEF Units

\* Finitely many entries with natural amounts have finitely many units.
LEMMA UnitsFinite ==
    ASSUME NEW S, IsFiniteSet(S), NEW f, \A s \in S : f[s] \in Nat
    PROVE  IsFiniteSet(Units(S, f))
<1> DEFINE Part(s) == {s} \X (1 .. f[s])
<1> DEFINE Parts == { Part(s) : s \in S }
<1> DEFINE part == [s \in S |-> Part(s)]
<1>1. part \in Surjection(S, Parts)
    BY DEF Surjection
<1>2. IsFiniteSet(Parts)
    BY <1>1, FS_Surjection
<1>3. \A s \in S : IsFiniteSet(Part(s))
    <2> TAKE s \in S
    <2> DEFINE n == f[s]
    <2>1. n \in Int
        OBVIOUS
    <2> HIDE DEF n
    <2>2. IsFiniteSet(1 .. n)
        BY <2>1, FS_Interval
    <2>3. IsFiniteSet({s})
        BY FS_Singleton
    <2>4. IsFiniteSet({s} \X (1 .. n))
        BY <2>2, <2>3, FS_Product
    <2> QED BY <2>4 DEF n
<1>4. IsFiniteSet(UNION Parts)
    BY <1>2, <1>3, FS_UNION
<1> QED BY <1>4 DEF Units

\* A sum is a natural number.
LEMMA TotalType ==
    ASSUME NEW S, IsFiniteSet(S), NEW f, \A s \in S : f[s] \in Nat
    PROVE  Total(S, f) \in Nat
BY UnitsFinite, FS_CardinalityType DEF Total

\* The empty sum.
LEMMA TotalEmpty ==
    ASSUME NEW f
    PROVE  Total({}, f) = 0
<1>1. Units({}, f) = {}
    BY DEF Units
<1> QED BY <1>1, FS_EmptySet DEF Total

\* Amounts outside the set do not matter.
LEMMA TotalSame ==
    ASSUME NEW S, NEW f, NEW g, \A s \in S : f[s] = g[s]
    PROVE  Total(S, f) = Total(S, g)
<1>1. \A u : u \in Units(S, f) <=> u \in Units(S, g)
    BY UnitsMember
<1>2. Units(S, f) = Units(S, g)
    BY <1>1
<1> QED BY <1>2 DEF Total

\* The sum of one entry is its amount.
LEMMA TotalOne ==
    ASSUME NEW s, NEW f, f[s] \in Nat
    PROVE  Total({s}, f) = f[s]
<1> DEFINE number == [k \in 1 .. f[s] |-> <<s, k>>]
<1>1. Units({s}, f) = { <<s, k>> : k \in 1 .. f[s] }
    BY DEF Units
<1>2. number \in Injection(1 .. f[s], Units({s}, f))
    BY <1>1 DEF Injection, IsInjective
<1>3. number \in Surjection(1 .. f[s], Units({s}, f))
    BY <1>1 DEF Surjection
<1>4. number \in Bijection(1 .. f[s], Units({s}, f))
    BY <1>2, <1>3 DEF Bijection
<1>5. ExistsBijection(1 .. f[s], Units({s}, f))
    BY <1>4 DEF ExistsBijection
<1> QED BY <1>5, FS_CountingElements DEF Total

\* Sums over disjoint sets add up.
LEMMA TotalUnion ==
    ASSUME NEW S, IsFiniteSet(S), NEW T, IsFiniteSet(T), S \cap T = {},
           NEW f, \A s \in S \cup T : f[s] \in Nat
    PROVE  Total(S \cup T, f) = Total(S, f) + Total(T, f)
<1>1. Units(S \cup T, f) = Units(S, f) \cup Units(T, f)
    BY DEF Units
<1>2. Units(S, f) \cap Units(T, f) = {}
    BY UnitsMember
<1>3. IsFiniteSet(Units(S, f)) /\ IsFiniteSet(Units(T, f))
    BY UnitsFinite
<1>4. Cardinality(Units(S, f) \cap Units(T, f)) = 0
    BY <1>2, FS_EmptySet
<1>5. Cardinality(Units(S, f)) \in Nat /\ Cardinality(Units(T, f)) \in Nat
    BY <1>3, FS_CardinalityType
<1>6. Cardinality(Units(S, f) \cup Units(T, f)) =
        Cardinality(Units(S, f)) + Cardinality(Units(T, f))
          - Cardinality(Units(S, f) \cap Units(T, f))
    BY <1>3, FS_Union
<1>7. Cardinality(Units(S, f) \cup Units(T, f)) =
        Cardinality(Units(S, f)) + Cardinality(Units(T, f))
    BY <1>4, <1>5, <1>6
<1>8. Cardinality(Units(S \cup T, f)) =
        Cardinality(Units(S, f)) + Cardinality(Units(T, f))
    BY <1>1, <1>7
<1> QED BY <1>8 DEF Total

\* One more entry adds its amount.
LEMMA TotalAdd ==
    ASSUME NEW S, IsFiniteSet(S), NEW s, s \notin S,
           NEW f, \A e \in S \cup {s} : f[e] \in Nat
    PROVE  Total(S \cup {s}, f) = Total(S, f) + f[s]
<1>1. IsFiniteSet({s}) /\ S \cap {s} = {}
    BY FS_Singleton
<1> QED BY <1>1, TotalUnion, TotalOne

\* A part taken away takes its sum away.
LEMMA TotalMinus ==
    ASSUME NEW S, IsFiniteSet(S), NEW T, T \subseteq S,
           NEW f, \A s \in S : f[s] \in Nat
    PROVE  /\ Total(S \ T, f) = Total(S, f) - Total(T, f)
           /\ Total(T, f) <= Total(S, f)
<1>1. IsFiniteSet(T) /\ IsFiniteSet(S \ T)
    BY FS_Subset
<1>2. Total((S \ T) \cup T, f) = Total(S \ T, f) + Total(T, f)
    BY <1>1, TotalUnion
<1>3. (S \ T) \cup T = S
    OBVIOUS
<1>4. Total(S \ T, f) \in Nat /\ Total(T, f) \in Nat
    BY <1>1, TotalType
<1>5. Total(S, f) = Total(S \ T, f) + Total(T, f)
    BY <1>2, <1>3
<1> QED BY <1>4, <1>5

\* Removing one entry takes its amount away.
LEMMA TotalRemove ==
    ASSUME NEW S, IsFiniteSet(S), NEW s \in S,
           NEW f, \A e \in S : f[e] \in Nat
    PROVE  /\ Total(S \ {s}, f) = Total(S, f) - f[s]
           /\ f[s] <= Total(S, f)
<1>1. {s} \subseteq S
    OBVIOUS
<1>2. Total({s}, f) = f[s]
    BY TotalOne
<1> QED BY <1>1, <1>2, TotalMinus

\* Changing the amount of one entry changes the sum by the difference.
LEMMA TotalChange ==
    ASSUME NEW S, IsFiniteSet(S), NEW s \in S,
           NEW f, \A e \in S : f[e] \in Nat,
           NEW g, \A e \in S : g[e] \in Nat,
           \A e \in S \ {s} : g[e] = f[e]
    PROVE  Total(S, g) = Total(S, f) - f[s] + g[s]
<1>1. Total(S \ {s}, g) = Total(S \ {s}, f)
    BY TotalSame
<1>2. /\ Total(S \ {s}, g) = Total(S, g) - g[s]
      /\ Total(S \ {s}, f) = Total(S, f) - f[s]
    BY TotalRemove
<1>3. Total(S, g) \in Nat /\ Total(S, f) \in Nat
    BY TotalType
<1> QED BY <1>1, <1>2, <1>3
=============================================================================
