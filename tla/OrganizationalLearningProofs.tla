-------------------- MODULE OrganizationalLearningProofs --------------------
(***************************************************************************)
(* The views of an organisation are what they claim, for any missions and  *)
(* records in any order.  The forest is followed union by union: every     *)
(* learning has a root and a height that falls on the way to it, so that   *)
(* a search ends; two learnings have one root exactly if they are chained; *)
(* and chains close after as many rounds as there are learnings.  The mean *)
(* of the missions' debts is a percentage, as each of them is, and is      *)
(* ordered as they are.                                                    *)
(***************************************************************************)
EXTENDS OrganizationalLearning, LedgerSumsProofs, FiniteSetTheorems, WellFoundedInduction,
        SequenceTheorems, TLAPS

\* A set of numbers that has any has a least.
LEMMA LeastNumber ==
    ASSUME NEW T, T \subseteq Nat, T # {}
    PROVE  \E n \in T : \A m \in T : n <= m
<1> DEFINE R == OpToRel(<, Nat)
<1>1. IsWellFoundedOn(R, Nat)
    BY NatLessThanWellFounded
<1>2. ASSUME NEW x \in Nat, NEW y \in Nat PROVE <<x, y>> \in R <=> x < y
    BY DEF OpToRel
<1>3. \E x \in T : \A y \in T : ~ (<<y, x>> \in R)
    <2> HIDE DEF R
    <2> QED BY <1>1, WFMin
<1> HIDE DEF R
<1>4. PICK x \in T : \A y \in T : ~ (<<y, x>> \in R)
    BY <1>3
<1>5. ASSUME NEW y \in T PROVE x <= y
    <2>1. x \in Nat /\ y \in Nat
        OBVIOUS
    <2>2. ~ (y < x)
        BY <1>2, <1>4, <2>1
    <2> QED BY <2>1, <2>2
<1> QED BY <1>5

-----------------------------------------------------------------------------
(***************************************************************************)
(* Steps.  What a loop computes is a function of how often it has run.     *)
(***************************************************************************)

\* g is what the loop holds after 0, 1, ... n rounds of F.
Runs(g, F, begin, n) ==
    g[0] = begin /\ \A k \in Nat : k < n => g[k + 1] = F[<<k, g[k]>>]

LEMMA SomeRunsExist ==
    ASSUME NEW S, NEW F \in [Nat \X S -> S], NEW begin \in S, NEW n \in Nat
    PROVE  \E g \in [0 .. n -> S] : Runs(g, F, begin, n)
<1> DEFINE Possible(m) == \E g \in [0 .. m -> S] : Runs(g, F, begin, m)
           T == {m \in Nat : ~ Possible(m)}
<1>1. SUFFICES ASSUME T # {} PROVE FALSE
    <2>1. n \in T \/ Possible(n)
        OBVIOUS
    <2> QED BY <2>1
<1>2. PICK m \in T : \A x \in T : m <= x
    <2>1. T \subseteq Nat
        OBVIOUS
    <2> HIDE DEF T
    <2> QED BY <1>1, <2>1, LeastNumber
<1>3. CASE m = 0
    <2> DEFINE g == [i \in 0 .. 0 |-> begin]
    <2>1. g \in [0 .. 0 -> S] /\ g[0] = begin /\ \A k \in Nat : ~ (k < 0)
        OBVIOUS
    <2>2. Possible(0)
        <3> HIDE DEF g
        <3> QED BY <2>1 DEF Runs
    <2> QED BY <1>2, <1>3, <2>2
<1>4. CASE m # 0
    <2>1. m \in Nat /\ m - 1 \in Nat /\ ~ (m <= m - 1) /\ m - 1 \in 0 .. m - 1
        BY <1>2, <1>4
    <2>2. Possible(m - 1)
        BY <1>2, <2>1
    <2>3. PICK g \in [0 .. m - 1 -> S] : Runs(g, F, begin, m - 1)
        BY <2>2
    <2> DEFINE more == F[<<m - 1, g[m - 1]>>]
               h == [i \in 0 .. m |-> IF i = m THEN more ELSE g[i]]
    <2>4. more \in S
        <3>1. <<m - 1, g[m - 1]>> \in Nat \X S
            BY <2>1, <2>3
        <3> QED BY <3>1
    <2>5. h \in [0 .. m -> S]
        <3> HIDE DEF more
        <3>1. \A i \in 0 .. m : i = m \/ i \in 0 .. m - 1
            BY <2>1
        <3> QED BY <2>1, <2>3, <2>4, <3>1
    <2>6. /\ h[m] = more /\ \A k \in 0 .. m - 1 : h[k] = g[k]
        <3> HIDE DEF more
        <3> QED BY <2>1
    <2>7. h[0] = begin
        BY <2>1, <2>3, <2>6 DEF Runs
    <2>8. ASSUME NEW k \in Nat, k < m PROVE h[k + 1] = F[<<k, h[k]>>]
        <3>1. k \in 0 .. m - 1 /\ h[k] = g[k]
            BY <2>1, <2>6, <2>8
        <3>2. CASE k = m - 1
            <4>1. k + 1 = m
                BY <2>1, <3>2
            <4> QED BY <2>6, <3>1, <3>2, <4>1
        <3>3. CASE k # m - 1
            <4>1. k < m - 1 /\ k + 1 \in 0 .. m - 1
                BY <2>1, <2>8, <3>3
            <4>2. g[k + 1] = F[<<k, g[k]>>]
                BY <2>3, <4>1 DEF Runs
            <4> QED BY <2>6, <3>1, <4>1, <4>2
        <3> QED BY <3>2, <3>3
    <2>9. Possible(m)
        <3> HIDE DEF h
        <3> QED BY <2>5, <2>7, <2>8 DEF Runs
    <2> QED BY <1>2, <2>9
<1> QED BY <1>3, <1>4

LEMMA RunsAgree ==
    ASSUME NEW F, NEW begin, NEW n \in Nat, NEW g, NEW h,
           Runs(g, F, begin, n), Runs(h, F, begin, n)
    PROVE  \A k \in 0 .. n : g[k] = h[k]
<1> DEFINE T == {k \in 0 .. n : g[k] # h[k]}
<1>1. SUFFICES ASSUME T # {} PROVE FALSE
    OBVIOUS
<1>2. PICK m \in T : \A x \in T : m <= x
    <2>1. T \subseteq Nat
        OBVIOUS
    <2> HIDE DEF T
    <2> QED BY <1>1, <2>1, LeastNumber
<1>3. CASE m = 0
    BY <1>2, <1>3 DEF Runs
<1>4. CASE m # 0
    <2>1. m - 1 \in Nat /\ m - 1 \in 0 .. n /\ m - 1 < n /\ ~ (m <= m - 1) /\ (m - 1) + 1 = m
        BY <1>2, <1>4
    <2>2. g[m - 1] = h[m - 1]
        BY <1>2, <2>1
    <2>3. g[(m - 1) + 1] = h[(m - 1) + 1]
        BY <2>1, <2>2 DEF Runs
    <2> QED BY <1>2, <2>1, <2>3
<1> QED BY <1>3, <1>4

RunsOn(g, F, begin) == g[0] = begin /\ \A k \in Nat : g[k + 1] = F[<<k, g[k]>>]

LEMMA RunsExist ==
    ASSUME NEW S, NEW F, NEW begin, F \in [Nat \X S -> S], begin \in S
    PROVE  \E g \in [Nat -> S] : RunsOn(g, F, begin)
<1> DEFINE Piece(n) == CHOOSE g \in [0 .. n -> S] : Runs(g, F, begin, n)
           g == [n \in Nat |-> Piece(n)[n]]
<1>1. ASSUME NEW n \in Nat
      PROVE  Piece(n) \in [0 .. n -> S] /\ Runs(Piece(n), F, begin, n)
    <2>1. \E x \in [0 .. n -> S] : Runs(x, F, begin, n)
        BY SomeRunsExist
    <2> QED BY <2>1
<1> HIDE DEF Piece
<1>2. g \in [Nat -> S]
    <2>1. \A n \in Nat : n \in 0 .. n
        OBVIOUS
    <2>2. \A n \in Nat : Piece(n)[n] \in S
        BY <1>1, <2>1
    <2> QED BY <2>2
<1>3. g[0] = begin
    <2>1. g[0] = Piece(0)[0]
        OBVIOUS
    <2> QED BY <1>1, <2>1 DEF Runs
<1>4. ASSUME NEW k \in Nat PROVE g[k + 1] = F[<<k, g[k]>>]
    <2>1. k + 1 \in Nat /\ k < k + 1 /\ k \in 0 .. k /\ g[k + 1] = Piece(k + 1)[k + 1]
          /\ g[k] = Piece(k)[k]
        OBVIOUS
    <2>2. Runs(Piece(k + 1), F, begin, k + 1) /\ Runs(Piece(k), F, begin, k)
        BY <1>1, <2>1
    <2>3. Runs(Piece(k + 1), F, begin, k)
        <3>1. \A x \in Nat : x < k => x < k + 1
            OBVIOUS
        <3> QED BY <2>2, <3>1 DEF Runs
    <2>4. Piece(k + 1)[k] = Piece(k)[k]
        BY <2>1, <2>2, <2>3, RunsAgree
    <2>5. Piece(k + 1)[k + 1] = F[<<k, Piece(k + 1)[k]>>]
        BY <2>1, <2>2 DEF Runs
    <2> QED BY <2>1, <2>4, <2>5
<1> QED BY <1>2, <1>3, <1>4 DEF RunsOn

-----------------------------------------------------------------------------
(***************************************************************************)
(* The forest.  Whatever is halved and joined, each learning has a root,   *)
(* which is nearer the nearer one is to the top.                           *)
(***************************************************************************)

Rooted(p, n, root, height) ==
    /\ p \in [1 .. n -> 1 .. n] /\ root \in [1 .. n -> 1 .. n]
    /\ height \in [1 .. n -> Nat]
    /\ \A i \in 1 .. n : /\ root[p[i]] = root[i]
                         /\ p[root[i]] = root[i]
                         /\ p[i] = i => root[i] = i
                         /\ p[i] # i => height[p[i]] < height[i]

Forested(p, n, root) == \E height : Rooted(p, n, root, height)

LEMMA HalvingKeepsRoots ==
    ASSUME NEW n \in Nat, NEW p, NEW root, NEW height, Rooted(p, n, root, height),
           NEW i \in 1 .. n, p[i] # i,
           NEW q, q = [p EXCEPT ![i] = p[p[i]]]
    PROVE  /\ Rooted(q, n, root, height)
           /\ q[i] \in 1 .. n /\ root[q[i]] = root[i] /\ height[q[i]] < height[i]
<1>1. /\ p \in [1 .. n -> 1 .. n] /\ root \in [1 .. n -> 1 .. n]
      /\ height \in [1 .. n -> Nat]
    BY DEF Rooted
<1>2. p[i] \in 1 .. n /\ p[p[i]] \in 1 .. n
    BY <1>1
<1>3. q \in [1 .. n -> 1 .. n] /\ q[i] = p[p[i]] /\ \A j \in 1 .. n : j # i => q[j] = p[j]
    BY <1>1, <1>2
<1>4. root[p[p[i]]] = root[i]
    BY <1>2 DEF Rooted
<1>5. height[p[p[i]]] < height[i]
    <2>1. height[p[i]] < height[i]
        BY DEF Rooted
    <2>2. p[p[i]] = p[i] \/ height[p[p[i]]] < height[p[i]]
        BY <1>2 DEF Rooted
    <2>3. height[i] \in Nat /\ height[p[i]] \in Nat /\ height[p[p[i]]] \in Nat
        BY <1>1, <1>2
    <2> QED BY <2>1, <2>2, <2>3
<1>6. ASSUME NEW j \in 1 .. n
      PROVE  /\ root[q[j]] = root[j] /\ q[root[j]] = root[j]
             /\ q[j] = j => root[j] = j
             /\ q[j] # j => height[q[j]] < height[j]
    <2>1. root[j] # i
        BY DEF Rooted
    <2>2. root[j] \in 1 .. n
        BY <1>1
    <2>3. q[root[j]] = root[j]
        BY <1>3, <2>1, <2>2 DEF Rooted
    <2>4. CASE j = i
        <3>1. q[j] # j
            BY <1>1, <1>3, <1>5, <2>4
        <3> QED BY <1>3, <1>4, <1>5, <2>3, <2>4, <3>1
    <2>5. CASE j # i
        BY <1>3, <2>3, <2>5 DEF Rooted
    <2> QED BY <2>4, <2>5
<1>7. Rooted(q, n, root, height)
    BY <1>1, <1>3, <1>6 DEF Rooted
<1> QED BY <1>2, <1>3, <1>4, <1>5, <1>7

\* No tree need be higher than there are learnings.
LEMMA RootsAreNear ==
    ASSUME NEW n \in Nat, NEW p, NEW root, Forested(p, n, root)
    PROVE  \E height : Rooted(p, n, root, height) /\ \A i \in 1 .. n : height[i] < n
<1>1. PICK high : Rooted(p, n, root, high)
    BY DEF Forested
<1> DEFINE Below(i) == {j \in 1 .. n : high[j] < high[i]}
           low == [i \in 1 .. n |-> Cardinality(Below(i))]
<1>2. /\ p \in [1 .. n -> 1 .. n] /\ high \in [1 .. n -> Nat]
    BY <1>1 DEF Rooted
<1>3. IsFiniteSet(1 .. n) /\ Cardinality(1 .. n) = n
    <2>1. 1 \in Int /\ n \in Int
        OBVIOUS
    <2> QED BY <2>1, FS_Interval
<1>4. ASSUME NEW i \in 1 .. n
      PROVE  /\ IsFiniteSet(Below(i)) /\ Cardinality(Below(i)) \in Nat
             /\ Cardinality(Below(i)) < n
    <2>1. Below(i) \subseteq 1 .. n /\ i \notin Below(i)
        BY <1>2
    <2> HIDE DEF Below
    <2>2. IsFiniteSet(Below(i)) /\ Cardinality(Below(i)) <= n /\ Cardinality(Below(i)) # n
        BY <1>3, <2>1, FS_Subset
    <2>3. Cardinality(Below(i)) \in Nat
        BY <2>2, FS_CardinalityType
    <2> QED BY <2>2, <2>3
<1>5. ASSUME NEW i \in 1 .. n, NEW j \in 1 .. n, high[j] < high[i]
      PROVE  Cardinality(Below(j)) < Cardinality(Below(i))
    <2>1. Below(j) \subseteq Below(i) /\ j \in Below(i) /\ j \notin Below(j)
        <3>1. \A x \in 1 .. n : high[x] \in Nat
            BY <1>2
        <3> QED BY <1>5, <3>1
    <2> HIDE DEF Below
    <2>2. /\ Cardinality(Below(j)) <= Cardinality(Below(i))
          /\ Cardinality(Below(j)) # Cardinality(Below(i))
        BY <1>4, <2>1, FS_Subset
    <2>3. Cardinality(Below(i)) \in Nat /\ Cardinality(Below(j)) \in Nat
        BY <1>4
    <2> QED BY <2>2, <2>3
<1> HIDE DEF Below
<1>6. /\ low \in [1 .. n -> Nat] /\ \A i \in 1 .. n : low[i] = Cardinality(Below(i))
    BY <1>4
<1> HIDE DEF low
<1>7. \A i \in 1 .. n : p[i] # i => low[p[i]] < low[i]
    <2>1. ASSUME NEW i \in 1 .. n, p[i] # i PROVE low[p[i]] < low[i]
        <3>1. p[i] \in 1 .. n
            BY <1>2
        <3>2. high[p[i]] < high[i]
            BY <1>1, <2>1 DEF Rooted
        <3> QED BY <1>5, <1>6, <3>1, <3>2
    <2> QED BY <2>1
<1>8. Rooted(p, n, root, low)
    BY <1>1, <1>6, <1>7 DEF Rooted
<1>9. \A i \in 1 .. n : low[i] < n
    BY <1>4, <1>6
<1> QED BY <1>8, <1>9

\* What find does once, and what it holds after so many times.
Halved(last) ==
    LET p == last.parent
        i == last.root
        halved == [p EXCEPT ![i] = p[p[i]]]
    IN  IF p[i] = i THEN last ELSE [parent |-> halved, root |-> halved[i]]

FindBy(g, parent, index) ==
    g = [n \in Nat |-> IF n = 0 THEN [parent |-> parent, root |-> index]
                       ELSE Halved(g[n - 1])]
Finding(parent, index) == CHOOSE g : FindBy(g, parent, index)

LEMMA FindIsFinding ==
    ASSUME NEW parent, NEW index
    PROVE  Find(parent, index) = Finding(parent, index)[Cardinality(DOMAIN parent)]
BY DEF Find, Finding, FindBy, Halved

LEMMA FindingSteps ==
    ASSUME NEW n \in Nat, NEW p \in [1 .. n -> 1 .. n], NEW i \in 1 .. n
    PROVE  /\ Finding(p, i)[0] = [parent |-> p, root |-> i]
           /\ \A k \in Nat : Finding(p, i)[k + 1] = Halved(Finding(p, i)[k])
<1> DEFINE S == [parent : [1 .. n -> 1 .. n], root : 1 .. n]
           F == [x \in Nat \X S |-> Halved(x[2])]
           begin == [parent |-> p, root |-> i]
           W == Finding(p, i)
<1>1. ASSUME NEW s \in S PROVE Halved(s) \in S
    <2>1. s.parent \in [1 .. n -> 1 .. n] /\ s.root \in 1 .. n
        OBVIOUS
    <2>2. s.parent[s.parent[s.root]] \in 1 .. n
        BY <2>1
    <2> DEFINE q == [s.parent EXCEPT ![s.root] = s.parent[s.parent[s.root]]]
    <2>3. q \in [1 .. n -> 1 .. n] /\ q[s.root] \in 1 .. n
        BY <2>1, <2>2
    <2>4. Halved(s) = IF s.parent[s.root] = s.root THEN s
                      ELSE [parent |-> q, root |-> q[s.root]]
        BY DEF Halved
    <2>5. [parent |-> q, root |-> q[s.root]] \in S
        <3> HIDE DEF q
        <3> QED BY <2>3
    <2> HIDE DEF q, S
    <2> QED BY <2>4, <2>5
<1>2. F \in [Nat \X S -> S]
    <2> HIDE DEF S
    <2> QED BY <1>1
<1>3. begin \in S
    OBVIOUS
<1>4. PICK g \in [Nat -> S] : RunsOn(g, F, begin)
    <2> HIDE DEF S, F, begin
    <2> QED BY <1>2, <1>3, RunsExist
<1>5. \A k \in Nat : g[k + 1] = Halved(g[k])
    <2> HIDE DEF S
    <2>1. \A k \in Nat : <<k, g[k]>> \in Nat \X S
        BY <1>4
    <2> QED BY <1>4, <2>1 DEF RunsOn
<1>6. FindBy(g, p, i)
    <2>1. g = [k \in Nat |-> g[k]]
        BY <1>4
    <2>2. ASSUME NEW k \in Nat
          PROVE  g[k] = IF k = 0 THEN begin ELSE Halved(g[k - 1])
        <3>1. CASE k = 0
            BY <1>4, <3>1 DEF RunsOn
        <3>2. CASE k # 0
            <4>1. k - 1 \in Nat /\ (k - 1) + 1 = k
                BY <3>2
            <4>2. g[(k - 1) + 1] = Halved(g[k - 1])
                BY <1>5, <4>1
            <4> QED BY <3>2, <4>1, <4>2
        <3> QED BY <3>1, <3>2
    <2> HIDE DEF S
    <2> QED BY <2>1, <2>2 DEF FindBy
<1>7. FindBy(W, p, i)
    BY Zenon, <1>6 DEF Finding
<1> HIDE DEF W, S, F
<1>8. W[0] = begin
    BY <1>7 DEF FindBy
<1>9. ASSUME NEW k \in Nat PROVE W[k + 1] = Halved(W[k])
    <2>1. k + 1 \in Nat /\ k + 1 # 0 /\ (k + 1) - 1 = k
        OBVIOUS
    <2>2. W[k + 1] = IF k + 1 = 0 THEN begin ELSE Halved(W[(k + 1) - 1])
        BY <1>7, <2>1 DEF FindBy
    <2> QED BY <2>1, <2>2
<1> QED BY <1>8, <1>9 DEF W

LEMMA FindFinds ==
    ASSUME NEW n \in Nat, NEW p, NEW root, Forested(p, n, root), NEW i \in 1 .. n
    PROVE  Find(p, i).root = root[i] /\ Forested(Find(p, i).parent, n, root)
<1>1. PICK height : Rooted(p, n, root, height) /\ \A x \in 1 .. n : height[x] < n
    BY RootsAreNear
<1>2. /\ p \in [1 .. n -> 1 .. n] /\ root \in [1 .. n -> 1 .. n]
      /\ height \in [1 .. n -> Nat]
    BY <1>1 DEF Rooted
<1> DEFINE W == Finding(p, i)
           Near(k) == /\ Rooted(W[k].parent, n, root, height)
                      /\ W[k].root \in 1 .. n /\ root[W[k].root] = root[i]
                      /\ \/ W[k].parent[W[k].root] = W[k].root
                         \/ height[W[k].root] + k < n
           T == {k \in Nat : ~ Near(k)}
<1>3. W[0] = [parent |-> p, root |-> i] /\ \A k \in Nat : W[k + 1] = Halved(W[k])
    BY <1>2, FindingSteps
<1> HIDE DEF W
<1>4. Near(0)
    BY <1>1, <1>2, <1>3
<1>5. ASSUME NEW k \in Nat, Near(k) PROVE Near(k + 1)
    <2> DEFINE s == W[k]
               q == [s.parent EXCEPT ![s.root] = s.parent[s.parent[s.root]]]
    <2>1. CASE s.parent[s.root] = s.root
        <3>1. W[k + 1] = W[k]
            BY <1>3, <2>1 DEF Halved
        <3> QED BY <1>5, <2>1, <3>1
    <2>2. CASE s.parent[s.root] # s.root
        <3>1. W[k + 1].parent = q /\ W[k + 1].root = q[s.root]
            <4>1. Halved(s) = [parent |-> q, root |-> q[s.root]]
                BY <2>2 DEF Halved
            <4>2. W[k + 1] = Halved(s)
                BY <1>3
            <4> HIDE DEF q, s
            <4> QED BY <4>1, <4>2
        <3>2. /\ Rooted(q, n, root, height)
              /\ q[s.root] \in 1 .. n /\ root[q[s.root]] = root[s.root]
              /\ height[q[s.root]] < height[s.root]
            BY <1>5, <2>2, HalvingKeepsRoots
        <3>3. height[s.root] + k < n
            BY <1>5, <2>2
        <3>4. height[q[s.root]] + (k + 1) < n
            <4>1. height[q[s.root]] \in Nat /\ height[s.root] \in Nat
                BY <1>2, <1>5, <3>2
            <4> QED BY <3>2, <3>3, <4>1
        <3> HIDE DEF q
        <3> QED BY <1>5, <3>1, <3>2, <3>4
    <2> QED BY <2>1, <2>2
<1> HIDE DEF Near
<1>6. ASSUME NEW k \in Nat PROVE Near(k)
    <2>1. SUFFICES ASSUME T # {} PROVE FALSE
        OBVIOUS
    <2>2. PICK m \in T : \A x \in T : m <= x
        <3>1. T \subseteq Nat
            OBVIOUS
        <3> HIDE DEF T
        <3> QED BY <2>1, <3>1, LeastNumber
    <2>3. m # 0
        BY <1>4, <2>2
    <2>4. m - 1 \in Nat /\ ~ (m <= m - 1) /\ (m - 1) + 1 = m
        BY <2>2, <2>3
    <2>5. Near(m - 1)
        BY <2>2, <2>4
    <2>6. Near((m - 1) + 1)
        BY <1>5, <2>4, <2>5
    <2> QED BY <2>2, <2>4, <2>6
<1>7. Cardinality(DOMAIN p) = n
    <2>1. 1 \in Int /\ n \in Int /\ DOMAIN p = 1 .. n
        BY <1>2
    <2> QED BY <2>1, FS_Interval
<1>8. Find(p, i) = W[n]
    BY <1>7, FindIsFinding DEF W
<1>9. Near(n)
    BY <1>6
<1>10. W[n].parent[W[n].root] = W[n].root
    <2>1. height[W[n].root] \in Nat
        BY <1>2, <1>9 DEF Near
    <2> QED BY <1>9, <2>1 DEF Near
<1>11. root[W[n].root] = W[n].root
    BY <1>9, <1>10 DEF Near, Rooted
<1> QED BY <1>8, <1>9, <1>11 DEF Near, Forested

\* Who had one root has the other's.
MergedRoots(root, n, a, b) == [i \in 1 .. n |-> IF root[i] = b THEN a ELSE root[i]]

LEMMA UnionMerges ==
    ASSUME NEW n \in Nat, NEW p, NEW root, Forested(p, n, root),
           NEW left \in 1 .. n, NEW right \in 1 .. n
    PROVE  Forested(Union(p, left, right), n, MergedRoots(root, n, root[left], root[right]))
<1> DEFINE l == Find(p, left)
           r == Find(l.parent, right)
           a == root[left]
           b == root[right]
           new == MergedRoots(root, n, a, b)
           q == r.parent
<1>1. l.root = a /\ Forested(l.parent, n, root)
    BY FindFinds
<1>2. r.root = b /\ Forested(q, n, root)
    BY <1>1, FindFinds
<1>3. PICK height : Rooted(q, n, root, height)
    BY <1>2 DEF Forested
<1>4. /\ q \in [1 .. n -> 1 .. n] /\ root \in [1 .. n -> 1 .. n]
      /\ height \in [1 .. n -> Nat]
    BY <1>3 DEF Rooted
<1>5. Union(p, left, right) = IF a = b THEN q ELSE [q EXCEPT ![b] = a]
    BY <1>1, <1>2 DEF Union
<1> HIDE DEF l, r, q
<1>6. CASE a = b
    <2>1. new = root
        BY <1>4, <1>6 DEF MergedRoots
    <2> QED BY <1>2, <1>5, <1>6, <2>1
<1>7. CASE a # b
    <2> DEFINE p2 == [q EXCEPT ![b] = a]
               high == [i \in 1 .. n |-> IF root[i] = b THEN height[i] + height[a] + 1
                                         ELSE height[i]]
    <2>1. a \in 1 .. n /\ b \in 1 .. n /\ q[a] = a /\ q[b] = b /\ root[a] = a /\ root[b] = b
        BY <1>3, <1>4 DEF Rooted
    <2> HIDE DEF a, b
    <2>2. /\ p2 \in [1 .. n -> 1 .. n] /\ p2[b] = a
          /\ \A i \in 1 .. n : i # b => p2[i] = q[i]
        BY <1>4, <2>1
    <2>3. high \in [1 .. n -> Nat]
        <3>1. \A i \in 1 .. n : height[i] \in Nat /\ height[a] \in Nat
            BY <1>4, <2>1
        <3> QED BY <3>1
    <2>4. \A i \in 1 .. n : /\ root[i] = b => /\ high[i] = height[i] + height[a] + 1
                                              /\ new[i] = a
                            /\ root[i] # b => high[i] = height[i] /\ new[i] = root[i]
        BY DEF MergedRoots
    <2>5. new \in [1 .. n -> 1 .. n]
        BY <1>4, <2>1 DEF MergedRoots
    <2> HIDE DEF p2, high, new
    <2>6. ASSUME NEW i \in 1 .. n
          PROVE  /\ new[p2[i]] = new[i]
                 /\ p2[new[i]] = new[i]
                 /\ p2[i] = i => new[i] = i
                 /\ p2[i] # i => high[p2[i]] < high[i]
        <3>1. /\ root[q[i]] = root[i] /\ q[root[i]] = root[i]
              /\ q[i] = i => root[i] = i
              /\ q[i] # i => height[q[i]] < height[i]
              /\ q[i] \in 1 .. n /\ root[i] \in 1 .. n
            BY <1>3, <1>4 DEF Rooted
        <3>2. height[i] \in Nat /\ height[a] \in Nat /\ height[b] \in Nat
              /\ height[q[i]] \in Nat
            BY <1>4, <2>1, <3>1
        <3>3. p2[new[i]] = new[i]
            <4>1. CASE root[i] = b
                BY <1>7, <2>1, <2>2, <2>4, <4>1
            <4>2. CASE root[i] # b
                BY <2>2, <2>4, <3>1, <4>2
            <4> QED BY <4>1, <4>2
        <3>4. CASE i = b
            <4>1. p2[i] = a /\ new[a] = a /\ new[b] = a /\ high[a] = height[a]
                  /\ high[b] = height[b] + height[a] + 1
                BY <1>7, <2>1, <2>2, <2>4, <3>4
            <4>2. high[a] < high[b]
                BY <3>2, <4>1
            <4> QED BY <1>7, <3>3, <3>4, <4>1, <4>2
        <3>5. CASE i # b
            <4>1. p2[i] = q[i]
                BY <2>2, <3>5
            <4>2. new[q[i]] = new[i]
                BY <2>4, <3>1
            <4>3. q[i] = i => new[i] = i
                BY <2>4, <3>1, <3>5
            <4>4. q[i] # i => high[q[i]] < high[i]
                <5>1. CASE root[i] = b
                    <6>1. high[i] = height[i] + height[a] + 1
                          /\ high[q[i]] = height[q[i]] + height[a] + 1
                        BY <2>4, <3>1, <5>1
                    <6> QED BY <3>1, <3>2, <6>1
                <5>2. CASE root[i] # b
                    <6>1. high[i] = height[i] /\ high[q[i]] = height[q[i]]
                        BY <2>4, <3>1, <5>2
                    <6> QED BY <3>1, <6>1
                <5> QED BY <5>1, <5>2
            <4> QED BY <3>3, <4>1, <4>2, <4>3, <4>4
        <3> QED BY <3>4, <3>5
    <2>7. Rooted(p2, n, new, high)
        BY <2>2, <2>3, <2>5, <2>6 DEF Rooted
    <2>8. Forested(p2, n, new)
        BY <2>7 DEF Forested
    <2> QED BY <1>5, <1>7, <2>8 DEF p2, new, a, b
<1> QED BY <1>6, <1>7

-----------------------------------------------------------------------------
\* The pairs of two nested loops

LEMMA Quotients ==
    ASSUME NEW d \in Nat \ {0}, NEW n \in Nat
    PROVE  \E q \in Nat, r \in 0 .. d - 1 : n = d * q + r
<1> DEFINE Divides(x) == \E q \in Nat, r \in 0 .. d - 1 : x = d * q + r
           T == {x \in Nat : ~ Divides(x)}
<1>1. SUFFICES ASSUME T # {} PROVE FALSE
    <2>1. n \in T \/ Divides(n)
        OBVIOUS
    <2> QED BY <2>1
<1>2. PICK m \in T : \A x \in T : m <= x
    <2>1. T \subseteq Nat
        OBVIOUS
    <2> HIDE DEF T
    <2> QED BY <1>1, <2>1, LeastNumber
<1>3. Divides(0)
    <2>1. 0 \in Nat /\ 0 \in 0 .. d - 1 /\ 0 = d * 0 + 0
        OBVIOUS
    <2> QED BY <2>1
<1>4. m \in Nat /\ m - 1 \in Nat /\ ~ (m <= m - 1)
    BY <1>2, <1>3
<1>5. Divides(m - 1)
    BY <1>2, <1>4
<1>6. PICK q \in Nat, r \in 0 .. d - 1 : m - 1 = d * q + r
    BY <1>5
<1>7. CASE r < d - 1
    <2>1. r + 1 \in 0 .. d - 1 /\ m = d * q + (r + 1)
        <3>1. d * q \in Nat
            OBVIOUS
        <3> QED BY <1>4, <1>6, <1>7, <3>1
    <2>2. Divides(m)
        BY <2>1
    <2> QED BY <1>2, <2>2
<1>8. CASE r = d - 1
    <2>1. q + 1 \in Nat /\ 0 \in 0 .. d - 1 /\ m = d * (q + 1) + 0
        <3>1. d * q \in Nat /\ d * (q + 1) = d * q + d
            OBVIOUS
        <3> QED BY <1>4, <1>6, <1>8, <3>1
    <2>2. Divides(m)
        BY <2>1
    <2> QED BY <1>2, <2>2
<1> QED BY <1>6, <1>7, <1>8

LEMMA Quotient ==
    ASSUME NEW d \in Nat \ {0}, NEW q \in Nat, NEW r \in 0 .. d - 1
    PROVE  (d * q + r) \div d = q /\ (d * q + r) % d = r
OBVIOUS

LeftOf(n, size) == ((n - 1) \div size) + 1
RightOf(n, size) == ((n - 1) % size) + 1

LEMMA TimesLess ==
    ASSUME NEW d \in Nat, NEW q \in Nat, d * q < d * d
    PROVE  q < d
OBVIOUS

LEMMA TimesLast ==
    ASSUME NEW d \in Nat, NEW i \in 1 .. d
    PROVE  d * (i - 1) \in Nat /\ d * (i - 1) + d <= d * d
<1>1. d * (i - 1) + d = d * i
    OBVIOUS
<1>2. d * i <= d * d
    OBVIOUS
<1> QED BY <1>1, <1>2

LEMMA PairsAreIndexes ==
    ASSUME NEW size \in Nat, NEW n \in 1 .. size * size
    PROVE  LeftOf(n, size) \in 1 .. size /\ RightOf(n, size) \in 1 .. size
<1>1. size # 0 /\ size * size \in Nat
    OBVIOUS
<1>2. n - 1 \in Nat /\ n - 1 < size * size
    BY <1>1
<1>3. PICK q \in Nat, r \in 0 .. size - 1 : n - 1 = size * q + r
    BY <1>1, <1>2, Quotients
<1>4. (n - 1) \div size = q /\ (n - 1) % size = r
    BY <1>1, <1>3, Quotient
<1>5. q < size
    <2>1. size * q \in Nat
        OBVIOUS
    <2>2. size * q < size * size
        BY <1>1, <1>2, <1>3, <2>1
    <2> QED BY <2>2, TimesLess
<1> QED BY <1>3, <1>4, <1>5 DEF LeftOf, RightOf

LEMMA EveryPairIsTaken ==
    ASSUME NEW size \in Nat, NEW i \in 1 .. size, NEW j \in 1 .. size
    PROVE  \E n \in 1 .. size * size : LeftOf(n, size) = i /\ RightOf(n, size) = j
<1> DEFINE n == size * (i - 1) + (j - 1) + 1
<1>1. size \in Nat \ {0} /\ i - 1 \in Nat /\ j - 1 \in 0 .. size - 1
    OBVIOUS
<1>2. size * (i - 1) \in Nat /\ size * (i - 1) + size <= size * size /\ size * size \in Nat
    BY TimesLast
<1>3. n \in 1 .. size * size /\ n - 1 = size * (i - 1) + (j - 1)
    BY <1>1, <1>2
<1>4. (n - 1) \div size = i - 1 /\ (n - 1) % size = j - 1
    BY <1>1, <1>3, Quotient
<1>5. LeftOf(n, size) = i /\ RightOf(n, size) = j
    BY <1>4 DEF LeftOf, RightOf
<1> HIDE DEF n
<1> QED BY <1>3, <1>5

-----------------------------------------------------------------------------
\* A loop of so many rounds

LoopBy(h, N, F, begin) ==
    h = [k \in 0 .. N |-> IF k = 0 THEN begin ELSE F[<<k - 1, h[k - 1]>>]]

LEMMA LoopExists ==
    ASSUME NEW S, NEW F, NEW begin, F \in [Nat \X S -> S], begin \in S, NEW N \in Nat
    PROVE  \E h \in [0 .. N -> S] : LoopBy(h, N, F, begin)
<1>1. PICK g \in [Nat -> S] : RunsOn(g, F, begin)
    BY RunsExist
<1> DEFINE h == [k \in 0 .. N |-> g[k]]
<1>2. h \in [0 .. N -> S]
    BY <1>1
<1>3. ASSUME NEW k \in 0 .. N
      PROVE  h[k] = IF k = 0 THEN begin ELSE F[<<k - 1, h[k - 1]>>]
    <2>1. CASE k = 0
        BY <1>1, <2>1 DEF RunsOn
    <2>2. CASE k # 0
        <3>1. k - 1 \in Nat /\ k - 1 \in 0 .. N /\ (k - 1) + 1 = k
            BY <2>2
        <3>2. g[(k - 1) + 1] = F[<<k - 1, g[k - 1]>>]
            BY <1>1, <3>1 DEF RunsOn
        <3> QED BY <2>2, <3>1, <3>2
    <2> QED BY <2>1, <2>2
<1>4. LoopBy(h, N, F, begin)
    <2>1. h = [k \in 0 .. N |-> h[k]]
        OBVIOUS
    <2> HIDE DEF h
    <2> QED BY <1>3, <2>1 DEF LoopBy
<1> HIDE DEF h
<1> QED BY <1>2, <1>4

\* What the forest is after so many pairs.
PairJoined(found, n, forest) ==
    LET left == ((n - 1) \div Len(found)) + 1
        right == ((n - 1) % Len(found)) + 1
    IN  IF left < right /\ Recurs(found[left], found[right])
        THEN Union(forest, left, right) ELSE forest

GrowBy(g, found) ==
    g = [n \in 0 .. Len(found) * Len(found) |->
           IF n = 0 THEN [i \in 1 .. Len(found) |-> i]
           ELSE PairJoined(found, n, g[n - 1])]
Grow(found) == CHOOSE g : GrowBy(g, found)

LEMMA ForestIsGrown ==
    ASSUME NEW found
    PROVE  Forest(found) = Grow(found)[Len(found) * Len(found)]
BY DEF Forest, Grow, GrowBy, PairJoined

Joins(found, n) ==
    LET left == LeftOf(n, Len(found))
        right == RightOf(n, Len(found))
    IN  left < right /\ Recurs(found[left], found[right])

LEMMA PairMerges ==
    ASSUME NEW X, NEW found \in Seq(X), NEW n \in 1 .. Len(found) * Len(found),
           NEW p, NEW root, Forested(p, Len(found), root)
    PROVE  /\ Joins(found, n) =>
                Forested(PairJoined(found, n, p), Len(found),
                         MergedRoots(root, Len(found), root[LeftOf(n, Len(found))],
                                     root[RightOf(n, Len(found))]))
           /\ ~ Joins(found, n) => PairJoined(found, n, p) = p
<1>1. Len(found) \in Nat
    OBVIOUS
<1>2. LeftOf(n, Len(found)) \in 1 .. Len(found) /\ RightOf(n, Len(found)) \in 1 .. Len(found)
    BY <1>1, PairsAreIndexes
<1>3. Joins(found, n) =>
         PairJoined(found, n, p) = Union(p, LeftOf(n, Len(found)), RightOf(n, Len(found)))
    BY DEF Joins, PairJoined, LeftOf, RightOf
<1>4. ~ Joins(found, n) => PairJoined(found, n, p) = p
    BY DEF Joins, PairJoined, LeftOf, RightOf
<1> QED BY <1>1, <1>2, <1>3, <1>4, UnionMerges

LEMMA GrowSteps ==
    ASSUME NEW X, NEW found \in Seq(X)
    PROVE  /\ Grow(found)[0] = [i \in 1 .. Len(found) |-> i]
           /\ \A n \in 1 .. Len(found) * Len(found) :
                 Grow(found)[n] = PairJoined(found, n, Grow(found)[n - 1])
<1> DEFINE size == Len(found)
           N == size * size
           S == {p \in [1 .. size -> 1 .. size] : \E root : Forested(p, size, root)}
           F == [x \in Nat \X S |-> IF x[1] < N THEN PairJoined(found, x[1] + 1, x[2]) ELSE x[2]]
           begin == [i \in 1 .. size |-> i]
<1>1. size \in Nat /\ N \in Nat
    OBVIOUS
<1>2. ASSUME NEW p, NEW root, Forested(p, size, root) PROVE p \in S
    BY <1>2 DEF Forested, Rooted
<1>3. begin \in S
    <2>1. Rooted(begin, size, begin, [i \in 1 .. size |-> 0])
        BY <1>1 DEF Rooted
    <2>2. Forested(begin, size, begin)
        BY <2>1 DEF Forested
    <2> HIDE DEF S
    <2> QED BY <1>2, <2>2
<1>4. ASSUME NEW p \in S, NEW n \in 1 .. N PROVE PairJoined(found, n, p) \in S
    <2>1. PICK root : Forested(p, size, root)
        OBVIOUS
    <2> HIDE DEF S
    <2> QED BY <1>2, <2>1, PairMerges
<1>5. F \in [Nat \X S -> S]
    <2>1. ASSUME NEW k \in Nat, NEW p \in S
          PROVE  (IF k < N THEN PairJoined(found, k + 1, p) ELSE p) \in S
        <3>1. k < N => k + 1 \in 1 .. N
            BY <1>1
        <3> HIDE DEF S, N
        <3> QED BY <1>4, <3>1
    <2> HIDE DEF S, N
    <2> QED BY <2>1
<1>6. PICK h \in [0 .. N -> S] : LoopBy(h, N, F, begin)
    <2> HIDE DEF S, F, begin, N
    <2> QED BY <1>1, <1>3, <1>5, LoopExists
<1> HIDE DEF S, begin
<1>7. ASSUME NEW n \in 0 .. N
      PROVE  h[n] = IF n = 0 THEN begin ELSE PairJoined(found, n, h[n - 1])
    <2> HIDE DEF N
    <2>1. h[n] = IF n = 0 THEN begin ELSE F[<<n - 1, h[n - 1]>>]
        <3> HIDE DEF F
        <3> QED BY <1>6 DEF LoopBy
    <2>2. CASE n # 0
        <3>1. n - 1 \in Nat /\ n - 1 \in 0 .. N /\ n - 1 < N /\ (n - 1) + 1 = n
            BY <1>1, <2>2
        <3>2. h[n - 1] \in S
            BY <3>1
        <3>3. F[<<n - 1, h[n - 1]>>] = PairJoined(found, (n - 1) + 1, h[n - 1])
            BY <3>1, <3>2
        <3> QED BY <2>1, <2>2, <3>1, <3>3
    <2> QED BY <2>1, <2>2
<1>8. GrowBy(h, found)
    <2>1. h = [n \in 0 .. N |-> h[n]]
        <3> HIDE DEF N
        <3> QED BY <1>6
    <2>2. h = [n \in 0 .. N |-> IF n = 0 THEN begin ELSE PairJoined(found, n, h[n - 1])]
        <3> HIDE DEF N
        <3> QED BY <1>7, <2>1
    <2> QED BY <2>2 DEF GrowBy, begin
<1>9. GrowBy(Grow(found), found)
    BY Zenon, <1>8 DEF Grow
<1> DEFINE W == Grow(found)
<1>10. \A n \in 0 .. N : W[n] = IF n = 0 THEN begin ELSE PairJoined(found, n, W[n - 1])
    <2> HIDE DEF W
    <2>1. GrowBy(W, found)
        BY <1>9 DEF W
    <2> QED BY <2>1 DEF GrowBy, begin
<1> HIDE DEF W, N
<1>11. W[0] = begin
    BY <1>1, <1>10
<1>12. \A n \in 1 .. N : W[n] = PairJoined(found, n, W[n - 1])
    <2>1. \A n \in 1 .. N : n \in 0 .. N /\ n # 0
        BY <1>1
    <2> QED BY <1>10, <2>1
<1> QED BY <1>11, <1>12 DEF W, N, begin

-----------------------------------------------------------------------------
(***************************************************************************)
(* Groups.  Two learnings have one root exactly if they are chained.       *)
(***************************************************************************)

LEMMA RecursIsMutual ==
    ASSUME NEW a, NEW b
    PROVE  Recurs(a, b) <=> Recurs(b, a)
<1>1. /\ Facts[a.id].words \cap Facts[b.id].words = Facts[b.id].words \cap Facts[a.id].words
      /\ Facts[a.id].words \cup Facts[b.id].words = Facts[b.id].words \cup Facts[a.id].words
    OBVIOUS
<1> QED BY <1>1 DEF Recurs

\* A set of places that holds whatever resembles one it holds.
Closed(found, T) ==
    \A x \in T : \A y \in 1 .. Len(found) : Recurs(found[x], found[y]) => y \in T

Linked(found, i, j) ==
    \A T \in SUBSET (1 .. Len(found)) : i \in T /\ Closed(found, T) => j \in T

LEMMA LinksAreEquivalences ==
    ASSUME NEW found, NEW i \in 1 .. Len(found), NEW j \in 1 .. Len(found)
    PROVE  /\ Linked(found, i, i)
           /\ Linked(found, i, j) => Linked(found, j, i)
           /\ Recurs(found[i], found[j]) => Linked(found, i, j)
           /\ \A k : Linked(found, i, j) /\ Linked(found, j, k) => Linked(found, i, k)
<1>1. Linked(found, i, i)
    BY DEF Linked
<1>2. ASSUME Linked(found, i, j) PROVE Linked(found, j, i)
    <2> SUFFICES ASSUME NEW T \in SUBSET (1 .. Len(found)), j \in T, Closed(found, T), i \notin T
                 PROVE  FALSE
        BY DEF Linked
    <2> DEFINE U == (1 .. Len(found)) \ T
    <2>1. Closed(found, U)
        <3> SUFFICES ASSUME NEW x \in U, NEW y \in 1 .. Len(found),
                            Recurs(found[x], found[y]), y \in T
                     PROVE  FALSE
            BY DEF Closed
        <3>1. Recurs(found[y], found[x])
            BY RecursIsMutual
        <3> QED BY <3>1 DEF Closed
    <2>2. U \in SUBSET (1 .. Len(found)) /\ i \in U
        OBVIOUS
    <2> QED BY <1>2, <2>1, <2>2 DEF Linked
<1>3. Recurs(found[i], found[j]) => Linked(found, i, j)
    BY DEF Linked, Closed
<1>4. \A k : Linked(found, i, j) /\ Linked(found, j, k) => Linked(found, i, k)
    BY DEF Linked
<1> QED BY <1>1, <1>2, <1>3, <1>4

Grouped(found, n, root) ==
    /\ Forested(Grow(found)[n], Len(found), root)
    /\ \A m \in 1 .. n : Joins(found, m) =>
          root[LeftOf(m, Len(found))] = root[RightOf(m, Len(found))]
    /\ \A i, j \in 1 .. Len(found) : root[i] = root[j] => Linked(found, i, j)

LEMMA GroupsBegin ==
    ASSUME NEW X, NEW found \in Seq(X)
    PROVE  \E root : Grouped(found, 0, root)
<1> DEFINE size == Len(found)
           begin == [i \in 1 .. size |-> i]
<1>1. size \in Nat /\ 1 .. 0 = {}
    OBVIOUS
<1>2. Forested(begin, size, begin)
    <2>1. Rooted(begin, size, begin, [i \in 1 .. size |-> 0])
        BY <1>1 DEF Rooted
    <2> QED BY <2>1 DEF Forested
<1>3. \A i, j \in 1 .. size : begin[i] = begin[j] => i = j
    OBVIOUS
<1>4. \A i, j \in 1 .. size : begin[i] = begin[j] => Linked(found, i, j)
    BY <1>3, LinksAreEquivalences
<1>5. Grow(found)[0] = begin
    BY GrowSteps
<1>6. Grouped(found, 0, begin)
    <2> HIDE DEF begin
    <2> QED BY <1>1, <1>2, <1>4, <1>5 DEF Grouped
<1> QED BY <1>6

LEMMA GroupsGrow ==
    ASSUME NEW X, NEW found \in Seq(X), NEW n \in 1 .. Len(found) * Len(found),
           NEW root, Grouped(found, n - 1, root)
    PROVE  \E new : Grouped(found, n, new)
<1> DEFINE size == Len(found)
           p == Grow(found)[n - 1]
           q == Grow(found)[n]
           left == LeftOf(n, size)
           right == RightOf(n, size)
<1>1. size \in Nat /\ n \in Nat /\ Forested(p, size, root) /\ q = PairJoined(found, n, p)
    <2>1. size \in Nat /\ size * size \in Nat
        OBVIOUS
    <2>2. Forested(p, size, root)
        BY DEF Grouped
    <2>3. q = PairJoined(found, n, p)
        BY GrowSteps
    <2>4. n \in Nat
        <3> HIDE DEF size
        <3> QED BY <2>1
    <2> QED BY <2>1, <2>2, <2>3, <2>4
<1>2. \A m \in 1 .. n : m = n \/ m \in 1 .. n - 1
    BY <1>1
<1>3. CASE ~ Joins(found, n)
    <2>1. q = p
        BY <1>1, <1>3, PairMerges
    <2>2. Grouped(found, n, root)
        BY <1>1, <1>2, <1>3, <2>1 DEF Grouped
    <2> QED BY <2>2
<1>4. CASE Joins(found, n)
    <2> DEFINE a == root[left]
               b == root[right]
               new == MergedRoots(root, size, a, b)
    <2>1. Forested(q, size, new)
        BY <1>1, <1>4, PairMerges
    <2>2. left \in 1 .. size /\ right \in 1 .. size
        BY <1>1, PairsAreIndexes
    <2>3. \A i \in 1 .. size : /\ root[i] = b => new[i] = a
                               /\ root[i] # b => new[i] = root[i]
        BY DEF MergedRoots
    <2>4. new[left] = a /\ new[right] = a
        BY <2>2, <2>3
    <2>5. Recurs(found[left], found[right])
        BY <1>4 DEF Joins
    <2>6. Linked(found, left, right) /\ Linked(found, right, left)
        BY <2>2, <2>5, LinksAreEquivalences
    <2>7. ASSUME NEW i \in 1 .. size, NEW j \in 1 .. size, root[i] = root[j]
          PROVE  Linked(found, i, j)
        BY <2>7 DEF Grouped
    <2> HIDE DEF new, left, right
    <2>8. ASSUME NEW i \in 1 .. size, NEW j \in 1 .. size, new[i] = new[j]
          PROVE  Linked(found, i, j)
        <3>1. CASE root[i] = root[j]
            BY <2>7, <3>1
        <3>2. CASE root[i] = b /\ root[j] # b
            <4>1. root[j] = a
                BY <2>3, <2>8, <3>2
            <4>2. Linked(found, i, right) /\ Linked(found, left, j)
                BY <2>2, <2>7, <3>2, <4>1
            <4>3. Linked(found, i, left)
                BY <2>2, <2>6, <4>2, LinksAreEquivalences
            <4> QED BY <2>2, <4>2, <4>3, LinksAreEquivalences
        <3>3. CASE root[i] # b /\ root[j] = b
            <4>1. root[i] = a
                BY <2>3, <2>8, <3>3
            <4>2. Linked(found, i, left) /\ Linked(found, right, j)
                BY <2>2, <2>7, <3>3, <4>1
            <4>3. Linked(found, i, right)
                BY <2>2, <2>6, <4>2, LinksAreEquivalences
            <4> QED BY <2>2, <4>2, <4>3, LinksAreEquivalences
        <3>4. CASE root[i] # b /\ root[j] # b
            BY <2>3, <2>7, <2>8, <3>4
        <3>5. CASE root[i] = b /\ root[j] = b
            BY <3>1, <3>5
        <3> QED BY <3>2, <3>3, <3>4, <3>5
    <2>9. ASSUME NEW m \in 1 .. n, Joins(found, m)
          PROVE  new[LeftOf(m, size)] = new[RightOf(m, size)]
        <3>1. CASE m = n
            BY <2>4, <3>1 DEF left, right
        <3>2. CASE m # n
            <4>1. root[LeftOf(m, size)] = root[RightOf(m, size)]
                BY <1>2, <2>9, <3>2 DEF Grouped
            <4>2. m \in 1 .. size * size
                <5>1. size * size \in Nat /\ n <= size * size
                    BY <1>1
                <5> HIDE DEF size
                <5> QED BY <1>1, <5>1
            <4>3. LeftOf(m, size) \in 1 .. size /\ RightOf(m, size) \in 1 .. size
                BY <1>1, <4>2, PairsAreIndexes
            <4> QED BY <2>3, <4>1, <4>3
        <3> QED BY <3>1, <3>2
    <2>10. Grouped(found, n, new)
        BY <2>1, <2>8, <2>9 DEF Grouped
    <2> QED BY <2>10
<1> QED BY <1>3, <1>4

\* In the end a group is all that is linked.
Whole(found, root) ==
    /\ Forested(Forest(found), Len(found), root)
    /\ \A i, j \in 1 .. Len(found) :
          /\ Recurs(found[i], found[j]) => root[i] = root[j]
          /\ root[i] = root[j] => Linked(found, i, j)

LEMMA GroupsAreWhole ==
    ASSUME NEW X, NEW found \in Seq(X)
    PROVE  \E root : Whole(found, root)
<1> DEFINE size == Len(found)
           N == size * size
           T == {n \in 0 .. N : ~ \E root : Grouped(found, n, root)}
<1>1. size \in Nat /\ N \in Nat
    OBVIOUS
<1>2. T = {}
    <2> HIDE DEF N
    <2>1. SUFFICES ASSUME T # {} PROVE FALSE
        OBVIOUS
    <2>2. PICK m \in T : \A x \in T : m <= x
        <3>1. T \subseteq Nat
            BY <1>1
        <3> HIDE DEF T
        <3> QED BY <2>1, <3>1, LeastNumber
    <2>3. m # 0
        BY <2>2, GroupsBegin
    <2>4. m \in 1 .. N /\ m - 1 \in 0 .. N /\ ~ (m <= m - 1)
        BY <1>1, <2>2, <2>3
    <2>5. \E root : Grouped(found, m - 1, root)
        BY <2>2, <2>4
    <2> QED BY <2>2, <2>4, <2>5, GroupsGrow DEF N
<1>3. PICK root : Grouped(found, N, root)
    <2>1. N \in 0 .. N
        BY <1>1
    <2> HIDE DEF N
    <2> QED BY <1>2, <2>1
<1>4. Forested(Forest(found), size, root)
    BY <1>3, ForestIsGrown DEF Grouped
<1>5. ASSUME NEW i \in 1 .. size, NEW j \in 1 .. size, i < j, Recurs(found[i], found[j])
      PROVE  root[i] = root[j]
    <2>1. PICK n \in 1 .. N : LeftOf(n, size) = i /\ RightOf(n, size) = j
        BY <1>1, EveryPairIsTaken
    <2>2. Joins(found, n)
        BY <1>5, <2>1 DEF Joins
    <2> QED BY <1>3, <2>1, <2>2 DEF Grouped
<1>6. ASSUME NEW i \in 1 .. size, NEW j \in 1 .. size, Recurs(found[i], found[j])
      PROVE  root[i] = root[j]
    <2>1. i < j \/ j < i \/ i = j
        OBVIOUS
    <2>2. Recurs(found[j], found[i])
        BY <1>6, RecursIsMutual
    <2> QED BY <1>5, <1>6, <2>1, <2>2
<1>7. Whole(found, root)
    BY <1>3, <1>4, <1>6 DEF Whole, Grouped
<1> QED BY <1>7

-----------------------------------------------------------------------------
(***************************************************************************)
(* Chains.  After as many rounds as there are learnings nothing is added.  *)
(***************************************************************************)

Neighbours(F, set) == set \cup { l \in F : \E o \in set : Recurs(l, o) }

ChainBy(g, F) ==
    g = [n \in Nat |-> [l \in F |-> IF n = 0 THEN {l} ELSE Neighbours(F, g[n - 1][l])]]
Chain(F) == CHOOSE g : ChainBy(g, F)
Reach(F) == Chain(F)[Cardinality(F)]

LEMMA RecurrencesAreReached ==
    LET found == { LearningRecords[i] : i \in DOMAIN LearningRecords }
    IN  Patterns = Recurrences <=>
           Patterns = { Reach(found)[l] : l \in { o \in found : \E p \in found : Recurs(o, p) } }
BY DEF Recurrences, Reach, Chain, ChainBy, Neighbours

LEMMA ChainSteps ==
    ASSUME NEW F
    PROVE  /\ \A l \in F : Chain(F)[0][l] = {l}
           /\ \A n \in Nat, l \in F : Chain(F)[n + 1][l] = Neighbours(F, Chain(F)[n][l])
<1> DEFINE S == [F -> SUBSET F]
           G == [x \in Nat \X S |-> [l \in F |-> Neighbours(F, x[2][l])]]
           begin == [l \in F |-> {l}]
<1>1. begin \in S
    OBVIOUS
<1>2. G \in [Nat \X S -> S]
    <2>1. ASSUME NEW s \in S PROVE [l \in F |-> Neighbours(F, s[l])] \in S
        BY DEF Neighbours
    <2> HIDE DEF S
    <2> QED BY <2>1
<1>3. PICK g \in [Nat -> S] : RunsOn(g, G, begin)
    <2> HIDE DEF S, G, begin
    <2> QED BY <1>1, <1>2, RunsExist
<1> HIDE DEF S
<1>4. ASSUME NEW n \in Nat
      PROVE  g[n] = [l \in F |-> IF n = 0 THEN {l} ELSE Neighbours(F, g[n - 1][l])]
    <2>1. CASE n = 0
        <3>1. g[0] = begin
            BY <1>3 DEF RunsOn
        <3> QED BY <2>1, <3>1
    <2>2. CASE n # 0
        <3>1. n - 1 \in Nat /\ (n - 1) + 1 = n
            BY <2>2
        <3>2. g[(n - 1) + 1] = G[<<n - 1, g[n - 1]>>]
            BY <1>3, <3>1 DEF RunsOn
        <3>3. g[n - 1] \in S
            BY <3>1
        <3>4. G[<<n - 1, g[n - 1]>>] = [l \in F |-> Neighbours(F, g[n - 1][l])]
            BY <3>1, <3>3
        <3> HIDE DEF G
        <3> QED BY <2>2, <3>1, <3>2, <3>4
    <2> QED BY <2>1, <2>2
<1>5. ChainBy(g, F)
    <2>1. g = [n \in Nat |-> g[n]]
        OBVIOUS
    <2> QED BY <1>4, <2>1 DEF ChainBy
<1>6. ChainBy(Chain(F), F)
    BY Zenon, <1>5 DEF Chain
<1> DEFINE W == Chain(F)
<1>7. \A n \in Nat : W[n] = [l \in F |-> IF n = 0 THEN {l} ELSE Neighbours(F, W[n - 1][l])]
    <2> HIDE DEF W
    <2>1. ChainBy(W, F)
        BY <1>6 DEF W
    <2> QED BY <2>1 DEF ChainBy
<1> HIDE DEF W
<1>8. \A l \in F : W[0][l] = {l}
    BY <1>7
<1>9. ASSUME NEW n \in Nat, NEW l \in F PROVE W[n + 1][l] = Neighbours(F, W[n][l])
    <2>1. n + 1 \in Nat /\ n + 1 # 0 /\ (n + 1) - 1 = n
        OBVIOUS
    <2>2. W[n + 1] = [x \in F |-> IF n + 1 = 0 THEN {x} ELSE Neighbours(F, W[(n + 1) - 1][x])]
        BY <1>7, <2>1
    <2> QED BY <2>1, <2>2
<1> QED BY <1>8, <1>9 DEF W

Complete(F, T) == \A x \in T : \A o \in F : Recurs(o, x) => o \in T

LEMMA ReachIsComplete ==
    ASSUME NEW F, IsFiniteSet(F), NEW l \in F
    PROVE  /\ l \in Reach(F)[l] /\ Reach(F)[l] \subseteq F
           /\ Complete(F, Reach(F)[l])
           /\ \A T : l \in T /\ Complete(F, T) => Reach(F)[l] \subseteq T
<1> DEFINE C(n) == Chain(F)[n][l]
           Good(n) == /\ l \in C(n) /\ C(n) \subseteq F
                      /\ \A T : l \in T /\ Complete(F, T) => C(n) \subseteq T
                      /\ Complete(F, C(n)) \/ Cardinality(C(n)) > n
           T0 == {n \in Nat : ~ Good(n)}
<1>1. C(0) = {l} /\ \A n \in Nat : C(n + 1) = Neighbours(F, C(n))
    BY ChainSteps
<1> HIDE DEF C
<1>2. Good(0)
    <2>1. Cardinality({l}) = 1
        BY FS_Singleton
    <2> QED BY <1>1, <2>1
<1>3. ASSUME NEW n \in Nat, Good(n) PROVE Good(n + 1)
    <2>1. C(n) \subseteq C(n + 1) /\ C(n + 1) \subseteq F
        BY <1>1, <1>3 DEF Neighbours
    <2>2. ASSUME NEW T, l \in T, Complete(F, T) PROVE C(n + 1) \subseteq T
        <3>1. C(n) \subseteq T
            BY <1>3, <2>2
        <3> QED BY <1>1, <2>2, <3>1 DEF Neighbours, Complete
    <2>3. CASE Complete(F, C(n))
        <3>1. C(n + 1) = C(n)
            BY <1>1, <2>3 DEF Neighbours, Complete
        <3> QED BY <1>3, <2>3, <3>1
    <2>4. CASE ~ Complete(F, C(n))
        <3>1. PICK o \in C(n + 1) : o \notin C(n)
            BY <1>1, <2>4 DEF Neighbours, Complete
        <3>2. IsFiniteSet(C(n + 1)) /\ IsFiniteSet(C(n))
            BY <1>3, <2>1, FS_Subset
        <3>3. /\ Cardinality(C(n)) \in Nat /\ Cardinality(C(n + 1)) \in Nat
              /\ Cardinality(C(n)) <= Cardinality(C(n + 1))
              /\ Cardinality(C(n)) # Cardinality(C(n + 1))
            BY <2>1, <3>1, <3>2, FS_Subset, FS_CardinalityType
        <3>4. Cardinality(C(n)) > n
            BY <1>3, <2>4
        <3>5. Cardinality(C(n + 1)) > n + 1
            BY <3>3, <3>4
        <3> QED BY <1>3, <2>1, <2>2, <3>5
    <2> QED BY <2>3, <2>4
<1>4. ASSUME NEW n \in Nat PROVE Good(n)
    <2> HIDE DEF Good
    <2>1. SUFFICES ASSUME T0 # {} PROVE FALSE
        OBVIOUS
    <2>2. PICK m \in T0 : \A x \in T0 : m <= x
        <3>1. T0 \subseteq Nat
            OBVIOUS
        <3> HIDE DEF T0
        <3> QED BY <2>1, <3>1, LeastNumber
    <2>3. m - 1 \in Nat /\ ~ (m <= m - 1) /\ (m - 1) + 1 = m
        BY <1>2, <2>2
    <2>4. Good(m - 1)
        BY <2>2, <2>3
    <2>5. Good((m - 1) + 1)
        BY <1>3, <2>3, <2>4
    <2> QED BY <2>2, <2>3, <2>5
<1> DEFINE N == Cardinality(F)
<1>5. N \in Nat
    BY FS_CardinalityType
<1>6. Good(N)
    <2> HIDE DEF Good, N
    <2> QED BY <1>4, <1>5
<1>7. ~ (Cardinality(C(N)) > N)
    <2>1. C(N) \subseteq F
        BY <1>6
    <2>2. Cardinality(C(N)) <= N /\ Cardinality(C(N)) \in Nat
        BY <2>1, FS_Subset, FS_CardinalityType
    <2> QED BY <1>5, <2>2
<1>8. C(N) = Reach(F)[l]
    BY DEF C, Reach
<1> QED BY <1>6, <1>7, <1>8

LEMMA PairHasTwo ==
    ASSUME NEW a, NEW b, a # b
    PROVE  Cardinality({a, b}) = 2
<1>1. IsFiniteSet({a}) /\ Cardinality({a}) = 1
    BY FS_Singleton
<1>2. Cardinality({a} \cup {b}) = 2
    BY <1>1, FS_AddElement
<1>3. {a, b} = {a} \cup {b}
    OBVIOUS
<1> QED BY <1>2, <1>3

LEMMA TwoMissions ==
    ASSUME NEW F, IsFiniteSet(F), NEW l \in F
    PROVE  Cardinality({ x.mission : x \in Reach(F)[l] }) >= 2
              <=> \E p \in F : Recurs(l, p)
<1> DEFINE R == Reach(F)[l]
           M == { x.mission : x \in R }
<1>1. /\ l \in R /\ R \subseteq F /\ Complete(F, R)
      /\ \A T : l \in T /\ Complete(F, T) => R \subseteq T
    BY ReachIsComplete
<1> HIDE DEF R
<1>2. ASSUME NEW p \in F, Recurs(l, p) PROVE Cardinality(M) >= 2
    <2>1. p \in R
        BY <1>1, <1>2, RecursIsMutual DEF Complete
    <2>2. l.mission \in M /\ p.mission \in M /\ l.mission # p.mission
        BY <1>1, <1>2, <2>1 DEF Recurs
    <2>3. IsFiniteSet(R)
        BY <1>1, FS_Subset
    <2> DEFINE f == [x \in R |-> x.mission]
    <2>4. IsFiniteSet(M)
        <3>1. f \in Surjection(R, M)
            BY DEF Surjection
        <3> HIDE DEF f, M
        <3> QED BY <2>3, <3>1, FS_Surjection
    <2> HIDE DEF M
    <2>5. Cardinality({l.mission, p.mission}) = 2
        BY <2>2, PairHasTwo
    <2>6. {l.mission, p.mission} \subseteq M
        BY <2>2
    <2>7. 2 <= Cardinality(M) /\ Cardinality(M) \in Nat
        BY <2>4, <2>5, <2>6, FS_Subset, FS_CardinalityType
    <2> QED BY <2>7
<1>3. ASSUME \A p \in F : ~ Recurs(l, p) PROVE ~ (Cardinality(M) >= 2)
    <2>1. Complete(F, {l})
        BY <1>3, RecursIsMutual DEF Complete
    <2>2. R = {l}
        BY <1>1, <2>1
    <2>3. M = {l.mission}
        BY <2>2
    <2> HIDE DEF M
    <2>4. Cardinality(M) = 1
        BY <2>3, FS_Singleton
    <2> QED BY <2>4
<1> QED BY <1>2, <1>3 DEF R

-----------------------------------------------------------------------------
\* The learnings of an organisation are a sequence.

LEMMA StepsStay ==
    ASSUME NEW S, NEW W, NEW N \in Nat, W[0] \in S,
           \A k \in 1 .. N : W[k - 1] \in S => W[k] \in S
    PROVE  \A k \in 0 .. N : W[k] \in S
<1> DEFINE T == {k \in 0 .. N : W[k] \notin S}
<1>1. SUFFICES ASSUME T # {} PROVE FALSE
    OBVIOUS
<1>2. PICK m \in T : \A x \in T : m <= x
    <2>1. T \subseteq Nat
        OBVIOUS
    <2> HIDE DEF T
    <2> QED BY <1>1, <2>1, LeastNumber
<1>3. m # 0
    BY <1>2
<1>4. m \in 1 .. N /\ m - 1 \in 0 .. N /\ ~ (m <= m - 1)
    BY <1>2, <1>3
<1>5. W[m - 1] \in S
    BY <1>2, <1>4
<1> QED BY <1>2, <1>4, <1>5

Lesson == [mission : AllMissions, id : AllRecords]

GatherBy(g, m) ==
    g = [i \in 0 .. Len(RecordOrder) |->
           IF i = 0 THEN <<>>
           ELSE IF Learned(m, RecordOrder[i])
                THEN Append(g[i - 1], [mission |-> m, id |-> RecordOrder[i]])
                ELSE g[i - 1]]
Gather(m) == CHOOSE g : GatherBy(g, m)

CollectBy(g) ==
    g = [i \in 0 .. Len(MissionOrder) |->
           IF i = 0 THEN <<>>
           ELSE IF MissionOrder[i] \in archived THEN g[i - 1]
                ELSE g[i - 1] \o LearnedIn(MissionOrder[i])]
Collect == CHOOSE g : CollectBy(g)

LEMMA LearnedInIsSequence ==
    ASSUME NEW m \in AllMissions
    PROVE  LearnedIn(m) \in Seq(Lesson)
<1> DEFINE S == Seq(Lesson)
           N == Len(RecordOrder)
           one(i) == [mission |-> m, id |-> RecordOrder[i]]
           F == [x \in Nat \X S |->
                   IF x[1] < N /\ Learned(m, RecordOrder[x[1] + 1])
                   THEN Append(x[2], one(x[1] + 1)) ELSE x[2]]
<1>1. N \in Nat /\ \A i \in 1 .. N : one(i) \in Lesson
    BY ViewsAssumption DEF Lesson
<1>2. << >> \in S
    OBVIOUS
<1>3. \A s \in S, x \in Lesson : Append(s, x) \in S
    OBVIOUS
<1> HIDE DEF S
<1>4. F \in [Nat \X S -> S]
    <2>1. ASSUME NEW k \in Nat, NEW s \in S
          PROVE  (IF k < N /\ Learned(m, RecordOrder[k + 1])
                  THEN Append(s, one(k + 1)) ELSE s) \in S
        <3>1. k < N => k + 1 \in 1 .. N
            BY <1>1
        <3> HIDE DEF N, one
        <3> QED BY <1>1, <1>3, <3>1
    <2> HIDE DEF N, one
    <2> QED BY <2>1
<1>5. PICK h \in [0 .. N -> S] : LoopBy(h, N, F, << >>)
    <2> HIDE DEF F, N
    <2> QED BY <1>1, <1>2, <1>4, LoopExists
<1>6. ASSUME NEW i \in 0 .. N
      PROVE  h[i] = IF i = 0 THEN <<>>
                    ELSE IF Learned(m, RecordOrder[i])
                         THEN Append(h[i - 1], [mission |-> m, id |-> RecordOrder[i]])
                         ELSE h[i - 1]
    <2> HIDE DEF N
    <2>1. h[i] = IF i = 0 THEN << >> ELSE F[<<i - 1, h[i - 1]>>]
        <3> HIDE DEF F
        <3> QED BY <1>5 DEF LoopBy
    <2>2. CASE i # 0
        <3>1. i - 1 \in Nat /\ i - 1 \in 0 .. N /\ i - 1 < N /\ (i - 1) + 1 = i
            BY <1>1, <2>2
        <3>2. h[i - 1] \in S
            BY <3>1
        <3>3. F[<<i - 1, h[i - 1]>>] = IF Learned(m, RecordOrder[(i - 1) + 1])
                                       THEN Append(h[i - 1], one((i - 1) + 1)) ELSE h[i - 1]
            BY <3>1, <3>2
        <3> HIDE DEF F
        <3> QED BY <2>1, <2>2, <3>1, <3>3
    <2> QED BY <2>1, <2>2
<1>7. GatherBy(h, m)
    <2>1. h = [i \in 0 .. N |-> h[i]]
        BY <1>5
    <2> QED BY <1>6, <2>1 DEF GatherBy
<1>8. GatherBy(Gather(m), m)
    BY Zenon, <1>7 DEF Gather
<1> DEFINE W == Gather(m)
<1>9. \A i \in 0 .. N : W[i] = IF i = 0 THEN <<>>
                               ELSE IF Learned(m, RecordOrder[i])
                                    THEN Append(W[i - 1], one(i)) ELSE W[i - 1]
    <2> HIDE DEF W
    <2>1. GatherBy(W, m)
        BY <1>8 DEF W
    <2> QED BY <2>1 DEF GatherBy
<1>10. LearnedIn(m) = W[N]
    BY DEF LearnedIn, Gather, GatherBy
<1> HIDE DEF W, N, one
<1>11. W[0] \in S
    BY <1>1, <1>2, <1>9
<1>12. \A i \in 1 .. N : W[i - 1] \in S => W[i] \in S
    <2>1. \A i \in 1 .. N : i \in 0 .. N /\ i # 0
        BY <1>1
    <2> QED BY <1>1, <1>3, <1>9, <2>1
<1>13. \A i \in 0 .. N : W[i] \in S
    BY <1>1, <1>11, <1>12, StepsStay
<1> QED BY <1>1, <1>10, <1>13 DEF S

LEMMA LearningRecordsAreSequence == LearningRecords \in Seq(Lesson)
<1> DEFINE S == Seq(Lesson)
           N == Len(MissionOrder)
           F == [x \in Nat \X S |->
                   IF x[1] < N /\ MissionOrder[x[1] + 1] \notin archived
                   THEN x[2] \o LearnedIn(MissionOrder[x[1] + 1]) ELSE x[2]]
<1>1. N \in Nat /\ \A i \in 1 .. N : MissionOrder[i] \in AllMissions
    BY ViewsAssumption
<1>2. << >> \in S
    OBVIOUS
<1>3. \A s, t \in S : s \o t \in S
    BY ConcatProperties
<1>4. \A i \in 1 .. N : LearnedIn(MissionOrder[i]) \in S
    BY <1>1, LearnedInIsSequence
<1> HIDE DEF S
<1>5. F \in [Nat \X S -> S]
    <2>1. ASSUME NEW k \in Nat, NEW s \in S
          PROVE  (IF k < N /\ MissionOrder[k + 1] \notin archived
                  THEN s \o LearnedIn(MissionOrder[k + 1]) ELSE s) \in S
        <3>1. k < N => k + 1 \in 1 .. N
            BY <1>1
        <3> HIDE DEF N
        <3> QED BY <1>3, <1>4, <3>1
    <2> HIDE DEF N
    <2> QED BY <2>1
<1>6. PICK h \in [0 .. N -> S] : LoopBy(h, N, F, << >>)
    <2> HIDE DEF F, N
    <2> QED BY <1>1, <1>2, <1>5, LoopExists
<1>7. ASSUME NEW i \in 0 .. N
      PROVE  h[i] = IF i = 0 THEN <<>>
                    ELSE IF MissionOrder[i] \in archived THEN h[i - 1]
                         ELSE h[i - 1] \o LearnedIn(MissionOrder[i])
    <2> HIDE DEF N
    <2>1. h[i] = IF i = 0 THEN << >> ELSE F[<<i - 1, h[i - 1]>>]
        <3> HIDE DEF F
        <3> QED BY <1>6 DEF LoopBy
    <2>2. CASE i # 0
        <3>1. i - 1 \in Nat /\ i - 1 \in 0 .. N /\ i - 1 < N /\ (i - 1) + 1 = i
            BY <1>1, <2>2
        <3>2. h[i - 1] \in S
            BY <3>1
        <3>3. F[<<i - 1, h[i - 1]>>] =
                 IF MissionOrder[(i - 1) + 1] \notin archived
                 THEN h[i - 1] \o LearnedIn(MissionOrder[(i - 1) + 1]) ELSE h[i - 1]
            BY <3>1, <3>2
        <3> HIDE DEF F
        <3> QED BY <2>1, <2>2, <3>1, <3>3
    <2> QED BY <2>1, <2>2
<1>8. CollectBy(h)
    <2>1. h = [i \in 0 .. N |-> h[i]]
        BY <1>6
    <2> QED BY <1>7, <2>1 DEF CollectBy
<1>9. CollectBy(Collect)
    BY Zenon, <1>8 DEF Collect
<1> DEFINE W == Collect
<1>10. \A i \in 0 .. N : W[i] = IF i = 0 THEN <<>>
                                ELSE IF MissionOrder[i] \in archived THEN W[i - 1]
                                     ELSE W[i - 1] \o LearnedIn(MissionOrder[i])
    <2> HIDE DEF W
    <2>1. CollectBy(W)
        BY <1>9 DEF W
    <2> QED BY <2>1 DEF CollectBy
<1>11. LearningRecords = W[N]
    BY DEF LearningRecords, Collect, CollectBy
<1> HIDE DEF W, N
<1>12. W[0] \in S
    BY <1>1, <1>2, <1>10
<1>13. \A i \in 1 .. N : W[i - 1] \in S => W[i] \in S
    <2>1. \A i \in 1 .. N : i \in 0 .. N /\ i # 0
        BY <1>1
    <2> QED BY <1>3, <1>4, <1>10, <2>1
<1>14. \A i \in 0 .. N : W[i] \in S
    BY <1>1, <1>12, <1>13, StepsStay
<1> QED BY <1>1, <1>11, <1>14 DEF S

-----------------------------------------------------------------------------
\* A group is what can be reached from any of it.

Group(found, k) ==
    { found[i] : i \in { j \in DOMAIN found :
                           Find(Forest(found), j).root = Find(Forest(found), k).root } }

LEMMA PatternsAreGroups ==
    Patterns = { g \in { Group(LearningRecords, k) : k \in DOMAIN LearningRecords } :
                   Cardinality({ l.mission : l \in g }) >= 2 }
<1> DEFINE found == LearningRecords
           forest == Forest(found)
           root == [k \in DOMAIN found |-> Find(forest, k).root]
           class(k) == { found[i] : i \in { j \in DOMAIN found : root[j] = root[k] } }
<1>1. Patterns = { g \in { class(k) : k \in DOMAIN found } :
                     Cardinality({ l.mission : l \in g }) >= 2 }
    BY DEF Patterns
<1>2. ASSUME NEW k \in DOMAIN found PROVE class(k) = Group(found, k)
    <2>1. \A j \in DOMAIN found : root[j] = root[k] <=> Find(forest, j).root = Find(forest, k).root
        <3> HIDE DEF forest, found
        <3> QED OBVIOUS
    <2> HIDE DEF root
    <2> QED BY <2>1 DEF Group
<1> HIDE DEF class, root, forest, found
<1>3. { class(k) : k \in DOMAIN found } = { Group(found, k) : k \in DOMAIN found }
    BY <1>2
<1> QED BY <1>1, <1>3 DEF found

LEMMA GroupsAreReached ==
    ASSUME NEW X, NEW found \in Seq(X), NEW k \in DOMAIN found
    PROVE  Group(found, k) = Reach({ found[i] : i \in DOMAIN found })[found[k]]
<1> DEFINE F == { found[i] : i \in DOMAIN found }
           R == Reach(F)[found[k]]
           G == Group(found, k)
<1>1. Len(found) \in Nat /\ DOMAIN found = 1 .. Len(found)
    OBVIOUS
<1>2. IsFiniteSet(F)
    <2>1. 1 \in Int /\ Len(found) \in Int
        BY <1>1
    <2>2. IsFiniteSet(DOMAIN found)
        BY <1>1, <2>1, FS_Interval
    <2>3. found \in Surjection(DOMAIN found, F)
        BY DEF Surjection
    <2> HIDE DEF F
    <2> QED BY <2>2, <2>3, FS_Surjection
<1>3. PICK root : Whole(found, root)
    BY GroupsAreWhole
<1>4. \A j \in DOMAIN found : Find(Forest(found), j).root = root[j]
    BY <1>1, <1>3, FindFinds DEF Whole
<1>5. G = { found[i] : i \in { j \in DOMAIN found : root[j] = root[k] } }
    BY <1>4 DEF Group
<1>6. found[k] \in F /\ \A i \in DOMAIN found : found[i] \in F
    OBVIOUS
<1>7. \A x \in F : \E i \in DOMAIN found : x = found[i]
    OBVIOUS
<1> HIDE DEF F, G
<1>8. /\ found[k] \in R /\ R \subseteq F /\ Complete(F, R)
      /\ \A T : found[k] \in T /\ Complete(F, T) => R \subseteq T
    BY <1>2, <1>6, ReachIsComplete
<1> HIDE DEF R
<1>9. R \subseteq G
    <2>1. found[k] \in G
        BY <1>5
    <2>2. Complete(F, G)
        <3> SUFFICES ASSUME NEW x \in G, NEW o \in F, Recurs(o, x) PROVE o \in G
            BY DEF Complete
        <3>1. PICK i \in DOMAIN found : x = found[i] /\ root[i] = root[k]
            BY <1>5
        <3>2. PICK m \in DOMAIN found : o = found[m]
            BY <1>7
        <3>3. root[m] = root[i]
            BY <1>1, <1>3, <3>1, <3>2 DEF Whole
        <3> QED BY <1>5, <3>1, <3>2, <3>3
    <2> QED BY <1>8, <2>1, <2>2
<1>10. G \subseteq R
    <2> SUFFICES ASSUME NEW x \in G PROVE x \in R
        OBVIOUS
    <2>1. PICK i \in DOMAIN found : x = found[i] /\ root[i] = root[k]
        BY <1>5
    <2>2. Linked(found, k, i)
        BY <1>1, <1>3, <2>1 DEF Whole
    <2> DEFINE T == { j \in 1 .. Len(found) : found[j] \in R }
    <2>3. Closed(found, T)
        <3> SUFFICES ASSUME NEW y \in T, NEW z \in 1 .. Len(found),
                            Recurs(found[y], found[z])
                     PROVE  z \in T
            BY DEF Closed
        <3>1. Recurs(found[z], found[y]) /\ found[y] \in R /\ found[z] \in F
            BY <1>1, <1>6, RecursIsMutual
        <3> QED BY <1>8, <3>1 DEF Complete
    <2>4. k \in T /\ T \in SUBSET (1 .. Len(found))
        BY <1>1, <1>8
    <2>5. i \in T
        <3> HIDE DEF T
        <3> QED BY <2>2, <2>3, <2>4 DEF Linked
    <2> QED BY <2>1, <2>5
<1>11. G = R
    BY <1>9, <1>10
<1> QED BY <1>11 DEF G, R, F

LEMMA PatternsRecur == Patterns = Recurrences
<1> DEFINE listed == LearningRecords
           found == { listed[i] : i \in DOMAIN listed }
           joined == { o \in found : \E p \in found : Recurs(o, p) }
<1>1. listed \in Seq(Lesson)
    BY LearningRecordsAreSequence
<1>2. IsFiniteSet(found)
    <2> HIDE DEF listed
    <2>1. 1 \in Int /\ Len(listed) \in Int /\ DOMAIN listed = 1 .. Len(listed)
        BY <1>1
    <2>2. IsFiniteSet(DOMAIN listed)
        BY <2>1, FS_Interval
    <2>3. listed \in Surjection(DOMAIN listed, found)
        BY <1>1 DEF Surjection
    <2> HIDE DEF found
    <2> QED BY <2>2, <2>3, FS_Surjection
<1>3. \A k \in DOMAIN listed : Group(listed, k) = Reach(found)[listed[k]]
    <2> HIDE DEF listed
    <2> QED BY <1>1, GroupsAreReached
<1>4. { Group(listed, k) : k \in DOMAIN listed } = { Reach(found)[l] : l \in found }
    <2> HIDE DEF listed
    <2>1. { Reach(found)[l] : l \in found } = { Reach(found)[listed[k]] : k \in DOMAIN listed }
        <3> DEFINE f(l) == Reach(found)[l]
        <3> HIDE DEF f
        <3>1. { f(l) : l \in found } = { f(listed[k]) : k \in DOMAIN listed }
            OBVIOUS
        <3> QED BY <3>1 DEF f
    <2> HIDE DEF found
    <2> QED BY <1>3, <2>1
<1>5. Patterns = { g \in { Reach(found)[l] : l \in found } :
                     Cardinality({ l.mission : l \in g }) >= 2 }
    BY <1>4, PatternsAreGroups
<1> HIDE DEF found
<1>6. \A l \in found : Cardinality({ x.mission : x \in Reach(found)[l] }) >= 2
                          <=> \E p \in found : Recurs(l, p)
    BY <1>2, TwoMissions
<1>7. \A l \in found : Cardinality({ x.mission : x \in Reach(found)[l] }) >= 2 <=> l \in joined
    BY <1>6
<1> HIDE DEF joined
<1>8. joined \subseteq found
    BY DEF joined
<1>9. Patterns = { Reach(found)[l] : l \in joined }
    BY <1>5, <1>7, <1>8
<1> QED BY <1>9, RecurrencesAreReached DEF joined, found, listed

-----------------------------------------------------------------------------
(***************************************************************************)
(* Debt.                                                                   *)
(***************************************************************************)

\* Documents hold records, and relations of them.
ViewsInv ==
    /\ records \in [AllMissions -> SUBSET AllRecords]
    /\ relations \in [AllMissions -> SUBSET [type : RelationTypes, source : AllRecords,
                                             target : AllRecords]]
    /\ pending \subseteq AllRecords

LEMMA ViewsInvariant == ViewsSpec => []ViewsInv
<1>1. ViewsInit => ViewsInv
    BY DEF ViewsInit, ViewsInv
<1>2. ViewsInv /\ [ViewsNext]_learningViewVars => ViewsInv'
    <2> SUFFICES ASSUME ViewsInv, [ViewsNext]_learningViewVars PROVE ViewsInv'
        OBVIOUS
    <2>1. ASSUME NEW m \in AllMissions, NEW r \in AllRecords, NEW open \in BOOLEAN,
                 AddRecord(m, r, open)
          PROVE  ViewsInv'
        <3>1. records' = [records EXCEPT ![m] = records[m] \cup {r}] /\ relations' = relations
              /\ pending' \subseteq pending \cup {r}
            BY <2>1 DEF AddRecord
        <3>2. records' \in [AllMissions -> SUBSET AllRecords]
            BY <3>1 DEF ViewsInv
        <3> QED BY <3>1, <3>2 DEF ViewsInv
    <2>2. ASSUME NEW m \in AllMissions, NEW type \in RelationTypes,
                 NEW s \in records[m], NEW t \in records[m], AddRelation(m, type, s, t)
          PROVE  ViewsInv'
        <3> DEFINE e == [type |-> type, source |-> s, target |-> t]
                   E == [type : RelationTypes, source : AllRecords, target : AllRecords]
        <3>1. relations' = [relations EXCEPT ![m] = relations[m] \cup {e}]
              /\ records' = records /\ pending' = pending
            BY <2>2 DEF AddRelation
        <3>2. s \in AllRecords /\ t \in AllRecords
            BY DEF ViewsInv
        <3>3. e \in E
            BY <3>2
        <3>4. relations \in [AllMissions -> SUBSET E]
            BY DEF ViewsInv
        <3> HIDE DEF e, E
        <3>5. relations' \in [AllMissions -> SUBSET E]
            BY <3>1, <3>3, <3>4
        <3> QED BY <3>1, <3>5 DEF ViewsInv, E
    <2>3. ASSUME NEW m \in AllMissions, Archive(m) PROVE ViewsInv'
        BY <2>3 DEF Archive, ViewsInv
    <2>4. ASSUME NEW r \in AllRecords, Settle(r) PROVE ViewsInv'
        BY <2>4 DEF Settle, ViewsInv
    <2>5. CASE UNCHANGED learningViewVars
        BY <2>5 DEF learningViewVars, ViewsInv
    <2> QED BY <2>1, <2>2, <2>3, <2>4, <2>5 DEF ViewsNext
<1> QED BY <1>1, <1>2, PTL DEF ViewsSpec

\* Records being the same, what is pending only shrinks and relations only grow.
Settling ==
    /\ records' = records /\ archived' = archived /\ pending' \subseteq pending
    /\ \A m \in AllMissions : relations[m] \subseteq relations[m]'

LEMMA SettlingOnlySettles ==
    ASSUME ViewsInv, ViewsNext, records' = records, pending' # pending \/ relations' # relations
    PROVE  Settling
<1>1. ASSUME NEW m \in AllMissions, NEW r \in AllRecords, NEW open \in BOOLEAN,
             AddRecord(m, r, open)
      PROVE  FALSE
    <2>1. records'[m] = records[m] \cup {r} /\ r \notin records[m]
        BY <1>1 DEF AddRecord, ViewsInv
    <2> QED BY <2>1
<1>2. ASSUME NEW m \in AllMissions, NEW type \in RelationTypes,
             NEW s \in records[m], NEW t \in records[m], AddRelation(m, type, s, t)
      PROVE  Settling
    <2>1. \A n \in AllMissions : relations[n] \subseteq relations'[n]
        BY <1>2 DEF AddRelation, ViewsInv
    <2> QED BY <1>2, <2>1 DEF AddRelation, Settling
<1>3. ASSUME NEW m \in AllMissions, Archive(m) PROVE FALSE
    BY <1>3 DEF Archive
<1>4. ASSUME NEW r \in AllRecords, Settle(r) PROVE Settling
    BY <1>4 DEF Settle, Settling
<1> QED BY <1>1, <1>2, <1>3, <1>4 DEF ViewsNext

Debt(a, b, c, d, e, f) ==
    AtMost(100, 18 * a + 10 * b + 8 * c + 7 * d + 15 * e + 8 * f)

LEMMA DebtShrinks ==
    ASSUME NEW a \in Nat, NEW a2 \in Nat, a2 <= a, NEW b \in Nat, NEW b2 \in Nat, b2 <= b,
           NEW c \in Nat, NEW c2 \in Nat, c2 <= c, NEW d \in Nat, NEW e \in Nat, NEW f \in Nat
    PROVE  /\ Debt(a2, b2, c2, d, e, f) <= Debt(a, b, c, d, e, f)
           /\ Debt(a2, b2, c2, d, e, f) \in Nat /\ Debt(a, b, c, d, e, f) \in Nat
BY DEF Debt, AtMost

LEMMA RecordsAreFinitelyMany == IsFiniteSet(AllRecords)
<1>1. 1 \in Int /\ Len(RecordOrder) \in Int /\ DOMAIN RecordOrder = 1 .. Len(RecordOrder)
    BY ViewsAssumption
<1>2. IsFiniteSet(DOMAIN RecordOrder)
    BY <1>1, FS_Interval
<1>3. RecordOrder \in Surjection(DOMAIN RecordOrder, AllRecords)
    BY ViewsAssumption DEF Surjection, AllRecords
<1> QED BY <1>2, <1>3, FS_Surjection

LEMMA SettlingPays ==
    ASSUME ViewsInv, Settling, NEW m \in AllMissions
    PROVE  DebtScore(m)' <= DebtScore(m) /\ DebtScore(m)' \in Nat /\ DebtScore(m) \in Nat
<1>1. ASSUME NEW kind PROVE OfKind(m, kind)' = OfKind(m, kind)
    BY DEF Settling, OfKind
<1>2. ASSUME NEW kind PROVE OfKind(m, kind) \subseteq AllRecords
    BY DEF OfKind, ViewsInv
<1> DEFINE a == WithoutOutcome(m)
           b == OfKind(m, "assumption") \cap pending
           c == OfKind(m, "constraint") \cap pending
           d == { r \in OfKind(m, "evidence") : "stale" \in Facts[r].marks }
           e == { r \in OfKind(m, "hypothesis") : "revalidate" \in Facts[r].marks }
           f == { r \in OfKind(m, "learning") :
                   Facts[r].marks \cap {"inherited", "scoped"} = {} }
<1>3. DebtScore(m) = Debt(Cardinality(a), Cardinality(b), Cardinality(c), Cardinality(d),
                          Cardinality(e), Cardinality(f))
    BY DEF DebtScore, Debt
<1>4. DebtScore(m)' = Debt(Cardinality(a'), Cardinality(b'), Cardinality(c'),
                           Cardinality(d'), Cardinality(e'), Cardinality(f'))
    BY DEF DebtScore, Debt
<1>5. d' = d /\ e' = e /\ f' = f
    BY <1>1
<1>6. b' \subseteq b /\ c' \subseteq c
    BY <1>1 DEF Settling
<1>7. a' \subseteq a
    <2>1. OfKind(m, "decision")' = OfKind(m, "decision")
          /\ OfKind(m, "outcome")' = OfKind(m, "outcome")
        BY <1>1
    <2>2. relations[m] \subseteq relations[m]'
        BY DEF Settling
    <2> QED BY <2>1, <2>2 DEF WithoutOutcome
<1>8. a \subseteq AllRecords /\ b \subseteq AllRecords /\ c \subseteq AllRecords
      /\ d \subseteq AllRecords /\ e \subseteq AllRecords /\ f \subseteq AllRecords
    BY <1>2 DEF WithoutOutcome
<1> HIDE DEF a, b, c, d, e, f
<1>9. /\ IsFiniteSet(a) /\ IsFiniteSet(b) /\ IsFiniteSet(c)
      /\ IsFiniteSet(d) /\ IsFiniteSet(e) /\ IsFiniteSet(f)
    BY <1>8, RecordsAreFinitelyMany, FS_Subset
<1>10. /\ Cardinality(a') <= Cardinality(a) /\ IsFiniteSet(a')
       /\ Cardinality(b') <= Cardinality(b) /\ IsFiniteSet(b')
       /\ Cardinality(c') <= Cardinality(c) /\ IsFiniteSet(c')
    BY <1>6, <1>7, <1>9, FS_Subset
<1>11. /\ Cardinality(a) \in Nat /\ Cardinality(b) \in Nat /\ Cardinality(c) \in Nat
       /\ Cardinality(d) \in Nat /\ Cardinality(e) \in Nat /\ Cardinality(f) \in Nat
       /\ Cardinality(a') \in Nat /\ Cardinality(b') \in Nat /\ Cardinality(c') \in Nat
    BY <1>9, <1>10, FS_CardinalityType
<1>12. DebtScore(m)' <= DebtScore(m) /\ DebtScore(m)' \in Nat /\ DebtScore(m) \in Nat
    <2> DEFINE was == Debt(Cardinality(a), Cardinality(b), Cardinality(c), Cardinality(d),
                           Cardinality(e), Cardinality(f))
               is == Debt(Cardinality(a'), Cardinality(b'), Cardinality(c'), Cardinality(d),
                          Cardinality(e), Cardinality(f))
    <2>1. DebtScore(m)' = is
        BY <1>4, <1>5
    <2>2. is <= was /\ is \in Nat /\ was \in Nat
        BY <1>10, <1>11, DebtShrinks
    <2> HIDE DEF is, was
    <2> QED BY <1>3, <2>1, <2>2 DEF was
<1> QED BY <1>12

-----------------------------------------------------------------------------
(***************************************************************************)
(* The mean of the debts.  A sum over a set is one function of its subsets *)
(* that takes them apart element by element, and there is such a function. *)
(***************************************************************************)

OneOf(T) == CHOOSE x \in T : TRUE

TakesApart(g, S, f) ==
    g = [T \in SUBSET S |-> IF T = {} THEN 0 ELSE f[OneOf(T)] + g[T \ {OneOf(T)}]]

LEMMA SomeSumTakesApart ==
    ASSUME NEW S, IsFiniteSet(S), NEW f, \A s \in S : f[s] \in Nat
    PROVE  \E g : TakesApart(g, S, f)
<1> DEFINE g == [T \in SUBSET S |-> Total(T, f)]
<1>1. ASSUME NEW T \in SUBSET S, T # {}
      PROVE  Total(T, f) = f[OneOf(T)] + Total(T \ {OneOf(T)}, f)
    <2>1. OneOf(T) \in T /\ IsFiniteSet(T) /\ \A s \in T : f[s] \in Nat
        BY <1>1, FS_Subset DEF OneOf
    <2>2. IsFiniteSet(T \ {OneOf(T)})
        BY <2>1, FS_Subset
    <2>3. /\ Total(T \ {OneOf(T)}, f) = Total(T, f) - f[OneOf(T)]
          /\ Total(T, f) \in Nat /\ f[OneOf(T)] \in Nat
        BY <2>1, TotalRemove, TotalType
    <2> QED BY <2>3
<1>2. Total({}, f) = 0
    BY TotalEmpty
<1>3. g = [T \in SUBSET S |-> IF T = {} THEN 0 ELSE f[OneOf(T)] + g[T \ {OneOf(T)}]]
    BY <1>1, <1>2
<1> QED BY <1>3 DEF TakesApart

LEMMA HundredMore == \A n \in Nat : 100 * n \in Nat /\ 100 * (n + 1) = 100 * n + 100
OBVIOUS

\* A sum of percentages is at most a hundred times their number.
LEMMA PercentagesAdd ==
    ASSUME NEW S, IsFiniteSet(S), NEW f, \A s \in S : f[s] \in 0 .. 100,
           NEW g, TakesApart(g, S, f)
    PROVE  \A T \in SUBSET S : g[T] \in Nat /\ g[T] <= 100 * Cardinality(T)
<1> DEFINE Fails == { T \in SUBSET S : ~ (g[T] \in Nat /\ g[T] <= 100 * Cardinality(T)) }
           N == { Cardinality(T) : T \in Fails }
<1>1. \A T \in SUBSET S : IsFiniteSet(T) /\ Cardinality(T) \in Nat
    BY FS_Subset, FS_CardinalityType
<1>2. SUFFICES ASSUME Fails # {} PROVE FALSE
    OBVIOUS
<1>3. PICK n \in N : \A m \in N : n <= m
    <2>1. N \subseteq Nat /\ N # {}
        BY <1>1, <1>2
    <2> HIDE DEF N
    <2> QED BY <2>1, LeastNumber
<1>4. PICK T \in Fails : n = Cardinality(T)
    OBVIOUS
<1>5. T # {}
    <2>1. g[{}] = 0
        BY DEF TakesApart
    <2>2. 0 <= 100 * Cardinality({})
        BY FS_EmptySet, HundredMore
    <2>3. g[{}] \in Nat /\ g[{}] <= 100 * Cardinality({})
        BY <2>1, <2>2
    <2>4. {} \notin Fails
        BY <2>3
    <2> HIDE DEF Fails
    <2> QED BY <2>4, <1>4
<1> DEFINE x == OneOf(T)
           rest == T \ {x}
<1>6. x \in T /\ rest \subseteq S /\ f[x] \in 0 .. 100 /\ g[T] = f[x] + g[rest]
    BY <1>4, <1>5 DEF TakesApart, OneOf
<1>7. Cardinality(rest) = Cardinality(T) - 1 /\ Cardinality(T) \in Nat /\ Cardinality(rest) \in Nat
    <2>1. IsFiniteSet(T) /\ IsFiniteSet(rest)
        BY <1>1, <1>4, <1>6
    <2> HIDE DEF x
    <2> QED BY <2>1, <1>6, FS_RemoveElement, FS_CardinalityType
<1> HIDE DEF x, rest
<1>8. rest \notin Fails
    <2>1. rest \in Fails => n <= Cardinality(rest)
        BY <1>3
    <2> QED BY <2>1, <1>4, <1>7
<1>9. g[rest] \in Nat /\ g[rest] <= 100 * Cardinality(rest)
    BY <1>6, <1>8
<1>10. 100 * Cardinality(T) = 100 * Cardinality(rest) + 100 /\ 100 * Cardinality(rest) \in Nat
    <2>1. Cardinality(T) = Cardinality(rest) + 1
        BY <1>7
    <2> QED BY <2>1, <1>7, HundredMore
<1>11. g[T] \in Nat /\ g[T] <= 100 * Cardinality(T)
    BY <1>6, <1>9, <1>10
<1> QED BY <1>4, <1>11

LEMMA DebtsAdd ==
    ASSUME NEW S, IsFiniteSet(S), \A m \in S : DebtScore(m) \in 0 .. 100
    PROVE  /\ MapThenSumSet(DebtScore, S) \in Nat
           /\ MapThenSumSet(DebtScore, S) <= 100 * Cardinality(S)
<1> DEFINE f == [m \in S |-> DebtScore(m)]
           g == CHOOSE h : h = [T \in SUBSET S |->
                    IF T = {} THEN 0 ELSE DebtScore(OneOf(T)) + h[T \ {OneOf(T)}]]
<1>1. MapThenSumSet(DebtScore, S) = g[S]
    BY DEF MapThenSumSet, MapThenFoldSet, OneOf
<1>2. \A h : TakesApart(h, S, f) <=>
        h = [T \in SUBSET S |-> IF T = {} THEN 0 ELSE DebtScore(OneOf(T)) + h[T \ {OneOf(T)}]]
    <2>1. \A T \in SUBSET S : T # {} => f[OneOf(T)] = DebtScore(OneOf(T))
        BY DEF OneOf
    <2> QED BY <2>1 DEF TakesApart
<1>3. \E h : TakesApart(h, S, f)
    BY SomeSumTakesApart
<1>4. TakesApart(g, S, f)
    BY <1>2, <1>3
<1> HIDE DEF g
<1> QED BY <1>1, <1>4, PercentagesAdd

LEMMA Halves ==
    ASSUME NEW n \in Nat, NEW d \in Nat \ {0}
    PROVE  /\ n \div d \in Nat /\ (n % d) \in Nat /\ (n % d) < d
           /\ n = (d * (n \div d)) + (n % d)
<1>1. PICK q \in Nat, r \in 0 .. d - 1 : n = d * q + r
    BY Quotients
<1>2. n \div d = q /\ n % d = r
    BY <1>1, Quotient
<1> QED BY <1>1, <1>2

LEMMA HundredTimes == \A d, q \in Nat : d > 0 /\ q >= 101 => d * q >= 100 * d + d
<1> SUFFICES ASSUME NEW d \in Nat, NEW q \in Nat, q >= 101 PROVE d * q >= 100 * d + d
    OBVIOUS
<1>1. PICK k \in Nat : q = 101 + k
    BY q - 101 \in Nat
<1>2. d * q = 101 * d + d * k /\ d * k \in Nat
    BY <1>1
<1> QED BY <1>2

\* What is rounded from at most a hundred times the divisor is at most a hundred.
LEMMA MeansAreBounded ==
    ASSUME NEW n \in Nat, NEW d \in Nat \ {0}, n <= 100 * d
    PROVE  Round(n, d) \in 0 .. 100
<1> DEFINE q == n \div d
           r == n % d
<1>1. q \in Nat /\ r \in Nat /\ r < d /\ n = d * q + r
    BY Halves
<1>2. Round(n, d) = IF 2 * r > d \/ (2 * r = d /\ q % 2 = 1) THEN q + 1 ELSE q
    BY DEF Round
<1> HIDE DEF q, r
<1>3. q <= 100
    <2>1. CASE q >= 101
        <3>1. d * q >= 100 * d + d /\ d * q \in Nat /\ 100 * d \in Nat
            BY <1>1, <2>1, HundredTimes
        <3> QED BY <1>1, <3>1
    <2> QED BY <1>1, <2>1
<1>4. q = 100 => r = 0
    <2>1. q = 100 => d * q = 100 * d
        OBVIOUS
    <2> QED BY <1>1, <2>1
<1> QED BY <1>1, <1>2, <1>3, <1>4

LEMMA DebtIsPercentage ==
    ASSUME NEW a \in Nat, NEW b \in Nat, NEW c \in Nat, NEW d \in Nat, NEW e \in Nat,
           NEW f \in Nat
    PROVE  Debt(a, b, c, d, e, f) \in 0 .. 100
BY DEF Debt, AtMost

LEMMA DebtScores ==
    ASSUME ViewsInv, NEW m \in AllMissions
    PROVE  DebtScore(m) \in 0 .. 100
<1> DEFINE a == WithoutOutcome(m)
           b == OfKind(m, "assumption") \cap pending
           c == OfKind(m, "constraint") \cap pending
           d == { r \in OfKind(m, "evidence") : "stale" \in Facts[r].marks }
           e == { r \in OfKind(m, "hypothesis") : "revalidate" \in Facts[r].marks }
           f == { r \in OfKind(m, "learning") :
                   Facts[r].marks \cap {"inherited", "scoped"} = {} }
<1>1. DebtScore(m) = Debt(Cardinality(a), Cardinality(b), Cardinality(c), Cardinality(d),
                          Cardinality(e), Cardinality(f))
    BY DEF DebtScore, Debt
<1>2. ASSUME NEW kind PROVE OfKind(m, kind) \subseteq AllRecords
    BY DEF OfKind, ViewsInv
<1>3. a \subseteq AllRecords /\ b \subseteq AllRecords /\ c \subseteq AllRecords
      /\ d \subseteq AllRecords /\ e \subseteq AllRecords /\ f \subseteq AllRecords
    BY <1>2 DEF WithoutOutcome
<1> HIDE DEF a, b, c, d, e, f
<1>4. /\ Cardinality(a) \in Nat /\ Cardinality(b) \in Nat /\ Cardinality(c) \in Nat
      /\ Cardinality(d) \in Nat /\ Cardinality(e) \in Nat /\ Cardinality(f) \in Nat
    BY <1>3, RecordsAreFinitelyMany, FS_Subset, FS_CardinalityType
<1>5. Debt(Cardinality(a), Cardinality(b), Cardinality(c), Cardinality(d), Cardinality(e),
           Cardinality(f)) \in 0 .. 100
    BY <1>4, DebtIsPercentage, Zenon
<1> QED BY <1>1, <1>5

LEMMA MissionsAreFinitelyMany == IsFiniteSet(AllMissions)
<1>1. 1 \in Int /\ Len(MissionOrder) \in Int /\ DOMAIN MissionOrder = 1 .. Len(MissionOrder)
    BY ViewsAssumption
<1>2. IsFiniteSet(DOMAIN MissionOrder)
    BY <1>1, FS_Interval
<1>3. MissionOrder \in Surjection(DOMAIN MissionOrder, AllMissions)
    BY ViewsAssumption DEF Surjection, AllMissions
<1> QED BY <1>2, <1>3, FS_Surjection

LEMMA PortfolioDebts ==
    ASSUME ViewsInv
    PROVE  PortfolioDebt \in 0 .. 100
<1> DEFINE sum == MapThenSumSet(DebtScore, ActiveMissions)
           n == Cardinality(ActiveMissions)
<1>1. IsFiniteSet(ActiveMissions) /\ n \in Nat /\ (n = 0 <=> ActiveMissions = {})
    <2>1. ActiveMissions \subseteq AllMissions
        BY DEF ActiveMissions
    <2>2. IsFiniteSet(ActiveMissions)
        BY <2>1, MissionsAreFinitelyMany, FS_Subset
    <2> QED BY <2>2, FS_CardinalityType, FS_EmptySet
<1>2. \A m \in ActiveMissions : DebtScore(m) \in 0 .. 100
    BY DebtScores DEF ActiveMissions
<1>3. sum \in Nat /\ sum <= 100 * n
    BY <1>1, <1>2, DebtsAdd
<1>4. PortfolioDebt = Round(sum, IF ActiveMissions = {} THEN 1 ELSE n)
    BY DEF PortfolioDebt
<1> HIDE DEF sum, n
<1>5. CASE ActiveMissions = {}
    <2>1. sum <= 100 * 1 /\ 1 \in Nat \ {0}
        BY <1>1, <1>3, <1>5
    <2> QED BY <1>3, <1>4, <1>5, <2>1, MeansAreBounded
<1>6. CASE ActiveMissions # {}
    BY <1>1, <1>3, <1>4, <1>6, MeansAreBounded
<1> QED BY <1>5, <1>6

-----------------------------------------------------------------------------
(***************************************************************************)
(* No debt grows when its causes shrink, nor does their mean.              *)
(***************************************************************************)

\* Sums that are taken apart alike are ordered as their terms are.
LEMMA SumsAreOrdered ==
    ASSUME NEW S, IsFiniteSet(S), NEW f, NEW f2,
           \A s \in S : f[s] \in Nat /\ f2[s] \in Nat /\ f2[s] <= f[s],
           NEW g, TakesApart(g, S, f), NEW g2, TakesApart(g2, S, f2)
    PROVE  \A T \in SUBSET S : g[T] \in Nat /\ g2[T] \in Nat /\ g2[T] <= g[T]
<1> DEFINE Fails == { T \in SUBSET S : ~ (g[T] \in Nat /\ g2[T] \in Nat /\ g2[T] <= g[T]) }
           N == { Cardinality(T) : T \in Fails }
<1>1. \A T \in SUBSET S : IsFiniteSet(T) /\ Cardinality(T) \in Nat
    BY FS_Subset, FS_CardinalityType
<1>2. SUFFICES ASSUME Fails # {} PROVE FALSE
    OBVIOUS
<1>3. PICK n \in N : \A m \in N : n <= m
    <2>1. N \subseteq Nat /\ N # {}
        BY <1>1, <1>2
    <2> HIDE DEF N
    <2> QED BY <2>1, LeastNumber
<1>4. PICK T \in Fails : n = Cardinality(T)
    OBVIOUS
<1>5. T # {}
    <2>1. g[{}] = 0 /\ g2[{}] = 0
        BY DEF TakesApart
    <2>2. {} \notin Fails
        BY <2>1
    <2> HIDE DEF Fails
    <2> QED BY <2>2, <1>4
<1> DEFINE x == OneOf(T)
           rest == T \ {x}
<1>6. x \in T /\ rest \subseteq S /\ x \in S /\ g[T] = f[x] + g[rest] /\ g2[T] = f2[x] + g2[rest]
    BY <1>4, <1>5 DEF TakesApart, OneOf
<1>7. Cardinality(rest) = Cardinality(T) - 1 /\ Cardinality(T) \in Nat /\ Cardinality(rest) \in Nat
    <2>1. IsFiniteSet(T) /\ IsFiniteSet(rest)
        BY <1>1, <1>4, <1>6
    <2> HIDE DEF x
    <2> QED BY <2>1, <1>6, FS_RemoveElement, FS_CardinalityType
<1> HIDE DEF x, rest
<1>8. rest \notin Fails
    <2>1. rest \in Fails => n <= Cardinality(rest)
        BY <1>3
    <2> QED BY <2>1, <1>4, <1>7
<1>9. g[rest] \in Nat /\ g2[rest] \in Nat /\ g2[rest] <= g[rest]
    BY <1>6, <1>8
<1>10. g[T] \in Nat /\ g2[T] \in Nat /\ g2[T] <= g[T]
    BY <1>6, <1>9
<1> QED BY <1>4, <1>10

LEMMA MoreTimes == \A d, p, q \in Nat : q >= p + 1 => d * q >= d * p + d
<1> SUFFICES ASSUME NEW d \in Nat, NEW p \in Nat, NEW q \in Nat, q >= p + 1
             PROVE  d * q >= d * p + d
    OBVIOUS
<1>1. PICK k \in Nat : q = p + 1 + k
    BY q - (p + 1) \in Nat
<1>2. d * q = d * p + d + d * k /\ d * k \in Nat /\ d * p \in Nat
    BY <1>1
<1> QED BY <1>2

\* A half goes to the even neighbour, and still no mean overtakes a greater one.
LEMMA MeansAreOrdered ==
    ASSUME NEW n \in Nat, NEW n2 \in Nat, n2 <= n, NEW d \in Nat \ {0}
    PROVE  Round(n2, d) <= Round(n, d)
<1> DEFINE q == n \div d
           r == n % d
           q2 == n2 \div d
           r2 == n2 % d
<1>1. /\ q \in Nat /\ r \in Nat /\ r < d /\ n = d * q + r
      /\ q2 \in Nat /\ r2 \in Nat /\ r2 < d /\ n2 = d * q2 + r2
    BY Halves
<1>2. /\ Round(n, d) = IF 2 * r > d \/ (2 * r = d /\ q % 2 = 1) THEN q + 1 ELSE q
      /\ Round(n2, d) = IF 2 * r2 > d \/ (2 * r2 = d /\ q2 % 2 = 1) THEN q2 + 1 ELSE q2
    BY DEF Round
<1> HIDE DEF q, r, q2, r2
<1>3. q2 <= q
    <2>1. CASE q2 >= q + 1
        <3>1. d * q2 >= d * q + d /\ d * q2 \in Nat /\ d * q \in Nat
            BY <1>1, <2>1, MoreTimes
        <3> QED BY <1>1, <3>1
    <2> QED BY <1>1, <2>1
<1>4. CASE q2 < q
    BY <1>1, <1>2, <1>4
<1>5. CASE q2 = q
    <2>1. r2 <= r
        <3>1. d * q2 = d * q /\ d * q \in Nat
            BY <1>1, <1>5
        <3> QED BY <1>1, <3>1
    <2> QED BY <1>1, <1>2, <1>5, <2>1
<1> QED BY <1>1, <1>3, <1>4, <1>5

LEMMA PortfolioPays ==
    ASSUME ViewsInv, ViewsInv', Settling
    PROVE  PortfolioDebt' <= PortfolioDebt
<1> DEFINE S == ActiveMissions
           f == [m \in S |-> DebtScore(m)]
           f2 == [m \in S |-> DebtScore(m)']
           g == CHOOSE h : h = [T \in SUBSET S |->
                    IF T = {} THEN 0 ELSE DebtScore(OneOf(T)) + h[T \ {OneOf(T)}]]
           g2 == CHOOSE h : h = [T \in SUBSET S |->
                    IF T = {} THEN 0 ELSE DebtScore(OneOf(T))' + h[T \ {OneOf(T)}]]
<1>1. ActiveMissions' = S /\ S \subseteq AllMissions
    BY DEF Settling, ActiveMissions
<1>2. /\ IsFiniteSet(S) /\ Cardinality(S) \in Nat
      /\ Cardinality(S) = 0 <=> S = {}
    BY <1>1, MissionsAreFinitelyMany, FS_Subset, FS_CardinalityType, FS_EmptySet
<1>3. \A m \in S : DebtScore(m) \in Nat /\ DebtScore(m)' \in Nat /\ DebtScore(m)' <= DebtScore(m)
    BY <1>1, SettlingPays
<1>4. MapThenSumSet(DebtScore, ActiveMissions) = g[S]
    BY DEF MapThenSumSet, MapThenFoldSet, OneOf
<1>5. MapThenSumSet(DebtScore, ActiveMissions)' = g2[S]
    BY <1>1 DEF MapThenSumSet, MapThenFoldSet, OneOf
<1> HIDE DEF S
<1>6. \A T \in SUBSET S : T # {} => OneOf(T) \in S
    BY DEF OneOf
<1>7. TakesApart(g, S, f)
    <2>1. \A h : TakesApart(h, S, f) <=>
            h = [T \in SUBSET S |-> IF T = {} THEN 0 ELSE DebtScore(OneOf(T)) + h[T \ {OneOf(T)}]]
        BY <1>6 DEF TakesApart
    <2>2. \E h : TakesApart(h, S, f)
        BY <1>2, <1>3, SomeSumTakesApart
    <2> QED BY <2>1, <2>2
<1>8. TakesApart(g2, S, f2)
    <2>1. \A h : TakesApart(h, S, f2) <=>
            h = [T \in SUBSET S |-> IF T = {} THEN 0 ELSE DebtScore(OneOf(T))' + h[T \ {OneOf(T)}]]
        BY <1>6 DEF TakesApart
    <2>2. \E h : TakesApart(h, S, f2)
        BY <1>2, <1>3, SomeSumTakesApart
    <2> QED BY <2>1, <2>2
<1>9. \A s \in S : f[s] \in Nat /\ f2[s] \in Nat /\ f2[s] <= f[s]
    BY <1>3
<1> HIDE DEF g, g2, f, f2
<1>10. g[S] \in Nat /\ g2[S] \in Nat /\ g2[S] <= g[S]
    BY <1>2, <1>7, <1>8, <1>9, SumsAreOrdered
<1> DEFINE n == IF S = {} THEN 1 ELSE Cardinality(S)
<1>11. n \in Nat \ {0}
    BY <1>2
<1>12. PortfolioDebt = Round(g[S], n) /\ PortfolioDebt' = Round(g2[S], n)
    BY <1>1, <1>4, <1>5 DEF PortfolioDebt, S, Round
<1> HIDE DEF n
<1> QED BY <1>10, <1>11, <1>12, MeansAreOrdered

Pays ==
    (pending' # pending \/ relations' # relations) /\ records' = records =>
        /\ \A m \in AllMissions : DebtScore(m)' <= DebtScore(m)
        /\ PortfolioDebt' <= PortfolioDebt

\* Whatever the documents and their order: a pattern is a recurrence and the
\* whole of it, however the forest was halved on the way; and what is settled or
\* related adds to no debt, of a mission or of the organisation.
THEOREM ViewsStaySound == ViewsSpec => ViewsAreSound
<1>1. Patterns = Recurrences
    BY PatternsRecur
<1>2. ViewsInv /\ ViewsInv' /\ [ViewsNext]_learningViewVars => [Pays]_learningViewVars
    <2> SUFFICES ASSUME ViewsInv, ViewsInv', ViewsNext, records' = records,
                        pending' # pending \/ relations' # relations
                 PROVE  /\ \A m \in AllMissions : DebtScore(m)' <= DebtScore(m)
                        /\ PortfolioDebt' <= PortfolioDebt
        BY DEF Pays
    <2>1. Settling
        BY SettlingOnlySettles
    <2> QED BY <2>1, SettlingPays, PortfolioPays
<1>3. ViewsSpec => [][Pays]_learningViewVars
    BY <1>2, ViewsInvariant, PTL DEF ViewsSpec
<1>4. ViewsSpec => SettlingReducesDebt
    BY <1>3 DEF SettlingReducesDebt, Pays
<1> QED BY <1>1, <1>4, PTL DEF ViewsAreSound

-----------------------------------------------------------------------------
\* What a relation joins, and what is pending, is in a document.
JoinsRecords ==
    /\ \A m \in AllMissions : \A t \in relations[m] : {t.source, t.target} \subseteq records[m]
    /\ pending \subseteq UNION { records[m] : m \in AllMissions }

LEMMA RelationsJoinRecords == ViewsSpec => []JoinsRecords
<1>1. ViewsInit => JoinsRecords
    BY DEF ViewsInit, JoinsRecords
<1>2. ViewsInv /\ JoinsRecords /\ [ViewsNext]_learningViewVars => JoinsRecords'
    <2> SUFFICES ASSUME ViewsInv, JoinsRecords, [ViewsNext]_learningViewVars
                 PROVE  JoinsRecords'
        OBVIOUS
    <2>1. ASSUME NEW m \in AllMissions, NEW r \in AllRecords, NEW open \in BOOLEAN,
                 AddRecord(m, r, open)
          PROVE  JoinsRecords'
        <3>1. records' = [records EXCEPT ![m] = records[m] \cup {r}] /\ relations' = relations
              /\ pending' \subseteq pending \cup {r}
            BY <2>1 DEF AddRecord
        <3>2. \A n \in AllMissions : records[n] \subseteq records'[n]
            BY <3>1 DEF ViewsInv
        <3>3. r \in records'[m]
            BY <3>1 DEF ViewsInv
        <3>4. pending' \subseteq UNION { records'[n] : n \in AllMissions }
            <4> SUFFICES ASSUME NEW p \in pending'
                         PROVE  \E n \in AllMissions : p \in records'[n]
                OBVIOUS
            <4>1. CASE p = r
                BY <3>3, <4>1
            <4>2. CASE p # r
                <5>1. PICK n \in AllMissions : p \in records[n]
                    BY <3>1, <4>2 DEF JoinsRecords
                <5> QED BY <3>2, <5>1
            <4> QED BY <4>1, <4>2
        <3>5. \A n \in AllMissions : \A t \in relations'[n] :
                  {t.source, t.target} \subseteq records'[n]
            BY <3>1, <3>2 DEF JoinsRecords
        <3> QED BY <3>4, <3>5 DEF JoinsRecords
    <2>2. ASSUME NEW m \in AllMissions, NEW type \in RelationTypes,
                 NEW s \in records[m], NEW t \in records[m], AddRelation(m, type, s, t)
          PROVE  JoinsRecords'
        <3> DEFINE e == [type |-> type, source |-> s, target |-> t]
        <3>1. relations' = [relations EXCEPT ![m] = relations[m] \cup {e}]
              /\ records' = records /\ pending' = pending
            BY <2>2 DEF AddRelation
        <3>2. e.source \in records[m] /\ e.target \in records[m]
            OBVIOUS
        <3> HIDE DEF e
        <3>3. ASSUME NEW n \in AllMissions, NEW x \in relations'[n]
              PROVE  {x.source, x.target} \subseteq records[n]
            <4>1. x \in relations[n] \/ (n = m /\ x = e)
                BY <3>1 DEF ViewsInv
            <4>2. CASE x \in relations[n]
                BY <4>2 DEF JoinsRecords
            <4>3. CASE n = m /\ x = e
                BY <3>2, <4>3
            <4> QED BY <4>1, <4>2, <4>3
        <3> QED BY <3>1, <3>3 DEF JoinsRecords
    <2>3. ASSUME NEW m \in AllMissions, Archive(m) PROVE JoinsRecords'
        BY <2>3 DEF Archive, JoinsRecords
    <2>4. ASSUME NEW r \in AllRecords, Settle(r) PROVE JoinsRecords'
        BY <2>4 DEF Settle, JoinsRecords
    <2>5. CASE UNCHANGED learningViewVars
        BY <2>5 DEF learningViewVars, JoinsRecords
    <2> QED BY <2>1, <2>2, <2>3, <2>4, <2>5 DEF ViewsNext
<1> QED BY <1>1, <1>2, ViewsInvariant, PTL DEF ViewsSpec

\* The views' types, for every set of documents: relations join records of their
\* document, and the portfolio's debt, a rounded mean of the missions' debts, is
\* a percentage however many missions are active, none included.
THEOREM ViewsKeepTheirTypes == ViewsSpec => []ViewTypes
<1>1. ViewsInv /\ JoinsRecords => ViewTypes
    BY PortfolioDebts DEF ViewTypes, JoinsRecords
<1> QED BY <1>1, ViewsInvariant, RelationsJoinRecords, PTL
=============================================================================
