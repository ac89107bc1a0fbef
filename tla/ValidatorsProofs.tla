-------------------------- MODULE ValidatorsProofs --------------------------
(***************************************************************************)
(* Proofs about Validators, for sets of any size and addresses of any      *)
(* length: whatever order the node answers in, getValSet makes one and the *)
(* same order of it, and NextProposer goes round in that order.            *)
(***************************************************************************)
EXTENDS Validators, FiniteSetTheorems, TLAPS

\* Induction in the form the provers can use: a set of numbers has a least one.
LEMMA LeastNumber ==
    ASSUME NEW T \in SUBSET Nat, T # {}
    PROVE  \E n \in T : \A m \in T : n <= m
<1> DEFINE R == StrictSubsetOrdering(Nat)
           Up == {1..n : n \in T}
<1>1. IsWellFoundedOn(R, FiniteSubsetsOf(Nat))
    BY FS_StrictSubsetOrderingWellFounded
<1>2. Up \subseteq FiniteSubsetsOf(Nat) /\ Up # {}
    <2>1. ASSUME NEW n \in T PROVE 1..n \in FiniteSubsetsOf(Nat)
        <3>1. IsFiniteSet(1..n)
            BY FS_Interval
        <3> QED BY <3>1 DEF FiniteSubsetsOf
    <2> QED BY <2>1
<1>3. PICK S \in Up : \A U \in Up : <<U, S>> \notin R
    <2> HIDE DEF R, Up
    <2> QED BY <1>1, <1>2, WFMin
<1>4. PICK n \in T : S = 1..n
    BY <1>3
<1>5. ASSUME NEW m \in T, m < n PROVE FALSE
    <2>1. 1..m \in SUBSET Nat /\ 1..n \in SUBSET Nat /\ 1..m \subseteq 1..n
        BY <1>5
    <2>2. n \in 1..n /\ n \notin 1..m
        BY <1>5
    <2>3. <<1..m, 1..n>> \in R
        BY <2>1, <2>2 DEF StrictSubsetOrdering
    <2> QED BY <1>3, <1>4, <2>3
<1> QED BY <1>5

-----------------------------------------------------------------------------
(* The order of the texts                                                  *)

\* Different digits have different character codes, whatever the capitals.
LEMMA CodesDiffer ==
    ASSUME NEW d \in 0..15, NEW e \in 0..15, d # e, NEW x \in BOOLEAN, NEW y \in BOOLEAN
    PROVE  CharCode(d, x) # CharCode(e, y)
BY DEF CharCode

LEMMA TextIsNumbers ==
    ASSUME NEW w \in Validators
    PROVE  /\ AddressText(w) \in [DOMAIN Digits[w] -> Nat]
           /\ DOMAIN Digits[w] = 1..Len(Digits[w]) /\ Len(Digits[w]) \in Nat
<1>1. Digits[w] \in Seq(0..15)
    BY AddressesAssumption
<1>2. \A k \in DOMAIN Digits[w] : Digits[w][k] \in 0..15
    BY <1>1
<1>3. DOMAIN Digits[w] = 1..Len(Digits[w]) /\ Len(Digits[w]) \in Nat
    BY <1>1
<1>4. \A k \in DOMAIN Digits[w] : CharCode(Digits[w][k], Capital[w][k]) \in Nat
    BY <1>2 DEF CharCode
<1> QED BY <1>3, <1>4 DEF AddressText

\* Two addresses that differ do so at a first place.
LEMMA TextsTotal ==
    ASSUME NEW u \in Validators, NEW w \in Validators, u # w
    PROVE  \/ TextBefore(AddressText(u), AddressText(w))
           \/ TextBefore(AddressText(w), AddressText(u))
<1> DEFINE s == AddressText(u)
           t == AddressText(w)
           L == Len(Digits[u])
           D == {k \in 1..L : s[k] # t[k]}
<1>1. /\ Digits[u] \in Seq(0..15) /\ Digits[w] \in Seq(0..15)
      /\ Capital[u] \in [DOMAIN Digits[u] -> BOOLEAN]
      /\ Capital[w] \in [DOMAIN Digits[w] -> BOOLEAN]
      /\ Len(Digits[w]) = L /\ Digits[u] # Digits[w]
    BY AddressesAssumption
<1>2. L \in Nat /\ DOMAIN Digits[u] = 1..L /\ DOMAIN Digits[w] = 1..L
    BY <1>1
<1>3. PICK k \in 1..L : Digits[u][k] # Digits[w][k]
    BY <1>1, <1>2
<1>4. s \in [1..L -> Nat] /\ t \in [1..L -> Nat]
    BY <1>2, TextIsNumbers
<1>5. s[k] # t[k]
    <2> DEFINE d == Digits[u][k]
               e == Digits[w][k]
               x == Capital[u][k]
               y == Capital[w][k]
    <2>1. s[k] = CharCode(d, x) /\ t[k] = CharCode(e, y)
        BY <1>2 DEF AddressText
    <2>2. d \in 0..15 /\ e \in 0..15
        BY <1>1, <1>2, SMTT(20)
    <2>3. x \in BOOLEAN /\ y \in BOOLEAN
        BY <1>1, <1>2
    <2> HIDE DEF d, e, x, y, s, t
    <2> QED BY <1>3, <2>1, <2>2, <2>3, CodesDiffer DEF d, e
<1> HIDE DEF s, t, L
<1>6. D # {} /\ D \in SUBSET Nat
    BY <1>2, <1>5
<1>7. PICK n \in D : \A m \in D : n <= m
    BY <1>6, LeastNumber
<1>8. \A j \in 1..(n - 1) : s[j] = t[j]
    BY <1>2, <1>7
<1>9. s[n] < t[n] \/ t[n] < s[n]
    BY <1>4, <1>7
<1> QED BY <1>2, <1>4, <1>7, <1>8, <1>9 DEF TextBefore, s, t

LEMMA TextsIrreflexive ==
    ASSUME NEW w \in Validators
    PROVE  ~TextBefore(AddressText(w), AddressText(w))
BY TextIsNumbers DEF TextBefore

LEMMA TextsTransitive ==
    ASSUME NEW u \in Validators, NEW v \in Validators, NEW w \in Validators,
           TextBefore(AddressText(u), AddressText(v)),
           TextBefore(AddressText(v), AddressText(w))
    PROVE  TextBefore(AddressText(u), AddressText(w))
<1> DEFINE L == Len(Digits[u])
           r == AddressText(u)
           s == AddressText(v)
           t == AddressText(w)
<1>1. /\ L \in Nat
      /\ r \in [1..L -> Nat] /\ s \in [1..L -> Nat] /\ t \in [1..L -> Nat]
    BY TextIsNumbers, AddressesAssumption
<1> HIDE DEF L, r, s, t
<1>2. PICK a \in 1..L : r[a] < s[a] /\ \A j \in 1..(a - 1) : r[j] = s[j]
    BY <1>1 DEF TextBefore, r, s
<1>3. PICK b \in 1..L : s[b] < t[b] /\ \A j \in 1..(b - 1) : s[j] = t[j]
    BY <1>1 DEF TextBefore, s, t
<1> DEFINE c == IF a < b THEN a ELSE b
<1>4. c \in 1..L /\ r[c] < t[c]
    BY <1>1, <1>2, <1>3
<1>5. \A j \in 1..(c - 1) : r[j] = t[j]
    BY <1>1, <1>2, <1>3
<1>6. TextBefore(r, t)
    BY <1>1, <1>4, <1>5 DEF TextBefore
<1> QED BY <1>6 DEF r, t

-----------------------------------------------------------------------------
(* The order of a set                                                      *)

\* An order of a finite set leaves no member out.
LEMMA OrderIsOnto ==
    ASSUME NEW S, IsFiniteSet(S), NEW s \in Orders(S)
    PROVE  /\ Cardinality(S) \in Nat
           /\ s \in [1..Cardinality(S) -> S]
           /\ \A j, k \in 1..Cardinality(S) : j # k => s[j] # s[k]
           /\ \A w \in S : \E k \in 1..Cardinality(S) : s[k] = w
<1> DEFINE N == Cardinality(S)
<1>1. N \in Nat
    BY FS_CardinalityType
<1>2. s \in [1..N -> S] /\ \A j, k \in 1..N : j # k => s[j] # s[k]
    BY DEF Orders
<1>3. IsFiniteSet(1..N) /\ Cardinality(1..N) = N
    BY <1>1, FS_Interval
<1>4. s \in Injection(1..N, S)
    BY <1>2 DEF Injection, IsInjective
<1>5. s \in Surjection(1..N, S)
    BY <1>3, <1>4, FS_Injection
<1>6. \A w \in S : \E k \in 1..N : s[k] = w
    BY <1>5 DEF Surjection
<1> QED BY <1>1, <1>2, <1>6

\* Two orders by text are the same order.
LEMMA OrderIsUnique ==
    ASSUME NEW S \in SUBSET Validators, IsFiniteSet(S),
           NEW s \in getValSet(S), NEW t \in getValSet(S)
    PROVE  s = t
<1> DEFINE N == Cardinality(S)
           Before(u, w) == TextBefore(AddressText(u), AddressText(w))
           D == {k \in 1..N : s[k] # t[k]}
<1>1. s \in Orders(S) /\ t \in Orders(S)
    BY DEF getValSet
<1>2. /\ N \in Nat /\ s \in [1..N -> S] /\ t \in [1..N -> S]
      /\ \A j, k \in 1..N : j # k => s[j] # s[k] /\ t[j] # t[k]
      /\ \A w \in S : (\E k \in 1..N : s[k] = w) /\ \E k \in 1..N : t[k] = w
    BY <1>1, OrderIsOnto
<1>3. \A j, k \in 1..N : j < k => Before(s[j], s[k]) /\ Before(t[j], t[k])
    BY <1>2 DEF getValSet
<1>4. \A u, w \in S : ~(Before(u, w) /\ Before(w, u))
    BY TextsIrreflexive, TextsTransitive
<1> HIDE DEF N, Before
<1>5. SUFFICES ASSUME s # t PROVE FALSE
    OBVIOUS
<1>6. PICK n \in D : \A m \in D : n <= m
    <2>1. \E k \in 1..N : s[k] # t[k]
        BY <1>2, <1>5
    <2>2. D # {} /\ D \in SUBSET Nat
        <3>1. D # {}
            BY <2>1
        <3>2. \A k \in 1..N : k \in Nat
            BY <1>2
        <3> QED BY <3>1, <3>2
    <2> HIDE DEF D
    <2> QED BY <2>2, LeastNumber
<1>7. n \in 1..N /\ s[n] # t[n] /\ \A j \in 1..(n - 1) : s[j] = t[j]
    BY <1>2, <1>6
<1>8. PICK j \in 1..N : t[j] = s[n]
    BY <1>2, <1>7
<1>9. PICK k \in 1..N : s[k] = t[n]
    BY <1>2, <1>7
<1>10. j > n /\ k > n
    <2>1. j # n /\ k # n
        BY <1>7, <1>8, <1>9
    <2>2. \A i \in 1..(n - 1) : i \in 1..N /\ i # n
        BY <1>2, <1>7
    <2>3. j \notin 1..(n - 1)
        <3>1. SUFFICES ASSUME j \in 1..(n - 1) PROVE FALSE
            OBVIOUS
        <3>2. s[j] = s[n] /\ j # n
            BY <1>7, <1>8, <2>2, <3>1
        <3> QED BY <1>2, <1>7, <3>2
    <2>4. k \notin 1..(n - 1)
        <3>1. SUFFICES ASSUME k \in 1..(n - 1) PROVE FALSE
            OBVIOUS
        <3>2. t[k] = t[n] /\ k # n
            BY <1>7, <1>9, <2>2, <3>1
        <3> QED BY <1>2, <1>7, <3>2
    <2> QED BY <1>2, <1>7, <2>1, <2>3, <2>4
<1>11. Before(t[n], s[n]) /\ Before(s[n], t[n])
    BY <1>3, <1>7, <1>8, <1>9, <1>10
<1> QED BY <1>2, <1>4, <1>7, <1>11

\* A finite set has an order by text: each member comes after as many as precede it.
LEMMA OrderExists ==
    ASSUME NEW S \in SUBSET Validators, IsFiniteSet(S)
    PROVE  getValSet(S) # {}
<1> DEFINE N == Cardinality(S)
           Before(u, w) == TextBefore(AddressText(u), AddressText(w))
           Ahead(w) == {u \in S : Before(u, w)}
           position == [w \in S |-> Cardinality(Ahead(w)) + 1]
<1>1. N \in Nat
    BY FS_CardinalityType
<1>2. \A u, w \in S : u # w => Before(u, w) \/ Before(w, u)
    BY TextsTotal
<1>3. \A w \in S : ~Before(w, w)
    BY TextsIrreflexive
<1>4. \A u, v, w \in S : Before(u, v) /\ Before(v, w) => Before(u, w)
    BY TextsTransitive
<1> HIDE DEF N, Before
<1>5. ASSUME NEW u \in S, NEW w \in S, Before(u, w)
      PROVE  position[u] < position[w]
    <2>1. Ahead(u) \subseteq Ahead(w) /\ Ahead(u) # Ahead(w)
        BY <1>3, <1>4, <1>5
    <2>2. IsFiniteSet(Ahead(w))
        BY FS_Subset
    <2>3. /\ Cardinality(Ahead(u)) <= Cardinality(Ahead(w))
          /\ Cardinality(Ahead(u)) # Cardinality(Ahead(w))
        <3> HIDE DEF Ahead
        <3> QED BY <2>1, <2>2, FS_Subset
    <2>4. IsFiniteSet(Ahead(u)) /\ Cardinality(Ahead(u)) \in Nat /\ Cardinality(Ahead(w)) \in Nat
        <3> HIDE DEF Ahead
        <3> QED BY <2>1, <2>2, FS_Subset, FS_CardinalityType
    <2> QED BY <2>3, <2>4
<1>6. \A w \in S : position[w] \in 1..N
    <2> TAKE w \in S
    <2>1. Ahead(w) \subseteq S /\ Ahead(w) # S
        BY <1>3
    <2>2. IsFiniteSet(Ahead(w)) /\ Cardinality(Ahead(w)) <= N /\ Cardinality(Ahead(w)) # N
        <3> HIDE DEF Ahead
        <3> QED BY <2>1, FS_Subset DEF N
    <2>3. Cardinality(Ahead(w)) \in Nat
        <3> HIDE DEF Ahead
        <3> QED BY <2>2, FS_CardinalityType
    <2> QED BY <1>1, <2>2, <2>3
<1> HIDE DEF position
<1>7. position \in [S -> 1..N]
    BY <1>6 DEF position
<1>8. position \in Injection(S, 1..N)
    <2>1. \A u, w \in S : u # w => position[u] # position[w]
        BY <1>1, <1>2, <1>5, <1>7
    <2> QED BY <1>7, <2>1 DEF Injection, IsInjective
<1>9. position \in Surjection(S, 1..N)
    <2>1. IsFiniteSet(1..N) /\ Cardinality(1..N) = N
        BY <1>1, FS_Interval
    <2> QED BY <1>8, <2>1, FS_Injection DEF N
<1>10. \A k \in 1..N : \E w \in S : position[w] = k
    BY <1>9 DEF Surjection
<1> DEFINE s == [k \in 1..N |-> CHOOSE w \in S : position[w] = k]
<1>11. /\ s \in [1..N -> S] /\ DOMAIN s = 1..N
       /\ \A k \in 1..N : position[s[k]] = k
    BY <1>10
<1>12. \A j, k \in 1..N : j # k => s[j] # s[k]
    BY <1>11
<1>13. \A j, k \in 1..N : j < k => Before(s[j], s[k])
    <2> HIDE DEF s
    <2> TAKE j, k \in 1..N
    <2> HAVE j < k
    <2>1. s[j] \in S /\ s[k] \in S /\ position[s[j]] = j /\ position[s[k]] = k
        BY <1>11
    <2>2. ~Before(s[k], s[j])
        BY <1>1, <1>5, <2>1
    <2> QED BY <1>2, <1>12, <2>1, <2>2
<1> HIDE DEF s
<1>14. s \in Orders(S)
    BY <1>11, <1>12 DEF Orders, N
<1>15. s \in getValSet(S)
    BY <1>11, <1>13, <1>14 DEF getValSet, Before
<1> QED BY <1>15

\* Of all the answers the node may give for one set, getValSet makes one order:
\* every start of the program, and every handler, takes the same turns.
THEOREM OneOrder ==
    ASSUME NEW S \in SUBSET Validators, IsFiniteSet(S)
    PROVE  \E s \in Orders(S) : getValSet(S) = {s}
<1>1. PICK s : s \in getValSet(S)
    BY OrderExists
<1>2. s \in Orders(S) /\ getValSet(S) = {s}
    BY <1>1, OrderIsUnique DEF getValSet
<1> QED BY <1>2
-----------------------------------------------------------------------------
(* The turns                                                               *)

\* The recursive definition of Values has a solution, so that it means what it says.
LEMMA ValuesDefined ==
    ASSUME NEW w \in Validators
    PROVE  /\ Values(w)[0] = 0
           /\ \A k \in 1..Len(Digits[w]) : Values(w)[k] = 22 * Values(w)[k - 1] + Rank(w, k)
<1> DEFINE L == Len(Digits[w])
           Step(f, k) == IF k = 0 THEN 0 ELSE 22 * f[k - 1] + Rank(w, k)
           P(n) == \E f : f = [k \in 0..n |-> Step(f, k)]
           T == {n \in Nat : ~P(n)}
<1>1. L \in Nat
    BY TextIsNumbers
<1>2. T = {}
    <2> SUFFICES ASSUME T # {} PROVE FALSE
        OBVIOUS
    <2>1. PICK n \in T : \A m \in T : n <= m
        <3>1. T \in SUBSET Nat
            OBVIOUS
        <3> HIDE DEF T
        <3> QED BY <3>1, LeastNumber
    <2>2. n \in Nat /\ ~P(n)
        BY <2>1
    <2>3. CASE n = 0
        <3> DEFINE f == [k \in 0..0 |-> 0]
        <3>1. f = [k \in 0..0 |-> Step(f, k)]
            OBVIOUS
        <3> QED BY <2>2, <2>3, <3>1
    <2>4. CASE n # 0
        <3>1. n - 1 \in Nat /\ n - 1 \notin T
            <4>1. n \in Nat
                BY <2>2
            <4> HIDE DEF P, T
            <4> QED BY <2>1, <2>4, <4>1
        <3>2. PICK f : f = [k \in 0..(n - 1) |-> Step(f, k)]
            <4>1. P(n - 1)
                <5> HIDE DEF P
                <5> QED BY <3>1
            <4> QED BY <4>1
        <3> DEFINE g == [k \in 0..n |-> IF k = n THEN Step(f, n) ELSE f[k]]
        <3>3. \A k \in 0..n : g[k] = Step(g, k)
            <4> TAKE k \in 0..n
            <4>1. CASE k = n
                BY <2>2, <2>4, <4>1
            <4>2. CASE k # n
                <5>1. k \in 0..(n - 1) /\ g[k] = f[k]
                    BY <2>2, <4>2
                <5>2. f[k] = Step(f, k)
                    BY <3>2, <5>1
                <5>3. k # 0 => g[k - 1] = f[k - 1]
                    <6> HAVE k # 0
                    <6>1. k - 1 \in 0..n /\ k - 1 # n
                        BY <2>2, <4>2
                    <6> QED BY <6>1
                <5> QED BY <5>1, <5>2, <5>3
            <4> QED BY <4>1, <4>2
        <3>4. g = [k \in 0..n |-> Step(g, k)]
            <4>1. g = [k \in 0..n |-> g[k]]
                OBVIOUS
            <4> HIDE DEF g, Step
            <4> QED BY <3>3, <4>1
        <3> HIDE DEF g
        <3> QED BY <2>2, <3>4
    <2> QED BY <2>3, <2>4
<1>3. P(L)
    BY <1>1, <1>2
<1>4. Values(w) = CHOOSE f : f = [k \in 0..L |-> Step(f, k)]
    BY DEF Values
<1>5. Values(w) = [k \in 0..L |-> Step(Values(w), k)]
    <2> HIDE DEF Step, L
    <2> QED BY <1>3, <1>4
<1>6. \A k \in 0..L : Values(w)[k] = Step(Values(w), k)
    <2> HIDE DEF Step, L
    <2> QED BY <1>5
<1> QED BY <1>1, <1>6
\* Ranks compare as the character codes do.
LEMMA RanksAsCodes ==
    ASSUME NEW u \in Validators, NEW w \in Validators, NEW k \in 1..Len(Digits[u])
    PROVE  /\ Rank(u, k) \in 0..21 /\ Rank(w, k) \in 0..21
           /\ AddressText(u)[k] = AddressText(w)[k] => Rank(u, k) = Rank(w, k)
           /\ AddressText(u)[k] < AddressText(w)[k] => Rank(u, k) < Rank(w, k)
<1> DEFINE d == Digits[u][k]
           e == Digits[w][k]
           x == Capital[u][k]
           y == Capital[w][k]
<1>1. /\ Digits[u] \in Seq(0..15) /\ Digits[w] \in Seq(0..15)
      /\ Capital[u] \in [DOMAIN Digits[u] -> BOOLEAN]
      /\ Capital[w] \in [DOMAIN Digits[w] -> BOOLEAN]
      /\ Len(Digits[w]) = Len(Digits[u])
    BY AddressesAssumption
<1>2. k \in DOMAIN Digits[u] /\ k \in DOMAIN Digits[w]
    BY <1>1
<1>3. /\ d \in 0..15 /\ e \in 0..15
      /\ x \in BOOLEAN /\ y \in BOOLEAN
    <2>1. d \in 0..15 /\ e \in 0..15
        BY <1>1, <1>2
    <2>2. x \in BOOLEAN /\ y \in BOOLEAN
        BY <1>1, <1>2
    <2> QED BY <2>1, <2>2
<1>4. AddressText(u)[k] = CharCode(d, x) /\ AddressText(w)[k] = CharCode(e, y)
    BY <1>2 DEF AddressText
<1>5. /\ Rank(u, k) = IF d < 10 \/ x THEN d ELSE d + 6
      /\ Rank(w, k) = IF e < 10 \/ y THEN e ELSE e + 6
    BY DEF Rank
<1> HIDE DEF d, e, x, y
<1> QED BY <1>3, <1>4, <1>5 DEF CharCode

\* The place of an address is a number.
LEMMA PlaceIsNumber ==
    ASSUME NEW w \in Validators
    PROVE  Place(w) \in Nat
<1> DEFINE L == Len(Digits[w])
           f == Values(w)
           Bad == {k \in 0..L : f[k] \notin Nat}
<1>1. L \in Nat
    BY TextIsNumbers
<1>2. /\ f[0] = 0 /\ \A k \in 1..L : f[k] = 22 * f[k - 1] + Rank(w, k)
      /\ \A k \in 1..L : Rank(w, k) \in 0..21
    BY <1>1, ValuesDefined, RanksAsCodes
<1> HIDE DEF L, f
<1>3. Bad = {}
    <2> SUFFICES ASSUME Bad # {} PROVE FALSE
        OBVIOUS
    <2>1. PICK n \in Bad : \A m \in Bad : n <= m
        <3>1. Bad \in SUBSET Nat
            BY <1>1
        <3> HIDE DEF Bad
        <3> QED BY <3>1, LeastNumber
    <2>2. n \in 1..L /\ f[n] \notin Nat
        BY <1>1, <1>2, <2>1
    <2>3. n - 1 \in 0..L /\ n - 1 < n
        BY <1>1, <2>2
    <2>4. n - 1 \notin Bad
        <3> HIDE DEF Bad
        <3> QED BY <1>1, <2>1, <2>2, <2>3
    <2>5. f[n - 1] \in Nat /\ Rank(w, n) \in 0..21 /\ f[n] = 22 * f[n - 1] + Rank(w, n)
        BY <1>2, <2>2, <2>3, <2>4
    <2> QED BY <2>2, <2>5
<1> QED BY <1>1, <1>3 DEF Place, L, f

\* An address whose text comes first has the smaller place: where texts differ first,
\* the difference of the ranks outweighs all that may follow.
LEMMA PlacesAsTexts ==
    ASSUME NEW u \in Validators, NEW w \in Validators,
           TextBefore(AddressText(u), AddressText(w))
    PROVE  Place(u) < Place(w)
<1> DEFINE L == Len(Digits[u])
           f == Values(u)
           g == Values(w)
<1>1. L \in Nat /\ Len(Digits[w]) = L /\ DOMAIN AddressText(u) = 1..L
    BY TextIsNumbers, AddressesAssumption
<1>2. PICK a \in 1..L : /\ AddressText(u)[a] < AddressText(w)[a]
                        /\ \A j \in 1..(a - 1) : AddressText(u)[j] = AddressText(w)[j]
    BY <1>1 DEF TextBefore
<1>3. /\ f[0] = 0 /\ \A k \in 1..L : f[k] = 22 * f[k - 1] + Rank(u, k)
      /\ g[0] = 0 /\ \A k \in 1..L : g[k] = 22 * g[k - 1] + Rank(w, k)
    BY <1>1, ValuesDefined
<1>4. /\ \A k \in 1..L : Rank(u, k) \in 0..21 /\ Rank(w, k) \in 0..21
      /\ \A k \in 1..(a - 1) : Rank(u, k) = Rank(w, k)
      /\ Rank(u, a) < Rank(w, a)
    <2>1. \A k \in 1..(a - 1) : k \in 1..L
        BY <1>1
    <2> QED BY <1>2, <2>1, RanksAsCodes
<1> DEFINE Good(k) == /\ f[k] \in Nat /\ g[k] \in Nat
                      /\ k < a => f[k] = g[k]
                      /\ k >= a => f[k] < g[k]
           Bad == {k \in 0..L : ~Good(k)}
<1> HIDE DEF L, f, g
<1>5. Bad = {}
    <2> SUFFICES ASSUME Bad # {} PROVE FALSE
        OBVIOUS
    <2>1. PICK n \in Bad : \A m \in Bad : n <= m
        <3>1. Bad \in SUBSET Nat
            BY <1>1
        <3> HIDE DEF Bad
        <3> QED BY <3>1, LeastNumber
    <2>2. n \in 0..L /\ ~Good(n)
        BY <2>1
    <2>3. n # 0
        BY <1>1, <1>3, <2>2
    <2>4. n - 1 \in 0..L /\ Good(n - 1)
        <3>1. n - 1 \in 0..L /\ n - 1 < n
            BY <1>1, <2>2, <2>3
        <3>2. n - 1 \notin Bad
            <4> HIDE DEF Bad
            <4> QED BY <1>1, <2>1, <2>2, <3>1
        <3> HIDE DEF Good
        <3> QED BY <3>1, <3>2
    <2>5. /\ n \in 1..L /\ f[n] = 22 * f[n - 1] + Rank(u, n)
          /\ g[n] = 22 * g[n - 1] + Rank(w, n)
          /\ Rank(u, n) \in 0..21 /\ Rank(w, n) \in 0..21
        BY <1>1, <1>3, <1>4, <2>2, <2>3
    <2>6. f[n - 1] \in Nat /\ g[n - 1] \in Nat
        BY <2>4
    <2> DEFINE x == f[n - 1]
               y == g[n - 1]
               p == Rank(u, n)
               q == Rank(w, n)
    <2>7. CASE n < a
        <3>1. x = y /\ p = q
            BY <1>1, <1>4, <2>4, <2>5, <2>7
        <3>2. f[n] = 22 * x + p /\ g[n] = 22 * x + p
            BY <2>5, <3>1
        <3>3. 22 * x + p \in Nat
            BY <2>5, <2>6
        <3>4. f[n] = g[n] /\ f[n] \in Nat /\ g[n] \in Nat
            BY <3>2, <3>3
        <3> QED BY <1>1, <2>2, <2>5, <2>7, <3>4
    <2>8. CASE n >= a
        <3>1. \/ x = y /\ p < q
              \/ x + 1 <= y
            <4>1. CASE n = a
                BY <1>1, <1>4, <2>4, <2>5, <4>1
            <4>2. CASE n > a
                BY <1>1, <2>4, <2>5, <4>2
            <4> QED BY <1>1, <2>5, <2>8, <4>1, <4>2
        <3>2. x \in Nat /\ y \in Nat /\ p \in 0..21 /\ q \in 0..21
            BY <2>5, <2>6
        <3> HIDE DEF x, y, p, q
        <3>3. 22 * x + p < 22 * y + q /\ 22 * x + p \in Nat /\ 22 * y + q \in Nat
            BY <3>1, <3>2
        <3>4. f[n] < g[n] /\ f[n] \in Nat /\ g[n] \in Nat
            BY <2>5, <3>3 DEF x, y, p, q
        <3> QED BY <1>1, <2>2, <2>5, <2>8, <3>4
    <2> QED BY <1>1, <2>5, <2>7, <2>8
<1>6. Good(L)
    BY <1>1, <1>5
<1>7. Place(u) = f[L] /\ Place(w) = g[L]
    BY <1>1 DEF Place, L, f, g
<1> QED BY <1>1, <1>2, <1>6, <1>7

\* In a set in the order of getValSet, NextProposer finds the one whose turn follows,
\* wherever in the set the author is.
THEOREM NextProposerFollows ==
    ASSUME NEW S \in SUBSET Validators, IsFiniteSet(S), NEW s \in getValSet(S), NEW author \in S
    PROVE  TurnFollows(S, author, NextProposer(s, author))
<1> DEFINE N == Cardinality(S)
           Later == {w \in S : Place(w) > Place(author)}
<1>1. /\ N \in Nat /\ s \in [1..N -> S]
      /\ \A j, k \in 1..N : j # k => s[j] # s[k]
      /\ \A w \in S : \E k \in 1..N : s[k] = w
    BY OrderIsOnto DEF getValSet
<1> HIDE DEF N
<1>2. Len(s) = N /\ DOMAIN s = 1..N
    BY <1>1
<1>3. ASSUME NEW j \in 1..N, NEW k \in 1..N, j < k
      PROVE  Place(s[j]) < Place(s[k])
    <2>1. TextBefore(AddressText(s[j]), AddressText(s[k]))
        BY <1>2, <1>3 DEF getValSet
    <2> QED BY <1>1, <2>1, PlacesAsTexts
<1>4. PICK j \in 1..N : s[j] = author
    BY <1>1
<1>5. {k \in DOMAIN s : s[k] = author} = {j}
    BY <1>1, <1>2, <1>4
<1>6. NextProposer(s, author) = s[(j % N) + 1]
    BY <1>2, <1>5 DEF NextProposer
<1>7. \A k \in 1..N : Place(s[k]) \in Nat
    BY <1>1, PlaceIsNumber
<1>8. \A i, k \in 1..N : Place(s[i]) < Place(s[k]) <=> i < k
    <2> TAKE i, k \in 1..N
    <2>1. i \in Int /\ k \in Int /\ (i < k \/ i = k \/ k < i)
        BY <1>1
    <2>2. CASE i < k
        BY <1>3, <2>2
    <2>3. CASE i = k
        BY <1>7, <2>1, <2>3
    <2>4. CASE k < i
        <3>1. Place(s[k]) < Place(s[i])
            BY <1>3, <2>4
        <3> QED BY <1>7, <2>1, <2>4, <3>1
    <2> QED BY <2>1, <2>2, <2>3, <2>4
<1>9. Later = {s[k] : k \in {k \in 1..N : j < k}}
    <2>1. \A w \in S : (w \in Later) <=> Place(author) < Place(w)
        BY <1>1, <1>4, <1>7
    <2>2. \A k \in 1..N : s[k] \in Later <=> j < k
        BY <1>1, <1>4, <1>8, <2>1
    <2> HIDE DEF Later
    <2>3. Later \subseteq S
        BY DEF Later
    <2> QED BY <1>1, <2>2, <2>3
<1> HIDE DEF Later
<1>10. CASE j = N
    <2>1. Later = {} /\ (j % N) + 1 = 1 /\ 1 \in 1..N
        BY <1>1, <1>9, <1>10
    <2>2. \A w \in S : Place(s[1]) <= Place(w)
        <3> TAKE w \in S
        <3>1. PICK k \in 1..N : s[k] = w
            BY <1>1
        <3>2. ~(Place(s[k]) < Place(s[1]))
            BY <1>8, <2>1
        <3> QED BY <1>7, <2>1, <3>1, <3>2
    <2> QED BY <1>1, <1>6, <2>1, <2>2 DEF TurnFollows, Later
<1>11. CASE j # N
    <2>1. (j % N) + 1 = j + 1 /\ j + 1 \in 1..N /\ j < j + 1
        BY <1>1, <1>11
    <2>2. s[j + 1] \in Later
        BY <1>9, <2>1
    <2>3. \A w \in Later : Place(s[j + 1]) <= Place(w)
        <3> TAKE w \in Later
        <3>1. PICK k \in 1..N : s[k] = w /\ j < k
            BY <1>9
        <3>2. ~(Place(s[k]) < Place(s[j + 1]))
            BY <1>8, <2>1, <3>1
        <3> QED BY <1>7, <2>1, <3>1, <3>2
    <2> QED BY <1>6, <2>1, <2>2, <2>3 DEF TurnFollows, Later
<1> QED BY <1>10, <1>11

=============================================================================
