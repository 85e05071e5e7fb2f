----------------------- MODULE UnblindedPaymentProofs -----------------------
(***************************************************************************)
(* What a contribution votes with and spends: theorems about the payments  *)
(* of UnblindedContribution, for any constants.                            *)
(***************************************************************************)
EXTENDS UnblindedContributionProofs, FunctionTheorems

(***************************************************************************)
(* The tokens a loop takes until their value reaches an amount             *)
(***************************************************************************)
Value(S) == TokenValue * Cardinality(S)

Before(S, t) == {u \in S : u < t}

\* Natural numbers are well ordered: a set of tokens has a first and a last one.
LEMMA NatWellFounded ==
  IsWellFoundedOn({x \in Nat \X Nat : x[1] < x[2]}, Nat)
<1>1. OpToRel(<, Nat) = {x \in Nat \X Nat : x[1] < x[2]}
  BY DEF OpToRel
<1> QED
  BY <1>1, NatLessThanWellFounded

LEMMA FirstNumber ==
  ASSUME NEW S \in SUBSET Nat, S # {}
  PROVE  \E n \in S : \A m \in S : n <= m
<1>1. PICK n \in S : \A m \in S : ~(<<m, n>> \in {x \in Nat \X Nat : x[1] < x[2]})
  BY NatWellFounded, WFMin
<1>2. ASSUME NEW m \in S, m < n PROVE FALSE
  <2>1. <<m, n>> \in {x \in Nat \X Nat : x[1] < x[2]}
    BY <1>2
  <2> QED
    BY <1>1, <2>1
<1>3. \A m \in S : n <= m
  BY <1>2
<1> QED
  BY <1>3

LEMMA FirstToken ==
  ASSUME NEW S \in SUBSET Tokens, S # {}
  PROVE  \E t \in S : \A u \in S : t <= u
BY FirstNumber DEF Tokens

LEMMA LastToken ==
  ASSUME NEW S \in SUBSET Tokens, S # {}
  PROVE  \E t \in S : \A u \in S : u <= t
<1> DEFINE T == {NumTokens - t : t \in S}
<1>1. T \subseteq Nat /\ T # {}
  <2>1. \A t \in S : NumTokens - t \in Nat
    BY ConstantsAssumption DEF Tokens
  <2> QED
    BY <2>1
<1> HIDE DEF T
<1>2. PICK m \in T : \A n \in T : m <= n
  BY <1>1, FirstNumber
<1>3. PICK t \in S : m = NumTokens - t
  BY DEF T
<1>4. ASSUME NEW u \in S PROVE u <= t
  <2>1. NumTokens - u \in T
    BY DEF T
  <2>2. m <= NumTokens - u
    BY <1>2, <2>1
  <2> QED
    BY <1>3, <2>2, ConstantsAssumption DEF Tokens
<1> QED
  BY <1>4

LEMMA BeforeType ==
  ASSUME NEW S \in SUBSET Tokens, NEW t \in Tokens
  PROVE  /\ Before(S, t) \in SUBSET Tokens
         /\ Cardinality(Before(S, t)) \in Nat
BY TokenSets DEF Before

LEMMA TakeUntilIs ==
  ASSUME NEW S \in SUBSET Tokens, NEW a
  PROVE  TakeUntil(S, a) = {t \in S : TokenValue * Cardinality(Before(S, t)) < a}
BY DEF TakeUntil, Before

LEMMA TokenProducts ==
  /\ TokenValue \in Nat /\ TokenValue > 0
  /\ \A m, n \in Nat : TokenValue * m \in Nat
                       /\ (m <= n => TokenValue * m <= TokenValue * n)
<1>1. TokenValue \in Nat /\ TokenValue > 0
  BY ConstantsAssumption
<1>2. ASSUME NEW m \in Nat, NEW n \in Nat
      PROVE  TokenValue * m \in Nat /\ (m <= n => TokenValue * m <= TokenValue * n)
  BY <1>1
<1> QED
  BY <1>1, <1>2

\* A list worth the amount gives tokens worth the amount.
LEMMA TakeEnough ==
  ASSUME NEW S \in SUBSET Tokens, NEW a \in Nat, Value(S) >= a
  PROVE  Value(TakeUntil(S, a)) >= a
<1> DEFINE T == TakeUntil(S, a)
<1>1. CASE T = S
  BY <1>1
<1>2. CASE T # S
  <2>1. T \in SUBSET S
    BY DEF TakeUntil
  <2>2. PICK t \in S \ T : \A u \in S \ T : t <= u
    BY <1>2, <2>1, FirstToken
  <2>3. Before(S, t) \subseteq T
    <3> HIDE DEF T
    <3>1. S \subseteq Int
      BY DEF Tokens
    <3>2. ASSUME NEW u \in S, u < t PROVE u \in T
      <4>1. u \in S \ T => t <= u
        BY <2>2
      <4>2. u \in Int /\ t \in Int
        BY <2>2, <3>1
      <4>3. ~(t <= u)
        BY <3>2, <4>2
      <4> QED
        BY <4>1, <4>3
    <3> QED
      BY <3>2 DEF Before
  <2>4. TokenValue * Cardinality(Before(S, t)) >= a
    <3>1. TokenValue * Cardinality(Before(S, t)) \in Nat
      BY BeforeType, TokenProducts
    <3> QED
      BY <2>2, <3>1, TakeUntilIs
  <2>5. Cardinality(Before(S, t)) <= Cardinality(T)
    <3>1. IsFiniteSet(T)
      BY <2>1, TokenSets
    <3> QED
      BY <2>3, <3>1, FS_Subset
  <2>6. Cardinality(Before(S, t)) \in Nat /\ Cardinality(T) \in Nat
    BY <2>1, TokenSets, BeforeType
  <2>7. Value(T) >= TokenValue * Cardinality(Before(S, t)) /\ Value(T) \in Nat
    BY <2>5, <2>6, TokenProducts DEF Value
  <2>8. TokenValue * Cardinality(Before(S, t)) \in Nat
    BY <2>6, TokenProducts
  <2> QED
    <3> DEFINE x == TokenValue * Cardinality(Before(S, t))
               y == Value(T)
    <3>1. x \in Nat /\ y \in Nat /\ y >= x /\ x >= a
      BY <2>4, <2>7, <2>8
    <3> HIDE DEF x, y
    <3>2. y >= a
      BY <3>1
    <3> QED
      BY <3>2 DEF y
<1> QED
  BY <1>1, <1>2

\* It takes no token more than needed.
LEMMA TakeAtMost ==
  ASSUME NEW S \in SUBSET Tokens, NEW a \in Nat, TakeUntil(S, a) # {}
  PROVE  TokenValue * (Cardinality(TakeUntil(S, a)) - 1) < a
<1> DEFINE T == TakeUntil(S, a)
<1>1. T \in SUBSET S /\ T \in SUBSET Tokens
  BY DEF TakeUntil
<1>2. PICK t \in T : \A u \in T : u <= t
  BY <1>1, LastToken
<1>3. T \ {t} \subseteq Before(S, t)
  BY <1>1, <1>2 DEF Before, Tokens
<1>4. TokenValue * Cardinality(Before(S, t)) < a
  BY <1>2, TakeUntilIs
<1>5. Cardinality(T \ {t}) = Cardinality(T) - 1 /\ Cardinality(T \ {t}) \in Nat
  BY <1>1, <1>2, TokenSets, FS_RemoveElement
<1>6. Cardinality(T \ {t}) <= Cardinality(Before(S, t)) /\ Cardinality(Before(S, t)) \in Nat
  BY <1>1, <1>2, <1>3, TokenSets, FS_Subset, BeforeType
<1>7. TokenValue * Cardinality(T \ {t}) <= TokenValue * Cardinality(Before(S, t))
  BY <1>5, <1>6, TokenProducts
<1>8. TokenValue * Cardinality(T \ {t}) \in Nat /\ TokenValue * Cardinality(Before(S, t)) \in Nat
  BY <1>5, <1>6, TokenProducts
<1> HIDE DEF T
<1>9. TokenValue * Cardinality(T \ {t}) < a
  BY <1>4, <1>7, <1>8
<1> QED
  BY <1>5, <1>9 DEF T

\* It takes the whole of a list whose tokens are all needed.
LEMMA TakeAll ==
  ASSUME NEW S \in SUBSET Tokens, NEW a \in Nat,
         TokenValue * (Cardinality(S) - 1) < a
  PROVE  TakeUntil(S, a) = S
<1>1. ASSUME NEW t \in S PROVE TokenValue * Cardinality(Before(S, t)) < a
  <2>1. Before(S, t) \in SUBSET (S \ {t})
    BY DEF Before, Tokens
  <2>2. /\ Cardinality(S \ {t}) = Cardinality(S) - 1 /\ Cardinality(S \ {t}) \in Nat
        /\ IsFiniteSet(S \ {t})
    BY TokenSets, FS_RemoveElement
  <2>3. Cardinality(Before(S, t)) <= Cardinality(S) - 1 /\ Cardinality(Before(S, t)) \in Nat
    BY <2>1, <2>2, FS_Subset, BeforeType
  <2>4. /\ TokenValue * Cardinality(Before(S, t)) <= TokenValue * (Cardinality(S) - 1)
        /\ TokenValue * Cardinality(Before(S, t)) \in Nat
        /\ TokenValue * (Cardinality(S) - 1) \in Nat
    BY <2>2, <2>3, TokenProducts
  <2> QED
    BY <2>4
<1> QED
  BY <1>1, TakeUntilIs

\* The number of tokens TokensFor gives is the least whose value reaches the amount.
LEMMA TokensForIs ==
  ASSUME NEW n \in Nat, NEW a \in Nat
  PROVE  /\ TokensFor(a) \in Nat
         /\ TokenValue * (n - 1) < a <=> n <= TokensFor(a)
<1> DEFINE q == (a + TokenValue - 1) \div TokenValue
           r == (a + TokenValue - 1) % TokenValue
<1>1. TokenValue \in Nat /\ TokenValue > 0
  BY ConstantsAssumption
<1>2. /\ q \in Nat /\ r \in 0..TokenValue - 1
      /\ a + TokenValue - 1 = TokenValue * q + r
  BY <1>1
<1> HIDE DEF q, r
<1>3. CASE n <= q
  <2>1. TokenValue * n <= TokenValue * q
    BY <1>2, <1>3, TokenProducts
  <2>2. TokenValue * (n - 1) = TokenValue * n - TokenValue
    BY <1>1
  <2>3. TokenValue * n \in Nat /\ TokenValue * q \in Nat
    BY <1>2, TokenProducts
  <2>4. TokenValue * (n - 1) < a
    BY <1>1, <1>2, <2>1, <2>2, <2>3
  <2> QED
    BY <1>2, <1>3, <2>4 DEF TokensFor, q
<1>4. CASE ~(n <= q)
  <2>1. q + 1 <= n
    BY <1>2, <1>4
  <2>2. TokenValue * (q + 1) <= TokenValue * n
    BY <1>2, <2>1, TokenProducts
  <2>3. /\ TokenValue * (n - 1) = TokenValue * n - TokenValue
        /\ TokenValue * (q + 1) = TokenValue * q + TokenValue
    BY <1>1, <1>2
  <2>4. TokenValue * n \in Nat /\ TokenValue * q \in Nat
    BY <1>2, TokenProducts
  <2>5. ~(TokenValue * (n - 1) < a)
    BY <1>1, <1>2, <2>2, <2>3, <2>4
  <2> QED
    BY <1>2, <1>4, <2>5 DEF TokensFor, q
<1> QED
  BY <1>3, <1>4

LEMMA TakenWithinTokensFor ==
  ASSUME NEW S \in SUBSET Tokens, NEW a \in Nat
  PROVE  Cardinality(TakeUntil(S, a)) <= TokensFor(a)
<1>1. TakeUntil(S, a) \in SUBSET Tokens
  BY DEF TakeUntil
<1>2. Cardinality(TakeUntil(S, a)) \in Nat /\ TokensFor(a) \in Nat
  BY <1>1, TokenSets, TokensForIs
<1>3. CASE TakeUntil(S, a) = {}
  BY <1>2, <1>3, FS_EmptySet
<1>4. CASE TakeUntil(S, a) # {}
  BY <1>2, <1>4, TakeAtMost, TokensForIs
<1> QED
  BY <1>3, <1>4

\* Tokens that are not more than an amount needs are taken together for it.
LEMMA TakeAllWithin ==
  ASSUME NEW S \in SUBSET Tokens, NEW a \in Nat, Cardinality(S) <= TokensFor(a)
  PROVE  TakeUntil(S, a) = S
BY TokenSets, TokensForIs, TakeAll

\* A list that is not worth the amount is taken as a whole.
LEMMA TakeRest ==
  ASSUME NEW S \in SUBSET Tokens, NEW a \in Nat, Value(S) < a
  PROVE  TakeUntil(S, a) = S
<1>1. Cardinality(S) \in Nat
  BY TokenSets
<1>2. TokenValue * (Cardinality(S) - 1) <= Value(S)
  <2>1. TokenValue * (Cardinality(S) - 1) = Value(S) - TokenValue /\ Value(S) \in Int
    BY <1>1, TokenProducts DEF Value
  <2> QED
    BY <2>1, TokenProducts
<1>3. TokenValue * (Cardinality(S) - 1) \in Int /\ Value(S) \in Int
  BY <1>1, TokenProducts DEF Value
<1>4. TokenValue * (Cardinality(S) - 1) < a
  <2> DEFINE x == TokenValue * (Cardinality(S) - 1)
  <2>1. x \in Int /\ x <= Value(S)
    BY <1>2, <1>3
  <2> HIDE DEF x
  <2>2. x < a
    BY <1>3, <2>1
  <2> QED
    BY <2>2 DEF x
<1> QED
  BY <1>4, TakeAll

LEMMA ValueType ==
  ASSUME NEW S \in SUBSET Tokens
  PROVE  Value(S) \in Nat
BY TokenSets, TokenProducts DEF Value

LEMMA ValueOfUnion ==
  ASSUME NEW S \in SUBSET Tokens, NEW T \in SUBSET Tokens, S \intersect T = {}
  PROVE  Value(S \union T) = Value(S) + Value(T)
<1>1. /\ Cardinality(S) \in Nat /\ Cardinality(T) \in Nat
      /\ IsFiniteSet(S) /\ IsFiniteSet(T)
  BY TokenSets
<1>2. Cardinality(S \union T) = Cardinality(S) + Cardinality(T)
  <2>1. Cardinality(S \union T) = Cardinality(S) + Cardinality(T) - Cardinality(S \intersect T)
    BY <1>1, FS_Union
  <2>2. Cardinality(S \intersect T) = 0
    BY FS_EmptySet
  <2> QED
    BY <1>1, <2>1, <2>2
<1> QED
  BY <1>1, <1>2, TokenProducts DEF Value

LEMMA ValueGrows ==
  ASSUME NEW T \in SUBSET Tokens, NEW S \in SUBSET T
  PROVE  Value(S) <= Value(T)
<1>1. Cardinality(S) <= Cardinality(T) /\ Cardinality(S) \in Nat /\ Cardinality(T) \in Nat
  BY TokenSets, FS_Subset
<1> QED
  BY <1>1, TokenProducts DEF Value


(***************************************************************************)
(* What the publishers of a contribution cost: the units of the amount     *)
(* that are meant for them, counted.                                       *)
(***************************************************************************)
Units(a, r, S) == {u \in S \X (1..a) : u[2] <= r[u[1]].total}
Cost(a, r, S) == Cardinality(Units(a, r, S))

LEMMA CostType ==
  ASSUME NEW a \in Nat, NEW r, NEW S \in SUBSET Publishers
  PROVE  IsFiniteSet(Units(a, r, S)) /\ Cost(a, r, S) \in Nat
<1>1. IsFiniteSet(S) /\ IsFiniteSet(1..a)
  <2>1. IsFiniteSet(Publishers)
    BY ConstantsAssumption, FS_Interval DEF Publishers
  <2> QED
    BY <2>1, FS_Subset, FS_Interval
<1>2. IsFiniteSet(S \X (1..a))
  BY <1>1, FS_Product
<1>3. Units(a, r, S) \in SUBSET (S \X (1..a))
  BY DEF Units
<1>4. IsFiniteSet(Units(a, r, S))
  BY <1>2, <1>3, FS_Subset
<1> QED
  BY <1>4, FS_CardinalityType DEF Cost

LEMMA CostOfOneMore ==
  ASSUME NEW a \in Nat, NEW r \in [Publishers -> Row], NEW S \in SUBSET Publishers,
         NEW p \in Publishers
  PROVE  Cost(a, r, S \union {p}) <= Cost(a, r, S) + r[p].total
<1> DEFINE T == Units(a, r, {p})
<1>1. Units(a, r, S \union {p}) = Units(a, r, S) \union T
  BY DEF Units
<1>2. r[p].total \in Nat
  BY DEF Row
<1>3. Cardinality({p} \X (1..r[p].total)) = r[p].total /\ IsFiniteSet({p} \X (1..r[p].total))
  <2>1. IsFiniteSet({p}) /\ Cardinality({p}) = 1
    BY FS_Singleton
  <2>2. IsFiniteSet(1..r[p].total) /\ Cardinality(1..r[p].total) = r[p].total
    BY <1>2, FS_Interval, SMTT(30)
  <2>3. /\ Cardinality({p} \X (1..r[p].total)) = 1 * r[p].total
        /\ IsFiniteSet({p} \X (1..r[p].total))
    BY <2>1, <2>2, FS_Product, ZenonT(30)
  <2> QED
    BY <1>2, <2>3
<1>4. T \in SUBSET ({p} \X (1..r[p].total))
  BY <1>2 DEF Units
<1>5. Cardinality(T) <= r[p].total
  BY <1>3, <1>4, FS_Subset
<1>6. /\ IsFiniteSet(T) /\ Cardinality(T) \in Nat
      /\ IsFiniteSet(Units(a, r, S)) /\ Cost(a, r, S) \in Nat
  BY CostType DEF Cost
<1>7. Cardinality(Units(a, r, S) \union T)
        = Cost(a, r, S) + Cardinality(T) - Cardinality(Units(a, r, S) \intersect T)
  BY <1>6, FS_Union DEF Cost
<1>8. Cardinality(Units(a, r, S) \intersect T) \in Nat
  BY <1>6, FS_Intersection, FS_CardinalityType
<1> DEFINE n == Cardinality(T)
           k == Cardinality(Units(a, r, S) \intersect T)
<1>9. /\ Cost(a, r, S \union {p}) = Cost(a, r, S) + n - k
      /\ n \in Nat /\ k \in Nat /\ n <= r[p].total
  <2>1. Cost(a, r, S \union {p}) = Cardinality(Units(a, r, S) \union T)
    BY <1>1 DEF Cost
  <2> QED
    BY <1>5, <1>6, <1>7, <1>8, <2>1
<1> HIDE DEF n, k
<1> QED
  BY <1>2, <1>6, <1>9

\* A finite set can be numbered.
IsNumbering(S, g) == /\ g \in [S -> 1..Cardinality(S)]
                     /\ \A x, y \in S : g[x] = g[y] => x = y
Numbering(S) == CHOOSE g : IsNumbering(S, g)

LEMMA NumberingExists ==
  ASSUME NEW S, IsFiniteSet(S)
  PROVE  IsNumbering(S, Numbering(S))
<1>1. ExistsBijection(S, 1..Cardinality(S))
  BY FS_CardinalityType, Fun_ExistsBijSymmetric
<1>2. PICK g \in Bijection(S, 1..Cardinality(S)) : TRUE
  BY <1>1 DEF ExistsBijection
<1>3. IsNumbering(S, g)
  BY <1>2 DEF Bijection, Injection, IsInjective, IsNumbering
<1> QED
  BY <1>3 DEF Numbering

\* The shares CreateNewEntry gives the publishers add up to the amount.
LEMMA SharedCost ==
  ASSUME NEW a \in Nat, NEW S \in SUBSET Publishers, NEW share \in [1..a -> S],
         NEW rank
  PROVE  Cost(a, SharedRows(S, share, rank), Publishers) >= a
<1> DEFINE r == SharedRows(S, share, rank)
           F(p) == {i \in 1..a : share[i] = p}
           f == [i \in 1..a |-> <<share[i], Numbering(F(share[i]))[i]>>]
<1>1. ASSUME NEW i \in 1..a
      PROVE  f[i] \in Units(a, r, Publishers)
  <2> DEFINE p == share[i]
  <2>1. p \in S /\ p \in Publishers
    OBVIOUS
  <2>2. r[p].total = Cardinality(F(p))
    BY <2>1 DEF SharedRows
  <2>3. IsFiniteSet(1..a) /\ Cardinality(1..a) = a
    BY FS_Interval
  <2>4. IsFiniteSet(F(p)) /\ Cardinality(F(p)) <= a /\ Cardinality(F(p)) \in Nat
    BY <2>3, FS_Subset, FS_CardinalityType
  <2>5. Numbering(F(p))[i] \in 1..Cardinality(F(p))
    <3>1. i \in F(p)
      OBVIOUS
    <3>2. IsNumbering(F(p), Numbering(F(p)))
      BY <2>4, NumberingExists
    <3> HIDE DEF F
    <3> QED
      BY <3>1, <3>2 DEF IsNumbering
  <2>6. f[i] = <<p, Numbering(F(p))[i]>>
    OBVIOUS
  <2> HIDE DEF f, F, r
  <2> QED
    BY <2>1, <2>2, <2>4, <2>5, <2>6 DEF Units
<1>2. ASSUME NEW i \in 1..a, NEW j \in 1..a, f[i] = f[j]
      PROVE  i = j
  <2> DEFINE p == share[i]
  <2>1. share[j] = p /\ Numbering(F(p))[i] = Numbering(F(p))[j]
    BY <1>2
  <2>2. i \in F(p) /\ j \in F(p)
    BY <2>1
  <2>3. IsFiniteSet(F(p))
    <3>1. IsFiniteSet(1..a)
      BY FS_Interval
    <3> QED
      BY <3>1, FS_Subset
  <2>4. IsNumbering(F(p), Numbering(F(p)))
    BY <2>3, NumberingExists
  <2> HIDE DEF F
  <2> QED
    BY <2>1, <2>2, <2>4 DEF IsNumbering
<1>3. f \in Injection(1..a, Units(a, r, Publishers))
  <2>1. f \in [1..a -> Units(a, r, Publishers)]
    BY <1>1
  <2> HIDE DEF f, r
  <2> QED
    BY <1>2, <2>1 DEF Injection, IsInjective
<1>4. IsFiniteSet(Units(a, r, Publishers)) /\ Cost(a, r, Publishers) \in Nat
  BY CostType
<1>5. Cardinality(1..a) <= Cardinality(Units(a, r, Publishers))
  BY <1>3, <1>4, FS_Injection
<1>6. Cardinality(1..a) = a
  BY FS_Interval
<1> HIDE DEF r
<1> QED
  BY <1>4, <1>5, <1>6 DEF Cost, r


LEMMA ShareOfVotes ==
  ASSUME NEW n \in Nat, NEW m \in Nat \ {0}
  PROVE  (n * (TokenValue * m)) \div m = TokenValue * n
<1>1. TokenValue \in Nat /\ TokenValue > 0
  BY ConstantsAssumption
<1>2. TokenValue * n \in Nat
  BY TokenProducts
<1>3. n * (TokenValue * m) = (TokenValue * n) * m
  BY <1>1
<1>4. \A k \in Nat : (k * m) \div m = k
  OBVIOUS
<1> QED
  BY <1>2, <1>3, <1>4

\* Numbers written with a digit below TokenValue: they differ if either part does.
LEMMA VoteUnits ==
  ASSUME NEW n \in Nat, NEW k \in 1..n, NEW j \in 1..TokenValue
  PROVE  /\ TokenValue * (k - 1) + j \in 1..TokenValue * n
         /\ \A l \in 1..n, i \in 1..TokenValue :
              TokenValue * (k - 1) + j = TokenValue * (l - 1) + i => k = l /\ j = i
<1>1. TokenValue \in Nat /\ TokenValue > 0
  BY ConstantsAssumption
<1>2. ASSUME NEW a \in Nat, NEW b \in Nat, a < b
      PROVE  TokenValue * a + TokenValue <= TokenValue * b
  <2>1. TokenValue * (a + 1) <= TokenValue * b
    BY <1>2, TokenProducts
  <2>2. TokenValue * (a + 1) = TokenValue * a + TokenValue
    BY <1>1
  <2> QED
    BY <2>1, <2>2
<1>3. k - 1 \in Nat /\ TokenValue * (k - 1) \in Nat /\ TokenValue * n \in Nat
  BY TokenProducts
<1>4. TokenValue * (k - 1) + TokenValue <= TokenValue * n
  <2>1. k - 1 < n
    OBVIOUS
  <2> QED
    BY <1>2, <1>3, <2>1
<1>5. ASSUME NEW l \in 1..n, NEW i \in 1..TokenValue,
             TokenValue * (k - 1) + j = TokenValue * (l - 1) + i
      PROVE  k = l /\ j = i
  <2>1. l - 1 \in Nat /\ TokenValue * (l - 1) \in Nat
    BY TokenProducts
  <2>2. CASE k < l
    <3>1. TokenValue * (k - 1) + TokenValue <= TokenValue * (l - 1)
      <4>1. k - 1 < l - 1
        BY <2>2
      <4> QED
        BY <1>2, <1>3, <2>1, <4>1
    <3> QED
      BY <1>1, <1>3, <1>5, <2>1, <3>1
  <2>3. CASE l < k
    <3>1. TokenValue * (l - 1) + TokenValue <= TokenValue * (k - 1)
      <4>1. l - 1 < k - 1
        BY <2>3
      <4> QED
        BY <1>2, <1>3, <2>1, <4>1
    <3> QED
      BY <1>1, <1>3, <1>5, <2>1, <3>1
  <2>4. CASE k = l
    BY <1>3, <1>5, <2>4
  <2> QED
    BY <2>2, <2>3, <2>4
<1> QED
  BY <1>1, <1>3, <1>4, <1>5

\* With one vote per token, the shares drawn for an amount that is worth the
\* tokens exactly add up to the amount.
LEMMA VotedCost ==
  ASSUME TypeOK, NEW c \in Contributions, NEW list \in SUBSET Tokens, list # {},
         NEW vote \in [list -> Listed(c)], info[c].amount = Value(list)
  PROVE  Cost(info[c].amount, VotedRows(c, list, vote), Publishers) >= info[c].amount
<1> DEFINE a == info[c].amount
           r == VotedRows(c, list, vote)
           W(p) == {t \in list : vote[t] = p}
           k(t) == Numbering(W(vote[t]))[t]
           D == list \X (1..TokenValue)
           unit(x) == TokenValue * (k(x[1]) - 1) + x[2]
           f == [x \in D |-> <<vote[x[1]], unit(x)>>]
<1>1. /\ a \in Nat
      /\ Cardinality(list) \in Nat \ {0} /\ IsFiniteSet(list)
      /\ a = TokenValue * Cardinality(list)
      /\ TokenValue \in Nat /\ TokenValue > 0
  BY TokenSets, FS_EmptySet, ConstantsAssumption DEF TypeOK, Info, Value
<1>2. ASSUME NEW t \in list
      PROVE  /\ vote[t] \in Publishers
             /\ Cardinality(W(vote[t])) \in Nat
             /\ Cardinality(W(vote[t])) <= Cardinality(list)
             /\ t \in W(vote[t])
             /\ IsNumbering(W(vote[t]), Numbering(W(vote[t])))
             /\ k(t) \in 1..Cardinality(W(vote[t]))
             /\ r[vote[t]].total = TokenValue * Cardinality(W(vote[t]))
  <2> DEFINE p == vote[t]
  <2>1. p \in Publishers /\ t \in W(p)
    BY DEF Listed
  <2>2. /\ IsFiniteSet(W(p)) /\ Cardinality(W(p)) <= Cardinality(list)
        /\ Cardinality(W(p)) \in Nat
    BY <1>1, FS_Subset, FS_CardinalityType
  <2>3. Cardinality(W(p)) > 0
    BY <2>1, <2>2, FS_EmptySet
  <2>4. IsNumbering(W(p), Numbering(W(p)))
    BY <2>2, NumberingExists
  <2>5. k(t) \in 1..Cardinality(W(p))
    <3> HIDE DEF W
    <3> QED
      BY <2>1, <2>4 DEF IsNumbering
  <2>6. r[p].total = (Cardinality(W(p)) * a) \div Cardinality(list)
    BY <2>1, <2>3 DEF VotedRows
  <2>7. r[p].total = TokenValue * Cardinality(W(p))
    <3> HIDE DEF W, r, a, p
    <3> QED
      BY <1>1, <2>2, <2>6, ShareOfVotes
  <2> HIDE DEF W, r, k
  <2> QED
    BY <2>1, <2>2, <2>4, <2>5, <2>7
<1>3. ASSUME NEW x \in D
      PROVE  f[x] \in Units(a, r, Publishers)
  <2> DEFINE t == x[1]
             n == Cardinality(W(vote[t]))
             y == unit(x)
  <2>1. t \in list /\ x[2] \in 1..TokenValue
    OBVIOUS
  <2>2. f[x] = <<vote[t], y>>
    OBVIOUS
  <2>3. n \in Nat /\ k(t) \in 1..n /\ n <= Cardinality(list)
    BY <1>2, <2>1
  <2>4. y \in 1..TokenValue * n
    <3> HIDE DEF n, k
    <3> QED
      BY <2>1, <2>3, VoteUnits
  <2>5. TokenValue * n <= a /\ TokenValue * n \in Nat
    <3> HIDE DEF n, a
    <3> QED
      BY <1>1, <2>3, TokenProducts
  <2>6. vote[t] \in Publishers /\ r[vote[t]].total = TokenValue * n
    BY <1>2, <2>1
  <2> HIDE DEF f, y, n, r, a, t
  <2>7. y \in 1..a /\ y <= r[vote[t]].total
    BY <1>1, <2>4, <2>5, <2>6
  <2> QED
    BY <2>2, <2>6, <2>7 DEF Units
<1>4. ASSUME NEW x \in D, NEW z \in D, f[x] = f[z]
      PROVE  x = z
  <2> DEFINE n == Cardinality(W(vote[x[1]]))
  <2>1. /\ x[1] \in list /\ z[1] \in list /\ x = <<x[1], x[2]>> /\ z = <<z[1], z[2]>>
        /\ x[2] \in 1..TokenValue /\ z[2] \in 1..TokenValue
    OBVIOUS
  <2>2. /\ vote[x[1]] = vote[z[1]]
        /\ TokenValue * (k(x[1]) - 1) + x[2] = TokenValue * (k(z[1]) - 1) + z[2]
    <3>1. f[x] = <<vote[x[1]], unit(x)>> /\ f[z] = <<vote[z[1]], unit(z)>>
      OBVIOUS
    <3>2. <<vote[x[1]], unit(x)>> = <<vote[z[1]], unit(z)>>
      BY <1>4, <3>1
    <3>3. vote[x[1]] = vote[z[1]] /\ unit(x) = unit(z)
      <4> HIDE DEF f, unit, D
      <4> QED
        BY <3>2
    <3> QED
      BY <3>3
  <2>3. n \in Nat /\ k(x[1]) \in 1..n /\ k(z[1]) \in 1..n
    <3> HIDE DEF k, W
    <3> QED
      BY <1>2, <2>1, <2>2
  <2>4. k(x[1]) = k(z[1]) /\ x[2] = z[2]
    <3> HIDE DEF k, n
    <3> QED
      BY <2>1, <2>2, <2>3, VoteUnits
  <2>5. x[1] = z[1]
    <3>1. /\ IsNumbering(W(vote[x[1]]), Numbering(W(vote[x[1]])))
          /\ x[1] \in W(vote[x[1]]) /\ z[1] \in W(vote[x[1]])
          /\ Numbering(W(vote[x[1]]))[x[1]] = Numbering(W(vote[x[1]]))[z[1]]
      BY <1>2, <2>1, <2>2, <2>4
    <3> HIDE DEF W
    <3> QED
      BY <3>1 DEF IsNumbering
  <2> QED
    BY <2>1, <2>4, <2>5
<1>5. f \in Injection(D, Units(a, r, Publishers))
  <2>1. f \in [D -> Units(a, r, Publishers)]
    <3> DEFINE U == Units(a, r, Publishers)
    <3>1. f = [x \in D |-> f[x]]
      OBVIOUS
    <3>2. \A x \in D : f[x] \in U
      BY <1>3
    <3>3. f \in [D -> U]
      <4> HIDE DEF U, f, D
      <4> QED
        BY <3>1, <3>2
    <3> QED
      BY <3>3
  <2> HIDE DEF f, r, D, a
  <2> QED
    BY <1>4, <2>1 DEF Injection, IsInjective
<1>6. IsFiniteSet(Units(a, r, Publishers)) /\ Cost(a, r, Publishers) \in Nat
  BY <1>1, CostType
<1>7. Cardinality(D) <= Cardinality(Units(a, r, Publishers))
  <2> HIDE DEF f, r, D, a
  <2> QED
    BY <1>5, <1>6, FS_Injection
<1>8. Cardinality(D) = a
  <2>1. IsFiniteSet(1..TokenValue) /\ Cardinality(1..TokenValue) = TokenValue
    BY <1>1, FS_Interval
  <2>2. Cardinality(list \X (1..TokenValue))
          = Cardinality(list) * Cardinality(1..TokenValue)
    BY <1>1, <2>1, FS_Product
  <2> QED
    BY <1>1, <2>1, <2>2
<1> HIDE DEF r, D, a
<1>9. Cost(a, r, Publishers) >= a
  BY <1>1, <1>6, <1>7, <1>8 DEF Cost
<1> QED
  BY <1>9 DEF a, r



(***************************************************************************)
(* The rows of a contribution                                              *)
(***************************************************************************)
ListedIn(r) == {p \in Publishers : r[p].rank > 0}
UnpaidIn(r) == {p \in ListedIn(r) : r[p].total # r[p].contributed}
PaidIn(r) == {p \in ListedIn(r) : r[p].total = r[p].contributed}
FirstIn(r, p) == p \in UnpaidIn(r) /\ \A q \in UnpaidIn(r) : r[p].rank <= r[q].rank
LastIn(r, p) == \A q \in ListedIn(r) : r[q].rank <= r[p].rank

\* A row is paid in full or not at all, and no two rows have the same place.
RowsOk(r) ==
  /\ \A p \in Publishers : /\ r[p].contributed \in {0, r[p].total}
                           /\ r[p].rank = 0 => r[p] = NoRow
  /\ \A p, q \in ListedIn(r) : r[p].rank = r[q].rank => p = q

Untouched(r) == \A p \in Publishers : r[p].contributed = 0

LEMMA OneFirst ==
  ASSUME NEW r \in [Publishers -> Row], RowsOk(r), NEW p, NEW q,
         FirstIn(r, p), FirstIn(r, q)
  PROVE  p = q
<1>1. p \in ListedIn(r) /\ q \in ListedIn(r) /\ p \in Publishers /\ q \in Publishers
  BY DEF FirstIn, UnpaidIn, ListedIn
<1>2. r[p].rank <= r[q].rank /\ r[q].rank <= r[p].rank
  BY DEF FirstIn
<1>3. r[p].rank \in Nat /\ r[q].rank \in Nat
  BY <1>1 DEF Row
<1>4. r[p].rank = r[q].rank
  BY <1>2, <1>3
<1> QED
  BY <1>1, <1>4 DEF RowsOk

\* The first unpaid row is the last one: every other row is paid.
LEMMA LastFirst ==
  ASSUME NEW r \in [Publishers -> Row], RowsOk(r), NEW p, FirstIn(r, p), LastIn(r, p)
  PROVE  UnpaidIn(r) = {p}
<1>1. p \in UnpaidIn(r) /\ p \in ListedIn(r) /\ p \in Publishers
  BY DEF FirstIn, UnpaidIn, ListedIn
<1>2. ASSUME NEW q \in UnpaidIn(r) PROVE q = p
  <2>1. q \in ListedIn(r) /\ q \in Publishers
    BY DEF UnpaidIn, ListedIn
  <2>2. r[p].rank <= r[q].rank /\ r[q].rank <= r[p].rank
    BY <2>1 DEF FirstIn, LastIn
  <2>3. r[p].rank \in Nat /\ r[q].rank \in Nat
    BY <1>1, <2>1 DEF Row
  <2>4. r[p].rank = r[q].rank
    BY <2>2, <2>3
  <2> QED
    BY <1>1, <2>1, <2>4 DEF RowsOk
<1> QED
  BY <1>1, <1>2

\* Recording the amount of a row pays it, and leaves the others alone.
Recorded(r, p) == [r EXCEPT ![p].contributed = r[p].total]

LEMMA RecordedRows ==
  ASSUME NEW r \in [Publishers -> Row], RowsOk(r), NEW p \in UnpaidIn(r)
  PROVE  /\ Recorded(r, p) \in [Publishers -> Row] /\ RowsOk(Recorded(r, p))
         /\ \A q \in Publishers : /\ Recorded(r, p)[q].total = r[q].total
                                  /\ Recorded(r, p)[q].rank = r[q].rank
                                  /\ q # p => Recorded(r, p)[q] = r[q]
         /\ Recorded(r, p)[p].contributed = r[p].total
         /\ ListedIn(Recorded(r, p)) = ListedIn(r)
         /\ UnpaidIn(Recorded(r, p)) = UnpaidIn(r) \ {p}
         /\ PaidIn(Recorded(r, p)) = PaidIn(r) \union {p}
<1> DEFINE n == Recorded(r, p)
<1>1. p \in Publishers /\ p \in ListedIn(r) /\ r[p].rank # 0
  BY DEF UnpaidIn, ListedIn, Row
<1>2. /\ n \in [Publishers -> Row]
      /\ \A q \in Publishers : q # p => n[q] = r[q]
      /\ n[p].total = r[p].total /\ n[p].rank = r[p].rank
      /\ n[p].contributed = r[p].total
  BY <1>1 DEF Recorded, Row
<1> HIDE DEF n
<1>3. \A q \in Publishers : n[q].total = r[q].total /\ n[q].rank = r[q].rank
  BY <1>2
<1>4. ListedIn(n) = ListedIn(r)
  BY <1>3 DEF ListedIn
<1>5. UnpaidIn(n) = UnpaidIn(r) \ {p}
  BY <1>2, <1>4 DEF UnpaidIn, ListedIn
<1>6. PaidIn(n) = PaidIn(r) \union {p}
  BY <1>1, <1>2, <1>4 DEF PaidIn, ListedIn
<1>7. RowsOk(n)
  <2>1. ASSUME NEW q \in Publishers
        PROVE  n[q].contributed \in {0, n[q].total} /\ (n[q].rank = 0 => n[q] = NoRow)
    <3>1. CASE q = p
      BY <1>1, <1>2, <3>1
    <3>2. CASE q # p
      BY <1>2, <3>2 DEF RowsOk
    <3> QED
      BY <3>1, <3>2
  <2>2. \A q, u \in ListedIn(n) : n[q].rank = n[u].rank => q = u
    BY <1>3, <1>4 DEF RowsOk, ListedIn
  <2> QED
    BY <2>1, <2>2 DEF RowsOk
<1> QED
  BY <1>2, <1>3, <1>4, <1>5, <1>6, <1>7 DEF n

\* The place of a publisher among others, counted by a key.
LEMMA CountedPlace ==
  ASSUME NEW S \in SUBSET Publishers, NEW f \in [Publishers -> Nat], NEW p \in S
  PROVE  LET place(q) == Cardinality({u \in S : f[u] <= f[q]})
         IN /\ place(p) \in 1..Cardinality(S)
            /\ \A q \in S : f[p] < f[q] => place(p) < place(q)
<1> DEFINE A(q) == {u \in S : f[u] <= f[q]}
<1>1. IsFiniteSet(S)
  <2>1. IsFiniteSet(Publishers)
    BY ConstantsAssumption, FS_Interval DEF Publishers
  <2> QED
    BY <2>1, FS_Subset
<1>2. \A q \in S : /\ A(q) \in SUBSET S /\ IsFiniteSet(A(q))
                   /\ Cardinality(A(q)) \in Nat /\ Cardinality(A(q)) <= Cardinality(S)
  BY <1>1, FS_Subset, FS_CardinalityType
<1>3. p \in A(p)
  OBVIOUS
<1>4. Cardinality(A(p)) > 0
  BY <1>2, <1>3, FS_EmptySet, SMTT(30)
<1>5. ASSUME NEW q \in S, f[p] < f[q]
      PROVE  Cardinality(A(p)) < Cardinality(A(q))
  <2>1. A(p) \in SUBSET A(q)
    BY <1>5
  <2>2. q \in A(q) /\ q \notin A(p)
    BY <1>5
  <2>3. A(p) # A(q)
    BY <2>2
  <2>4. IsFiniteSet(A(q)) /\ Cardinality(A(q)) \in Nat /\ Cardinality(A(p)) \in Nat
    BY <1>2
  <2> HIDE DEF A
  <2>5. /\ Cardinality(A(p)) <= Cardinality(A(q))
        /\ Cardinality(A(q)) = Cardinality(A(p)) => A(q) = A(p)
    BY <2>1, <2>4, FS_Subset
  <2> QED
    BY <2>3, <2>4, <2>5
<1>6. Cardinality(S) \in Nat
  BY <1>1, FS_CardinalityType
<1>7. Cardinality(A(p)) \in 1..Cardinality(S)
  BY <1>2, <1>4, <1>6
<1> QED
  BY <1>5, <1>7

\* The rows CreateNewEntry inserts.
LEMMA SharedRowsOk ==
  ASSUME NEW S \in SUBSET Publishers, NEW share, NEW rank \in [S -> 1..Cardinality(S)],
         IsRanking(S, rank)
  PROVE  RowsOk(SharedRows(S, share, rank)) /\ Untouched(SharedRows(S, share, rank))
<1> DEFINE r == SharedRows(S, share, rank)
<1>1. Cardinality(S) \in Nat
  BY PublisherSets
<1>2. ASSUME NEW p \in Publishers
      PROVE  /\ r[p].contributed = 0
             /\ p \in S => r[p].rank = rank[p] /\ r[p].rank > 0
             /\ p \notin S => r[p] = NoRow
  BY <1>1 DEF SharedRows, NoRow
<1>3. NoRow.rank = 0
  BY DEF NoRow
<1> HIDE DEF r
<1>4. ListedIn(r) = S
  BY <1>2, <1>3 DEF ListedIn
<1>5. \A p, q \in S : r[p].rank = r[q].rank => p = q
  BY <1>2 DEF IsRanking
<1>6. ASSUME NEW p \in Publishers, r[p].rank = 0 PROVE r[p] = NoRow
  BY <1>2, <1>6
<1>7. RowsOk(r) /\ Untouched(r)
  BY <1>2, <1>4, <1>5, <1>6 DEF RowsOk, Untouched
<1> QED
  BY <1>7 DEF r


\* The rows PrepareAutoContribution leaves: the losers keep the first places and
\* their rows, the winners follow.
LEMMA VotedRowsOk ==
  ASSUME TypeOK, NEW c \in Contributions, NEW list \in SUBSET Tokens, list # {},
         NEW vote \in [list -> Listed(c)], RowsOk(rows[c]), Untouched(rows[c])
  PROVE  RowsOk(VotedRows(c, list, vote)) /\ Untouched(VotedRows(c, list, vote))
<1> DEFINE Votes(p) == Cardinality({t \in list : vote[t] = p})
           losers == {p \in Listed(c) : Votes(p) = 0}
           winners == {p \in Publishers : Votes(p) > 0}
           key == [p \in Publishers |-> p]
           old == [p \in Publishers |-> rows[c][p].rank]
           after(p) == Cardinality({q \in winners : q <= p})
           kept(p) == Cardinality({q \in losers : rows[c][q].rank <= rows[c][p].rank})
           r == VotedRows(c, list, vote)
<1>1. losers \in SUBSET Publishers /\ winners \in SUBSET Publishers
  BY DEF Listed
<1>2. \A p \in winners : p \notin losers
  OBVIOUS
<1>3. \A p \in Publishers :
        /\ p \in winners => /\ r[p].rank = Cardinality(losers) + after(p)
                            /\ r[p].contributed = 0
        /\ p \in losers => /\ r[p].rank = kept(p)
                           /\ r[p].contributed = rows[c][p].contributed
        /\ p \notin winners /\ p \notin losers => r[p] = NoRow
  <2>1. ASSUME NEW p \in Publishers, p \in winners
        PROVE  r[p] = [rank |-> Cardinality(losers) + after(p),
                       total |-> (Votes(p) * info[c].amount) \div Cardinality(list),
                       contributed |-> 0]
    BY <2>1 DEF VotedRows
  <2>2. ASSUME NEW p \in Publishers, p \in losers
        PROVE  r[p] = [rows[c][p] EXCEPT !.rank = kept(p)] /\ rows[c][p] \in Row
    BY <1>2, <2>2 DEF VotedRows, TypeOK
  <2>3. ASSUME NEW p \in Publishers, p \notin losers, p \notin winners
        PROVE  r[p] = NoRow
    BY <2>3 DEF VotedRows
  <2> DEFINE share(p) == (Votes(p) * info[c].amount) \div Cardinality(list)
             place(p) == Cardinality(losers) + after(p)
  <2>5. \A p \in Publishers : p \in winners =>
          r[p] = [rank |-> place(p), total |-> share(p), contributed |-> 0]
    BY <2>1
  <2> HIDE DEF r, winners, losers, kept, after, Votes, share, place
  <2>6. ASSUME NEW p \in Publishers, p \in winners
        PROVE  r[p].rank = place(p) /\ r[p].contributed = 0
    <3>1. \A x, y : [rank |-> x, total |-> y, contributed |-> 0].rank = x
                   /\ [rank |-> x, total |-> y, contributed |-> 0].contributed = 0
      OBVIOUS
    <3>2. r[p] = [rank |-> place(p), total |-> share(p), contributed |-> 0]
      BY <2>5, <2>6
    <3> QED
      BY <3>1, <3>2
  <2>4. \A p \in Publishers : p \in losers => /\ r[p].rank = kept(p)
                                              /\ r[p].contributed = rows[c][p].contributed
    BY <2>2 DEF Row
  <2> QED
    BY <2>3, <2>4, <2>6 DEF place
<1>4. key \in [Publishers -> Nat] /\ old \in [Publishers -> Nat]
  BY ConstantsAssumption DEF Publishers, TypeOK, Row
<1> HIDE DEF r, Votes
<1>5. ASSUME NEW p \in winners
      PROVE  /\ after(p) \in 1..Cardinality(winners)
             /\ \A q \in winners : p < q => after(p) < after(q)
  <2> DEFINE place(q) == Cardinality({u \in winners : key[u] <= key[q]})
  <2>1. \A q \in winners : place(q) = after(q)
    BY <1>1
  <2>2. \A q \in winners : key[q] = q
    BY <1>1
  <2> HIDE DEF winners, key, after
  <2>3. place(p) \in 1..Cardinality(winners) /\ \A q \in winners : key[p] < key[q] => place(p) < place(q)
    BY <1>1, <1>4, CountedPlace
  <2> QED
    BY <2>1, <2>2, <2>3
<1>6. ASSUME NEW p \in losers
      PROVE  /\ kept(p) \in 1..Cardinality(losers)
             /\ \A q \in losers : rows[c][p].rank < rows[c][q].rank => kept(p) < kept(q)
  <2> DEFINE place(q) == Cardinality({u \in losers : old[u] <= old[q]})
  <2>1. \A q \in losers : old[q] = rows[c][q].rank
    BY <1>1
  <2>2. \A q \in losers : place(q) = kept(q)
    <3> HIDE DEF losers, old
    <3> QED
      BY <2>1
  <2> HIDE DEF losers, old, kept
  <2>3. place(p) \in 1..Cardinality(losers) /\ \A q \in losers : old[p] < old[q] => place(p) < place(q)
    BY <1>1, <1>4, CountedPlace
  <2> QED
    BY <2>1, <2>2, <2>3
<1>7. Cardinality(losers) \in Nat /\ Cardinality(winners) \in Nat
  BY <1>1, PublisherSets
<1>8. \A p \in Publishers : rows[c][p].rank \in Nat /\ rows[c][p].contributed = 0
  BY DEF TypeOK, Row, Untouched
<1>9. \A p, q \in losers : rows[c][p].rank = rows[c][q].rank => p = q
  BY DEF RowsOk, ListedIn, Listed
<1> HIDE DEF losers, winners, after, kept
<1>10. ASSUME NEW p \in Publishers
       PROVE  /\ r[p].contributed = 0
              /\ r[p].rank = 0 => r[p] = NoRow
              /\ r[p].rank > 0 => p \in winners \/ p \in losers
  <2>1. CASE p \in winners
    <3>1. after(p) >= 1 /\ after(p) \in Nat
      BY <1>5, <1>7, <2>1
    <3> QED
      BY <1>3, <1>7, <2>1, <3>1
  <2>2. CASE p \in losers
    <3>1. kept(p) >= 1 /\ kept(p) \in Nat
      BY <1>6, <1>7, <2>2
    <3> QED
      BY <1>3, <1>8, <2>2, <3>1
  <2>3. CASE p \notin winners /\ p \notin losers
    BY <1>3, <2>3 DEF NoRow
  <2> QED
    BY <2>1, <2>2, <2>3
<1>11. ASSUME NEW p \in winners, NEW q \in winners, r[p].rank = r[q].rank
       PROVE  p = q
  <2>1. after(p) = after(q)
    <3> DEFINE m == after(p)
               n == after(q)
               k == Cardinality(losers)
    <3>1. m \in Nat /\ n \in Nat /\ k \in Nat
      BY <1>5, <1>7
    <3>2. k + m = k + n
      BY <1>1, <1>3, <1>11
    <3> HIDE DEF m, n, k
    <3>3. m = n
      BY <3>1, <3>2
    <3> QED
      BY <3>3 DEF m, n
  <2>2. ~(p < q) /\ ~(q < p)
    <3>1. after(p) \in Nat /\ after(q) \in Nat
      BY <1>5, <1>7
    <3> QED
      BY <1>5, <2>1, <3>1
  <2>3. p \in Int /\ q \in Int
    BY <1>1 DEF Publishers
  <2> QED
    BY <2>2, <2>3
<1>12. ASSUME NEW p \in losers, NEW q \in losers, r[p].rank = r[q].rank
       PROVE  p = q
  <2>1. kept(p) = kept(q)
    BY <1>1, <1>3, <1>12
  <2>2. ~(rows[c][p].rank < rows[c][q].rank) /\ ~(rows[c][q].rank < rows[c][p].rank)
    <3>1. kept(p) \in Nat /\ kept(q) \in Nat
      BY <1>6, <1>7
    <3> QED
      BY <1>6, <2>1, <3>1
  <2>3. rows[c][p].rank = rows[c][q].rank
    BY <1>1, <1>8, <2>2
  <2> QED
    BY <1>9, <2>3
<1>13. ASSUME NEW p \in winners, NEW q \in losers
       PROVE  r[p].rank # r[q].rank
  <2>1. after(p) \in Nat /\ after(p) >= 1 /\ kept(q) \in Nat /\ kept(q) <= Cardinality(losers)
    BY <1>5, <1>6, <1>7
  <2>2. r[p].rank = Cardinality(losers) + after(p) /\ r[q].rank = kept(q)
    BY <1>1, <1>3
  <2> QED
    BY <1>7, <2>1, <2>2
<1>14. \A p, q \in ListedIn(r) : r[p].rank = r[q].rank => p = q
  <2>1. \A p \in ListedIn(r) : p \in winners \/ p \in losers
    BY <1>10 DEF ListedIn
  <2> QED
    BY <1>11, <1>12, <1>13, <2>1
<1>15. RowsOk(r) /\ Untouched(r)
  BY <1>10, <1>14 DEF RowsOk, Untouched
<1> QED
  BY <1>15 DEF r

\* Publishers whose shares are nothing cost nothing.
LEMMA CostOfNothing ==
  ASSUME NEW a \in Nat, NEW r, NEW S \in SUBSET Publishers, \A p \in S : r[p].total = 0
  PROVE  Cost(a, r, S) = 0
<1>1. Units(a, r, S) = {}
  BY DEF Units
<1> QED
  BY <1>1, FS_EmptySet DEF Cost

\* The cost depends on the shares of the publishers that have one.
LEMMA SameCost ==
  ASSUME NEW a, NEW r, NEW n, NEW S \in SUBSET Publishers,
         \A p \in S : n[p].total = r[p].total
  PROVE  Cost(a, n, S) = Cost(a, r, S)
<1>1. Units(a, n, S) = Units(a, r, S)
  BY DEF Units
<1> QED
  BY <1>1 DEF Cost

LEMMA CostOfListed ==
  ASSUME NEW a \in Nat, NEW r \in [Publishers -> Row], RowsOk(r)
  PROVE  Cost(a, r, ListedIn(r)) = Cost(a, r, Publishers)
<1>1. ASSUME NEW p \in Publishers, p \notin ListedIn(r) PROVE r[p].total = 0
  <2>1. r[p].rank \in Nat /\ ~(r[p].rank > 0)
    BY <1>1 DEF ListedIn, Row
  <2>2. r[p].rank = 0
    BY <2>1
  <2> QED
    BY <2>2 DEF RowsOk, NoRow
<1>2. Units(a, r, ListedIn(r)) = Units(a, r, Publishers)
  <2>1. ASSUME NEW u \in Publishers \X (1..a), u[2] <= r[u[1]].total
        PROVE  u[1] \in ListedIn(r)
    BY <1>1, <2>1
  <2>2. ListedIn(r) \subseteq Publishers
    BY DEF ListedIn
  <2> QED
    BY <2>1, <2>2 DEF Units
<1> QED
  BY <1>2 DEF Cost


(***************************************************************************)
(* A contribution with all that belongs to it: its record, its rows, its   *)
(* continuation, the tokens held for it, those it spent, its votes.        *)
(***************************************************************************)
View(c) == [i |-> info[c], r |-> rows[c], o |-> op[c],
            h |-> {t \in Tokens : redeemId[t] = c}, s |-> SpentBy(c),
            v |-> {w \in posted : w[2] = c}]

\* What typing and IInv say of a view.
ViewOk(x, c) ==
  /\ x.i \in Info /\ x.r \in [Publishers -> Row] /\ x.o \in Op
  /\ x.h \in SUBSET Tokens /\ x.s \in SUBSET x.h
  /\ x.v \in SUBSET (Tokens \X {c} \X Publishers)
  /\ x.i.step = NO => x.o.at = "idle"
  /\ x.i.step < 0 => x.o.at \in {"idle", "ContributionCompletedSaved"}
  /\ x.o.at \in InFlightAt => x.o.toks \subseteq x.h \ x.s
  /\ x.o.at = "OnRedeemTokens" => /\ x.o.pub \in Publishers
                                  /\ x.o.toks \X {c} \X {x.o.pub} \subseteq x.v
  /\ x.o.at \in CopyAt => x.o.step > 0

Early == {NO, START, RESERVE}

\* The tokens are worth the amount, and none is too many.
Exact(S, a) == TokenValue * (Cardinality(S) - 1) < a /\ a <= Value(S)

\* The spent tokens are worth what the publishers of S are meant to get, or the
\* whole amount.
Covers(x, S) == \/ Value(x.s) >= Cost(x.i.amount, x.r, S)
                \/ Value(x.s) >= x.i.amount

\* What a continuation carries fits the contribution it is for.
OpFits(x) ==
  /\ x.o.at \in {"OnEntrySaved", "PrepareTokens"} => x.i.step = START
  /\ x.o.at = "OnMarkReserved" => /\ x.i.step \in {START, RESERVE} /\ x.o.step = START
                                  /\ Exact(x.o.toks, x.i.amount)
  /\ x.o.at = "OnReservedForRetry" => /\ x.i.step = RESERVE /\ x.o.step = RESERVE
                                      /\ x.o.toks \in {{}, x.h \ x.s}
  /\ x.o.at = "OnPrepareAutoContribution" => x.i.step \in {START, RESERVE}
  /\ x.o.at = "PrepareStepSaved" => IF x.o.ok THEN x.i.step = PREPARE
                                              ELSE x.i.step \in {START, RESERVE}
  /\ x.o.at = "OnProcessTokens" => x.i.step = PREPARE /\ x.o.toks \in {{}, x.h \ x.s}
  /\ x.o.at = "OnRedeemTokens" => /\ x.i.step = PREPARE /\ FirstIn(x.r, x.o.pub)
                                  /\ x.o.toks # {}
                                  /\ x.o.toks = TakeUntil(x.h \ x.s, x.r[x.o.pub].total)
                                  /\ x.o.final => LastIn(x.r, x.o.pub)
  /\ x.o.at = "TokenProcessed" => /\ x.i.step = PREPARE /\ FirstIn(x.r, x.o.pub)
                                  /\ x.o.final => LastIn(x.r, x.o.pub)
                                  /\ x.o.ok => Covers(x, PaidIn(x.r) \union {x.o.pub})
  /\ x.o.at = "ContributionAmountSaved" => /\ x.i.step = PREPARE
                                           /\ x.o.final /\ x.o.ok => UnpaidIn(x.r) = {}
  /\ x.o.at = "OnResult" =>
       /\ x.o.res = "OK" => x.i.step = PREPARE /\ UnpaidIn(x.r) = {}
       /\ x.o.res = "NOT_ENOUGH_FUNDS" => x.i.step = START
       /\ x.o.res = "AC_TABLE_EMPTY" => x.i.step \in {START, RESERVE}
       /\ x.o.res \notin {"AC_OFF", "TOO_MANY_RESULTS", "RETRY"}
  /\ x.o.at \in {"SetRetryCounter", "Retry"} => x.o.step = x.i.step /\ x.o.step > 0

\* The course of a contribution: nothing is spent before its tokens are all
\* reserved, tokens still held are worth the amount together with the spent ones,
\* and what is recorded as paid is covered by spent tokens.
Flow(x) ==
  /\ RowsOk(x.r)
  /\ x.i.step = NO => x.h = {}
  /\ x.i.step # NO => x.i.amount > 0 /\ (x.i.type = "AC" => x.i.amount % TokenValue = 0)
  /\ x.i.step \in Early => x.s = {} /\ x.v = {} /\ Untouched(x.r)
  /\ x.i.step = COMPLETED => UnpaidIn(x.r) = {}
  /\ x.h \ x.s # {} => Value(x.h) >= x.i.amount
  /\ Covers(x, PaidIn(x.r))
  /\ OpFits(x)

GivenUp(x) == x.i.step \in {AC_OFF, FAILED}

\* A vote whose token is not spent yet is for the publisher in turn, with a token
\* the next attempt takes again.
Pending(x, w) ==
  /\ x.i.step = PREPARE /\ x.o.at \notin {"TokenProcessed", "ContributionAmountSaved"}
  /\ FirstIn(x.r, w[3]) /\ w[1] \in TakeUntil(x.h \ x.s, x.r[w[3]].total)

\* Without failing transactions a token votes once for the contribution.
Votes(x) ==
  /\ \A w \in x.v : GivenUp(x) \/ w[1] \in x.s \/ Pending(x, w)
  /\ \A w, z \in x.v : w[1] = z[1] => w = z
  /\ x.o.at = "ContributionCompletedSaved" => x.i.step < 0

For(v, p) == {w \in v : w[3] = p}

\* Without failing transactions and crashes no token is spent on a publisher that
\* is not recorded as paid, except while its amount is being recorded.
Repay(x) ==
  /\ x.o.at = "TokenProcessed" => x.o.ok
  /\ \A p \in Publishers : Cardinality(For(x.v, p)) <= TokensFor(x.r[p].total)
  /\ x.i.step > 0 =>
       \A p \in UnpaidIn(x.r) : ~(x.o.at = "TokenProcessed" /\ x.o.pub = p) =>
         \A w \in For(x.v, p) : w[1] \notin x.s

PaidBy(x, p) == {t \in x.s : \E w \in x.v : w[1] = t /\ w[3] = p}

\* A tip has one publisher, reserves once and spends all its tokens at once.
Tip(x) ==
  x.i.type = "TIP" =>
    /\ x.i.step = START => x.h = {}
    /\ \A p \in ListedIn(x.r) : x.r[p].total = x.i.amount
    /\ x.h \ x.s # {} => x.s = {}
    /\ Cardinality(x.h) <= TokensFor(x.i.amount)
    /\ x.o.at = "TokenProcessed" /\ x.o.ok => Value(PaidBy(x, x.o.pub)) >= x.r[x.o.pub].total
    /\ \A p \in Publishers : Value(PaidBy(x, p)) >= x.r[p].contributed
    /\ x.i.step # NO => Cost(x.i.amount, x.r, Publishers) >= x.i.amount

\* As long as no token expires, an auto contribution that starts over reads first
\* a token it has reserved: every token before is spent.  So it reserves once.
Once(x, spent) ==
  x.i.type = "AC" =>
    /\ x.i.step \in {START, RESERVE} /\ x.h # {} =>
         \E m \in x.h : \A t \in Tokens : t < m => t \in spent
    /\ x.o.at = "PrepareTokens" =>
         \/ x.o.toks = {}
         \/ /\ Tokens \ spent \subseteq x.o.toks
            /\ x.h # {} => \E m \in x.h \intersect x.o.toks : \A u \in x.o.toks : m <= u
    /\ Cardinality(x.h) <= TokensFor(x.i.amount)
    /\ x.i.step # NO => Cost(x.i.amount, x.r, Publishers) >= x.i.amount

\* Without failing transactions and crashes a contribution that waits for nothing
\* holds nothing, and a retry has its step and counter saved.
Settled(x) ==
  /\ x.o.at = "idle" => x.h \ x.s = {}
  /\ x.o.at = "Retry" => x.o.ok

(***************************************************************************)
(* The inductive invariants of the payments                                *)
(***************************************************************************)
FlowInv == \A c \in Contributions : Flow(View(c))
VoteInv == dbErrors = 0 => \A c \in Contributions : Votes(View(c))
RepayInv == crashes = 0 /\ dbErrors = 0 => \A c \in Contributions : Repay(View(c))
TipInv == \A c \in Contributions : Tip(View(c))
OnceInv == expired = {} => \A c \in Contributions : Once(View(c), redeemed)
SettledInv == crashes = 0 /\ dbErrors = 0 => \A c \in Contributions : Settled(View(c))

PayInv == /\ IInv /\ FlowInv /\ VoteInv /\ RepayInv /\ TipInv /\ OnceInv /\ SettledInv

(***************************************************************************)
(* What a step does to the view of the contribution whose step it is: x    *)
(* before, y after, with the counters of failures db and cr after it.      *)
(***************************************************************************)
SameTerms(x, y) == y.i.type = x.i.type /\ y.i.amount = x.i.amount
SameTokens(x, y) == y.h = x.h /\ y.s = x.s /\ y.v = x.v

\* The contribution goes on, or fails to, with the database as it was; readable
\* are the spendable tokens.
Turn(x, y, db, cr, readable) ==
  /\ SameTerms(x, y) /\ y.i.step = x.i.step /\ y.r = x.r /\ SameTokens(x, y)
  /\ OpFits(y)
  /\ y.o.at = "PrepareTokens" => y.o.toks \in {{}, readable}
  /\ y.o.at = "TokenProcessed" => ~y.o.ok /\ db > 0
  /\ y.o.at = "ContributionAmountSaved" => db > 0
  /\ y.o.at = "ContributionCompletedSaved" => db > 0
  /\ y.o.at = "Retry" => y.o.ok \/ db > 0
  /\ y.o.at = "idle" => db > 0 \/ cr > 0 \/ (x.o.at = "Retry" /\ ~x.o.ok)
  /\ x.o.at = "TokenProcessed" => db > 0 \/ cr > 0 \/ ~x.o.ok

Create(x, y) ==
  /\ x.i.step = NO /\ SameTokens(x, y)
  /\ y.i.step = START /\ y.i.amount > 0
  /\ y.i.type = "AC" => y.i.amount % TokenValue = 0
  /\ RowsOk(y.r) /\ Untouched(y.r)
  /\ y.i.type = "TIP" => \A p \in ListedIn(y.r) : y.r[p].total = y.i.amount
  /\ Cost(y.i.amount, y.r, Publishers) >= y.i.amount
  /\ y.o.at = "OnEntrySaved"

Mark(x, y) ==
  /\ x.o.at = "PrepareTokens" /\ Value(x.o.toks) >= x.i.amount
  /\ SameTerms(x, y) /\ y.r = x.r /\ y.s = x.s /\ y.v = x.v
  /\ y.o.at = "OnMarkReserved" /\ y.o.step = x.i.step
  /\ y.o.toks = TakeUntil(x.o.toks, x.i.amount)
  /\ \/ y.i.step = x.i.step /\ y.h = x.h
     \/ /\ y.i.step = RESERVE
        /\ y.h = x.h \/ (y.h = x.h \union y.o.toks /\ y.o.toks \intersect x.h = {})

Draw(x, y) ==
  /\ x.o.at = "OnMarkReserved" \/ x.o.at = "OnReservedForRetry"
  /\ x.o.toks # {}
  /\ x.i.type = "AC" /\ SameTerms(x, y) /\ SameTokens(x, y)
  /\ y.i.step = x.o.step
  /\ RowsOk(y.r) /\ Untouched(y.r)
  /\ x.i.amount = Value(x.o.toks) => Cost(y.i.amount, y.r, Publishers) >= y.i.amount
  /\ y.o.at = "OnPrepareAutoContribution"

Prepared(x, y) ==
  /\ x.o.at \in {"OnMarkReserved", "OnReservedForRetry", "OnPrepareAutoContribution"}
  /\ SameTerms(x, y) /\ y.i.step = PREPARE /\ y.r = x.r /\ SameTokens(x, y)
  /\ y.o.at = "PrepareStepSaved" /\ y.o.ok = TRUE

Post(x, y, c) ==
  /\ x.o.at = "OnProcessTokens"
  /\ y.i = x.i /\ y.r = x.r /\ y.h = x.h /\ y.s = x.s
  /\ y.o.at = "OnRedeemTokens" /\ FirstIn(x.r, y.o.pub)
  /\ y.o.toks = TakeUntil(x.o.toks, x.r[y.o.pub].total) /\ y.o.toks # {}
  /\ y.o.final => LastIn(x.r, y.o.pub)
  /\ y.v = x.v \union (y.o.toks \X {c} \X {y.o.pub})

Spend(x, y) ==
  /\ x.o.at = "OnRedeemTokens"
  /\ y.i = x.i /\ y.r = x.r /\ y.h = x.h /\ y.v = x.v
  /\ y.s = x.s \union x.o.toks
  /\ y.o.at = "TokenProcessed" /\ y.o.ok = TRUE
  /\ y.o.pub = x.o.pub /\ y.o.final = x.o.final

Record(x, y) ==
  /\ x.o.at = "TokenProcessed" /\ x.o.ok
  /\ y.i = x.i /\ SameTokens(x, y) /\ y.r = Recorded(x.r, x.o.pub)
  /\ y.o.at = "ContributionAmountSaved" /\ y.o.final = x.o.final

Final(x, y) ==
  /\ SameTerms(x, y) /\ y.r = x.r /\ SameTokens(x, y)
  /\ x.i.step > 0 /\ y.i.step < 0
  /\ y.i.step = COMPLETED => UnpaidIn(x.r) = {}
  /\ x.i.step = PREPARE => y.i.step \in {COMPLETED, AC_OFF, FAILED}
  /\ y.o.at = "ContributionCompletedSaved"

Release(x, y) ==
  /\ x.o.at = "ContributionCompletedSaved"
  /\ y.i = x.i /\ y.r = x.r /\ y.s = x.s /\ y.v = x.v /\ y.h = x.s
  /\ y.o.at = "idle"

Move(x, y, c, db, cr, readable) ==
  \/ Turn(x, y, db, cr, readable) \/ Create(x, y) \/ Mark(x, y) \/ Draw(x, y)
  \/ Prepared(x, y) \/ Post(x, y, c) \/ Spend(x, y) \/ Record(x, y)
  \/ Final(x, y) \/ Release(x, y)


LEMMA StepNumbers ==
  ASSUME NEW step \in Steps
  PROVE  /\ step \in Int
         /\ step > 0 <=> step \in {START, PREPARE, RESERVE}
         /\ step \in Early <=> step \in {NO, START, RESERVE}
         /\ step \in {NO, START, PREPARE, RESERVE} \/ step < 0
         /\ step < 0 => step \notin {NO, START, PREPARE, RESERVE}
BY DEF Steps, Early, NO, START, PREPARE, RESERVE, COMPLETED, FAILED,
   NOT_ENOUGH_FUNDS, AC_TABLE_EMPTY, AC_OFF, RETRY_COUNT

LEMMA StepsDiffer ==
  /\ START # NO /\ START # PREPARE /\ START # RESERVE /\ START # COMPLETED
  /\ PREPARE # NO /\ PREPARE # RESERVE /\ PREPARE # COMPLETED /\ RESERVE # NO
  /\ RESERVE # COMPLETED
  /\ START > 0 /\ PREPARE > 0 /\ RESERVE > 0 /\ COMPLETED < 0
  /\ PREPARE \notin {AC_OFF, FAILED} /\ START \notin {AC_OFF, FAILED}
  /\ START \in Early /\ RESERVE \in Early /\ PREPARE \notin Early /\ NO \in Early
BY DEF Early, NO, START, PREPARE, RESERVE, COMPLETED, FAILED, AC_OFF

LEMMA ViewTypes ==
  ASSUME NEW c, NEW x, ViewOk(x, c)
  PROVE  /\ x.i.amount \in Nat /\ x.i.step \in Steps
         /\ x.h \in SUBSET Tokens /\ x.s \in SUBSET Tokens
         /\ Value(x.h) \in Nat /\ Value(x.s) \in Nat
         /\ \A S \in SUBSET Publishers : Cost(x.i.amount, x.r, S) \in Nat
         /\ PaidIn(x.r) \in SUBSET Publishers /\ UnpaidIn(x.r) \in SUBSET Publishers
<1>1. x.i.amount \in Nat /\ x.i.step \in Steps
  BY DEF ViewOk, Info
<1>2. x.h \in SUBSET Tokens /\ x.s \in SUBSET Tokens
  BY DEF ViewOk
<1>3. \A S \in SUBSET Publishers : Cost(x.i.amount, x.r, S) \in Nat
  BY <1>1, CostType
<1>4. PaidIn(x.r) \in SUBSET Publishers /\ UnpaidIn(x.r) \in SUBSET Publishers
  BY DEF PaidIn, UnpaidIn, ListedIn
<1> QED
  BY <1>1, <1>2, <1>3, <1>4, ValueType

\* Rows nothing is recorded in are covered by no token at all.
LEMMA UntouchedCovered ==
  ASSUME NEW c, NEW x, ViewOk(x, c), Untouched(x.r)
  PROVE  Covers(x, PaidIn(x.r))
<1>1. \A p \in PaidIn(x.r) : x.r[p].total = 0
  BY DEF PaidIn, ListedIn, Untouched
<1>2. Cost(x.i.amount, x.r, PaidIn(x.r)) = 0
  BY <1>1, ViewTypes, CostOfNothing
<1> QED
  BY <1>2, ViewTypes DEF Covers

(***************************************************************************)
(* Every move keeps the course                                             *)
(***************************************************************************)
LEMMA FlowTurn ==
  ASSUME NEW x, NEW y, NEW db, NEW cr, NEW readable,
         Flow(x), Turn(x, y, db, cr, readable)
  PROVE  Flow(y)
BY DEF Flow, Turn, SameTerms, SameTokens, Covers

LEMMA FlowCreate ==
  ASSUME NEW c, NEW x, NEW y, ViewOk(x, c), ViewOk(y, c), Flow(x), Create(x, y)
  PROVE  Flow(y)
<1>1. /\ y.h = {} /\ y.s = {} /\ y.v = {} /\ y.i.step = START
      /\ RowsOk(y.r) /\ Untouched(y.r)
  BY DEF Flow, Create, SameTokens, Early
<1>2. Covers(y, PaidIn(y.r))
  BY <1>1, UntouchedCovered
<1>3. OpFits(y)
  BY <1>1 DEF OpFits, Create
<1> QED
  BY <1>1, <1>2, <1>3, StepsDiffer DEF Flow, Create

LEMMA MarkedList ==
  ASSUME NEW c, NEW x, NEW y, ViewOk(x, c), Flow(x), Mark(x, y)
  PROVE  /\ x.i.step = START /\ y.o.toks \in SUBSET Tokens
         /\ Exact(y.o.toks, x.i.amount)
         /\ Cardinality(y.o.toks) <= TokensFor(x.i.amount)
         /\ y.o.toks # {}
<1> DEFINE list == TakeUntil(x.o.toks, x.i.amount)
<1>1. /\ x.i.step = START /\ x.i.amount \in Nat /\ x.i.amount > 0
      /\ x.o.toks \in SUBSET Tokens
  BY ViewTypes, StepsDiffer DEF Flow, OpFits, Mark, ViewOk, Op
<1>2. list \in SUBSET Tokens
  BY <1>1, TakeUntilType
<1>3. Value(list) >= x.i.amount
  BY <1>1, TakeEnough DEF Mark
<1>4. list # {}
  <2>1. Value({}) = 0
    BY FS_EmptySet, TokenProducts DEF Value
  <2> HIDE DEF list
  <2> QED
    BY <1>1, <1>3, <2>1
<1>5. Exact(list, x.i.amount)
  <2>1. TokenValue * (Cardinality(list) - 1) < x.i.amount
    BY <1>1, <1>4, TakeAtMost
  <2> QED
    BY <1>3, <2>1 DEF Exact
<1>6. Cardinality(list) <= TokensFor(x.i.amount)
  BY <1>1, TakenWithinTokensFor
<1>7. y.o.toks = list
  BY DEF Mark
<1> HIDE DEF list
<1> QED
  BY <1>1, <1>2, <1>4, <1>5, <1>6, <1>7

LEMMA FlowMark ==
  ASSUME NEW c, NEW x, NEW y, ViewOk(x, c), ViewOk(y, c), Flow(x), Mark(x, y)
  PROVE  Flow(y)
<1>1. /\ x.i.step = START /\ Exact(y.o.toks, x.i.amount)
      /\ y.i.step \in {START, RESERVE} /\ x.i.amount = y.i.amount /\ y.i.type = x.i.type
      /\ y.r = x.r /\ y.s = x.s /\ y.v = x.v
      /\ y.o.at = "OnMarkReserved" /\ y.o.step = START
  BY MarkedList DEF Mark, SameTerms
<1>2. /\ RowsOk(y.r) /\ Untouched(y.r) /\ y.s = {} /\ y.v = {}
      /\ x.i.amount > 0 /\ (x.i.type = "AC" => x.i.amount % TokenValue = 0)
      /\ x.h \ x.s # {} => Value(x.h) >= x.i.amount
  BY <1>1, StepsDiffer DEF Flow
<1>3. OpFits(y)
  BY <1>1 DEF OpFits
<1>4. Covers(y, PaidIn(y.r))
  BY <1>2, UntouchedCovered
<1>5. y.h \ y.s # {} => Value(y.h) >= y.i.amount
  <2>1. CASE y.h = x.h
    BY <1>1, <1>2, <2>1
  <2>2. CASE y.h = x.h \union y.o.toks
    <3>1. Value(y.o.toks) <= Value(y.h)
      BY <2>2, ValueGrows DEF ViewOk
    <3>2. Value(y.o.toks) >= y.i.amount
      BY <1>1 DEF Exact
    <3>3. Value(y.o.toks) \in Nat /\ Value(y.h) \in Nat /\ y.i.amount \in Nat
      BY <2>2, ValueType, ViewTypes DEF ViewOk
    <3> QED
      BY <3>1, <3>2, <3>3
  <2> QED
    BY <2>1, <2>2 DEF Mark
<1> QED
  BY <1>1, <1>2, <1>3, <1>4, <1>5, StepsDiffer DEF Flow

LEMMA FlowDraw ==
  ASSUME NEW c, NEW x, NEW y, ViewOk(x, c), ViewOk(y, c), Flow(x), Draw(x, y)
  PROVE  Flow(y)
<1>1. /\ x.i.step \in {START, RESERVE} /\ y.i.step \in {START, RESERVE}
      /\ x.i.amount = y.i.amount /\ y.i.type = x.i.type
      /\ y.h = x.h /\ y.s = x.s /\ y.v = x.v
      /\ y.o.at = "OnPrepareAutoContribution"
  BY DEF Draw, SameTerms, SameTokens, Flow, OpFits
<1>2. /\ RowsOk(y.r) /\ Untouched(y.r) /\ y.s = {} /\ y.v = {}
      /\ x.i.amount > 0 /\ (x.i.type = "AC" => x.i.amount % TokenValue = 0)
      /\ x.h \ x.s # {} => Value(x.h) >= x.i.amount
  BY <1>1, StepsDiffer DEF Flow, Draw
<1>3. OpFits(y)
  BY <1>1 DEF OpFits
<1>4. Covers(y, PaidIn(y.r))
  BY <1>2, UntouchedCovered
<1> QED
  BY <1>1, <1>2, <1>3, <1>4, StepsDiffer DEF Flow

LEMMA FlowPrepared ==
  ASSUME NEW c, NEW x, NEW y, ViewOk(x, c), ViewOk(y, c), Flow(x), Prepared(x, y)
  PROVE  Flow(y) /\ x.i.step \in {START, RESERVE}
<1>1. /\ x.i.step \in {START, RESERVE} /\ y.i.step = PREPARE
      /\ x.i.amount = y.i.amount /\ y.i.type = x.i.type
      /\ y.h = x.h /\ y.s = x.s /\ y.v = x.v /\ y.r = x.r
      /\ y.o.at = "PrepareStepSaved" /\ y.o.ok
  BY DEF Prepared, SameTerms, SameTokens, Flow, OpFits
<1>2. OpFits(y)
  BY <1>1 DEF OpFits
<1> QED
  BY <1>1, <1>2, StepsDiffer DEF Flow, Covers

LEMMA FlowPost ==
  ASSUME NEW c, NEW x, NEW y, ViewOk(x, c), ViewOk(y, c), Flow(x), Post(x, y, c)
  PROVE  Flow(y)
<1>1. /\ x.i.step = PREPARE /\ x.o.toks \in {{}, x.h \ x.s}
      /\ y.i = x.i /\ y.r = x.r /\ y.h = x.h /\ y.s = x.s
      /\ y.o.at = "OnRedeemTokens"
  BY DEF Post, Flow, OpFits
<1>2. x.o.toks = x.h \ x.s
  <2>1. TakeUntil({}, x.r[y.o.pub].total) = {}
    BY DEF TakeUntil
  <2> QED
    BY <1>1, <2>1 DEF Post
<1>3. OpFits(y)
  BY <1>1, <1>2 DEF OpFits, Post
<1> QED
  BY <1>1, <1>3, StepsDiffer DEF Flow, Covers


\* The tokens a payment spends cover the publisher, or complete the amount.
LEMMA SpendCovers ==
  ASSUME NEW c, NEW x, NEW y, ViewOk(x, c), ViewOk(y, c), Flow(x), Spend(x, y)
  PROVE  Covers(y, PaidIn(x.r) \union {x.o.pub})
<1> DEFINE p == x.o.pub
           rest == x.h \ x.s
           total == x.r[p].total
           a == x.i.amount
           took == Value(x.o.toks)
           old == Value(x.s)
           now == Value(y.s)
           before == Cost(a, x.r, PaidIn(x.r))
           after == Cost(a, x.r, PaidIn(x.r) \union {p})
<1>1. /\ FirstIn(x.r, p) /\ x.o.toks # {} /\ x.o.toks = TakeUntil(rest, total)
      /\ y.i = x.i /\ y.r = x.r /\ y.h = x.h /\ y.s = x.s \union x.o.toks
  BY DEF Spend, Flow, OpFits
<1>2. /\ p \in Publishers /\ x.r \in [Publishers -> Row]
      /\ x.h \in SUBSET Tokens /\ rest \in SUBSET Tokens /\ x.s \in SUBSET x.h
      /\ x.o.toks \in SUBSET rest
  BY <1>1 DEF ViewOk, FirstIn, UnpaidIn, ListedIn, TakeUntil
<1>3. total \in Nat
  BY <1>2 DEF Row
<1>4. a \in Nat /\ old \in Nat /\ now \in Nat
  BY <1>1, ViewTypes
<1>5. before \in Nat /\ after \in Nat /\ after <= before + total
  <2>1. PaidIn(x.r) \in SUBSET Publishers /\ PaidIn(x.r) \union {p} \in SUBSET Publishers
    BY <1>2, ViewTypes
  <2> QED
    BY <1>2, <1>4, <2>1, CostType, CostOfOneMore
<1>6. now = old + took /\ took \in Nat
  <2>1. x.s \intersect x.o.toks = {} /\ x.s \in SUBSET Tokens /\ x.o.toks \in SUBSET Tokens
    BY <1>2
  <2> QED
    BY <1>1, <2>1, ValueOfUnion, ValueType
<1>7. old >= before \/ old >= a
  BY DEF Flow, Covers
<1>8. took >= total \/ now >= a
  <2>1. CASE Value(rest) >= total
    BY <1>1, <1>2, <1>3, <2>1, TakeEnough
  <2>2. CASE ~(Value(rest) >= total)
    <3>1. Value(rest) < total
      BY <1>2, <1>3, <2>2, ValueType
    <3>2. TakeUntil(rest, total) = rest
      BY <1>2, <1>3, <3>1, TakeRest
    <3>3. y.s = x.h /\ rest # {}
      BY <1>1, <1>2, <3>2
    <3> QED
      BY <3>3 DEF Flow
  <2> QED
    BY <2>1, <2>2
<1> HIDE DEF total, a, took, old, now, before, after
<1>9. now >= after \/ now >= a
  BY <1>3, <1>4, <1>5, <1>6, <1>7, <1>8
<1> QED
  BY <1>1, <1>9 DEF Covers, now, after, a

LEMMA FlowSpend ==
  ASSUME NEW c, NEW x, NEW y, ViewOk(x, c), ViewOk(y, c), Flow(x), Spend(x, y)
  PROVE  Flow(y)
<1>1. /\ x.i.step = PREPARE /\ FirstIn(x.r, x.o.pub)
      /\ x.o.final => LastIn(x.r, x.o.pub)
      /\ y.i = x.i /\ y.r = x.r /\ y.h = x.h /\ y.s = x.s \union x.o.toks
      /\ y.o.at = "TokenProcessed" /\ y.o.pub = x.o.pub /\ y.o.final = x.o.final
  BY DEF Spend, Flow, OpFits
<1>2. Covers(y, PaidIn(x.r) \union {x.o.pub})
  BY SpendCovers
<1>3. OpFits(y)
  BY <1>1, <1>2 DEF OpFits
<1>4. Covers(y, PaidIn(y.r))
  <2>1. Value(x.s) <= Value(y.s)
    BY <1>1, ValueGrows, ViewTypes
  <2>2. /\ Value(x.s) \in Nat /\ Value(y.s) \in Nat /\ x.i.amount \in Nat
        /\ Cost(x.i.amount, x.r, PaidIn(x.r)) \in Nat
    BY ViewTypes
  <2> QED
    BY <1>1, <2>1, <2>2 DEF Flow, Covers
<1> QED
  BY <1>1, <1>3, <1>4, StepsDiffer DEF Flow

LEMMA RecordedView ==
  ASSUME NEW c, NEW x, NEW y, ViewOk(x, c), Flow(x), Record(x, y)
  PROVE  /\ x.i.step = PREPARE /\ FirstIn(x.r, x.o.pub) /\ x.o.pub \in UnpaidIn(x.r)
         /\ x.o.final => LastIn(x.r, x.o.pub)
         /\ Covers(x, PaidIn(x.r) \union {x.o.pub})
         /\ y.i = x.i /\ y.r = Recorded(x.r, x.o.pub) /\ y.h = x.h /\ y.s = x.s /\ y.v = x.v
         /\ y.o.at = "ContributionAmountSaved" /\ y.o.final = x.o.final
         /\ RowsOk(x.r) /\ x.r \in [Publishers -> Row] /\ x.o.pub \in Publishers
BY DEF Record, Flow, OpFits, SameTokens, ViewOk, FirstIn, UnpaidIn, ListedIn

LEMMA FlowRecord ==
  ASSUME NEW c, NEW x, NEW y, ViewOk(x, c), ViewOk(y, c), Flow(x), Record(x, y)
  PROVE  Flow(y)
<1> DEFINE p == x.o.pub
<1>1. /\ x.i.step = PREPARE /\ FirstIn(x.r, p) /\ p \in UnpaidIn(x.r)
      /\ x.o.final => LastIn(x.r, p)
      /\ Covers(x, PaidIn(x.r) \union {p})
      /\ y.i = x.i /\ y.r = Recorded(x.r, p) /\ y.h = x.h /\ y.s = x.s /\ y.v = x.v
      /\ y.o.at = "ContributionAmountSaved" /\ y.o.final = x.o.final
      /\ RowsOk(x.r) /\ x.r \in [Publishers -> Row] /\ p \in Publishers
  BY RecordedView
<1> HIDE DEF p
<1>2. /\ RowsOk(y.r)
      /\ \A q \in Publishers : y.r[q].total = x.r[q].total
      /\ UnpaidIn(y.r) = UnpaidIn(x.r) \ {p}
      /\ PaidIn(y.r) = PaidIn(x.r) \union {p}
  BY <1>1, RecordedRows
<1>3. Covers(y, PaidIn(y.r))
  <2>1. PaidIn(y.r) \in SUBSET Publishers
    BY ViewTypes
  <2>2. Cost(x.i.amount, y.r, PaidIn(y.r)) = Cost(x.i.amount, x.r, PaidIn(y.r))
    BY <1>2, <2>1, SameCost
  <2> QED
    BY <1>1, <1>2, <2>2 DEF Covers
<1>4. y.o.final => UnpaidIn(y.r) = {}
  BY <1>1, <1>2, LastFirst
<1>5. OpFits(y)
  BY <1>1, <1>4 DEF OpFits
<1> QED
  BY <1>1, <1>2, <1>3, <1>5, StepsDiffer DEF Flow

LEMMA FlowFinal ==
  ASSUME NEW c, NEW x, NEW y, ViewOk(x, c), ViewOk(y, c), Flow(x), Final(x, y)
  PROVE  Flow(y)
<1>1. /\ x.i.step # NO /\ y.i.step # NO /\ y.i.step \notin Early
      /\ x.i.amount = y.i.amount /\ y.i.type = x.i.type
      /\ y.h = x.h /\ y.s = x.s /\ y.v = x.v /\ y.r = x.r
      /\ y.i.step = COMPLETED => UnpaidIn(x.r) = {}
      /\ y.o.at = "ContributionCompletedSaved"
  <2>1. y.i.step \notin {NO, START, PREPARE, RESERVE} /\ x.i.step # NO
    BY StepNumbers, ViewTypes, StepsDiffer DEF Final
  <2> QED
    BY <2>1 DEF Early, Final, SameTerms, SameTokens
<1>2. OpFits(y)
  BY <1>1 DEF OpFits
<1> QED
  BY <1>1, <1>2 DEF Flow, Covers

LEMMA FlowRelease ==
  ASSUME NEW c, NEW x, NEW y, ViewOk(x, c), ViewOk(y, c), Flow(x), Release(x, y)
  PROVE  Flow(y)
<1>1. /\ y.h = x.s /\ y.s = x.s /\ y.v = x.v /\ y.r = x.r /\ y.i = x.i
      /\ y.o.at = "idle"
  BY DEF Release
<1>2. OpFits(y)
  BY <1>1 DEF OpFits
<1>3. x.i.step = NO => y.h = {}
  BY <1>1 DEF Flow, ViewOk
<1>4. y.h \ y.s = {}
  BY <1>1
<1> QED
  BY <1>1, <1>2, <1>3, <1>4 DEF Flow, Covers

LEMMA FlowMove ==
  ASSUME NEW c, NEW x, NEW y, NEW db, NEW cr, NEW readable,
         ViewOk(x, c), ViewOk(y, c), Flow(x), Move(x, y, c, db, cr, readable)
  PROVE  Flow(y)
BY FlowTurn, FlowCreate, FlowMark, FlowDraw, FlowPrepared, FlowPost, FlowSpend,
   FlowRecord, FlowFinal, FlowRelease DEF Move

(***************************************************************************)
(* Every move without failures keeps the votes                             *)
(***************************************************************************)
LEMMA NoVotes ==
  ASSUME NEW x, x.v = {}, x.o.at # "ContributionCompletedSaved"
  PROVE  Votes(x)
BY DEF Votes

LEMMA VotesTurn ==
  ASSUME NEW x, NEW y, NEW cr, NEW readable, Votes(x), Turn(x, y, 0, cr, readable)
  PROVE  Votes(y)
<1>1. /\ y.i.step = x.i.step /\ y.r = x.r /\ y.h = x.h /\ y.s = x.s /\ y.v = x.v
      /\ y.o.at \notin {"TokenProcessed", "ContributionAmountSaved",
                        "ContributionCompletedSaved"}
  BY DEF Turn, SameTokens
<1>2. ASSUME NEW w, Pending(x, w) PROVE Pending(y, w)
  BY <1>1, <1>2 DEF Pending
<1> QED
  BY <1>1, <1>2 DEF Votes, GivenUp

LEMMA VotesEarly ==
  ASSUME NEW c, NEW x, NEW y, ViewOk(x, c), Flow(x),
         Create(x, y) \/ Mark(x, y) \/ Draw(x, y) \/ Prepared(x, y)
  PROVE  Votes(y) /\ y.v = {} /\ y.s = {} /\ y.o.at # "TokenProcessed"
<1>1. x.i.step \in {NO, START, RESERVE}
  BY DEF Create, Mark, Draw, Prepared, Flow, OpFits
<1>2. x.v = {} /\ x.s = {}
  BY <1>1 DEF Flow, Early
<1>3. y.v = {} /\ y.s = {} /\ y.o.at # "ContributionCompletedSaved"
      /\ y.o.at # "TokenProcessed"
  BY <1>2 DEF Create, Mark, Draw, Prepared, SameTokens
<1> QED
  BY <1>3, NoVotes

LEMMA VotesPost ==
  ASSUME NEW c, NEW x, NEW y, ViewOk(x, c), ViewOk(y, c), Flow(x), Votes(x), Post(x, y, c)
  PROVE  Votes(y)
<1> DEFINE p == y.o.pub
           list == y.o.toks
<1>1. /\ x.i.step = PREPARE /\ x.o.at = "OnProcessTokens" /\ FirstIn(x.r, p)
      /\ y.i = x.i /\ y.r = x.r /\ y.h = x.h /\ y.s = x.s
      /\ y.o.at = "OnRedeemTokens" /\ y.v = x.v \union (list \X {c} \X {p})
      /\ RowsOk(x.r) /\ x.r \in [Publishers -> Row]
  BY DEF Post, Flow, OpFits, ViewOk
<1>2. list = TakeUntil(x.h \ x.s, x.r[p].total)
  BY FlowPost, <1>1 DEF Flow, OpFits
<1> HIDE DEF p, list
<1>3. ~GivenUp(x)
  BY <1>1, StepsDiffer DEF GivenUp
<1>4. ASSUME NEW w \in x.v PROVE w[1] \in y.s \/ Pending(y, w)
  BY <1>1, <1>3 DEF Votes, Pending
<1>5. ASSUME NEW w \in list \X {c} \X {p} PROVE Pending(y, w) /\ w[1] \in list /\ w[1] \notin x.s
  <2>1. w[1] \in list /\ w[3] = p
    OBVIOUS
  <2> QED
    BY <1>1, <1>2, <2>1 DEF Pending, TakeUntil
<1>6. ASSUME NEW w \in list \X {c} \X {p}, NEW z \in x.v, w[1] = z[1] PROVE w = z
  <2>1. w[1] \in list /\ w[3] = p /\ w[2] = c /\ w = <<w[1], w[2], w[3]>>
    OBVIOUS
  <2>2. Pending(x, z)
    BY <1>3, <1>5, <1>6 DEF Votes
  <2>3. z[3] = p
    BY <1>1, <2>2, OneFirst DEF Pending
  <2>4. z[2] = c /\ z = <<z[1], z[2], z[3]>>
    <3>1. z \in Tokens \X {c} \X Publishers
      BY DEF ViewOk
    <3> QED
      BY <3>1
  <2>5. <<w[1], w[2], w[3]>> = <<z[1], z[2], z[3]>>
    BY <1>6, <2>1, <2>3, <2>4
  <2> QED
    BY <2>1, <2>4, <2>5
<1>7. ASSUME NEW w \in list \X {c} \X {p}, NEW z \in list \X {c} \X {p}, w[1] = z[1]
      PROVE  w = z
  <2>1. /\ w = <<w[1], w[2], w[3]>> /\ w[2] = c /\ w[3] = p
        /\ z = <<z[1], z[2], z[3]>> /\ z[2] = c /\ z[3] = p
    OBVIOUS
  <2>2. <<w[1], w[2], w[3]>> = <<z[1], z[2], z[3]>>
    BY <1>7, <2>1
  <2> QED
    BY <2>1, <2>2
<1>8. \A w, z \in y.v : w[1] = z[1] => w = z
  BY <1>1, <1>6, <1>7 DEF Votes
<1>9. \A w \in y.v : w[1] \in y.s \/ Pending(y, w)
  BY <1>1, <1>4, <1>5
<1> QED
  BY <1>1, <1>8, <1>9 DEF Votes

LEMMA VotesSpend ==
  ASSUME NEW c, NEW x, NEW y, ViewOk(x, c), ViewOk(y, c), Flow(x), Votes(x), Spend(x, y)
  PROVE  Votes(y)
<1>1. /\ x.i.step = PREPARE /\ FirstIn(x.r, x.o.pub)
      /\ x.o.toks = TakeUntil(x.h \ x.s, x.r[x.o.pub].total)
      /\ y.i = x.i /\ y.v = x.v /\ y.s = x.s \union x.o.toks
      /\ y.o.at = "TokenProcessed"
      /\ RowsOk(x.r) /\ x.r \in [Publishers -> Row]
  BY DEF Spend, Flow, OpFits, ViewOk
<1>2. ASSUME NEW w \in x.v, Pending(x, w) PROVE w[1] \in y.s
  <2>1. w[3] = x.o.pub
    BY <1>1, <1>2, OneFirst DEF Pending
  <2> QED
    BY <1>1, <1>2, <2>1 DEF Pending
<1>3. ~GivenUp(x)
  BY <1>1, StepsDiffer DEF GivenUp
<1> QED
  BY <1>1, <1>2, <1>3 DEF Votes

LEMMA VotesRecord ==
  ASSUME NEW c, NEW x, NEW y, ViewOk(x, c), Flow(x), Votes(x), Record(x, y)
  PROVE  Votes(y)
<1>1. /\ y.i = x.i /\ y.s = x.s /\ y.v = x.v
      /\ y.o.at = "ContributionAmountSaved" /\ x.o.at = "TokenProcessed"
  BY RecordedView DEF Record
<1>2. \A w \in x.v : ~Pending(x, w)
  BY <1>1 DEF Pending
<1> QED
  BY <1>1, <1>2 DEF Votes, GivenUp

LEMMA VotesFinal ==
  ASSUME NEW c, NEW x, NEW y, ViewOk(x, c), ViewOk(y, c), Flow(x), Votes(x), Final(x, y)
  PROVE  Votes(y)
<1>1. /\ y.s = x.s /\ y.v = x.v /\ y.i.step < 0 /\ x.i.step > 0
      /\ y.i.step = COMPLETED => UnpaidIn(x.r) = {}
      /\ x.i.step = PREPARE => y.i.step \in {COMPLETED, AC_OFF, FAILED}
      /\ y.o.at = "ContributionCompletedSaved"
  BY DEF Final, SameTokens
<1>2. CASE x.i.step = PREPARE
  <2>1. CASE y.i.step = COMPLETED
    <3>1. \A w : ~Pending(x, w)
      BY <1>1, <2>1 DEF Pending, FirstIn
    <3>2. ~GivenUp(x)
      BY <1>2, StepsDiffer DEF GivenUp
    <3> QED
      BY <1>1, <3>1, <3>2 DEF Votes
  <2>2. CASE GivenUp(y)
    BY <1>1, <2>2 DEF Votes
  <2> QED
    BY <1>1, <1>2, <2>1, <2>2 DEF GivenUp
<1>3. CASE x.i.step # PREPARE
  <2>1. x.i.step \in Early
    BY <1>1, <1>3, StepNumbers, ViewTypes DEF Early
  <2>2. x.v = {}
    BY <2>1 DEF Flow
  <2> QED
    BY <1>1, <2>2 DEF Votes
<1> QED
  BY <1>2, <1>3

LEMMA VotesRelease ==
  ASSUME NEW c, NEW x, NEW y, ViewOk(x, c), Votes(x), Release(x, y)
  PROVE  Votes(y)
<1>1. /\ y.i = x.i /\ y.s = x.s /\ y.v = x.v /\ y.o.at = "idle"
      /\ x.o.at = "ContributionCompletedSaved" /\ x.i.step < 0
  BY DEF Release, Votes
<1>2. x.i.step # PREPARE
  BY <1>1, StepsDiffer DEF PREPARE
<1>3. \A w : ~Pending(x, w)
  BY <1>2 DEF Pending
<1> QED
  BY <1>1, <1>3 DEF Votes, GivenUp

LEMMA VotesMove ==
  ASSUME NEW c, NEW x, NEW y, NEW cr, NEW readable,
         ViewOk(x, c), ViewOk(y, c), Flow(x), Votes(x), Move(x, y, c, 0, cr, readable)
  PROVE  Votes(y)
BY VotesTurn, VotesEarly, VotesPost, VotesSpend, VotesRecord, VotesFinal, VotesRelease
   DEF Move


(***************************************************************************)
(* Every move without failures and crashes pays no publisher twice         *)
(***************************************************************************)
LEMMA ForNothing ==
  ASSUME NEW p
  PROVE  For({}, p) = {} /\ Cardinality(For({}, p)) = 0
<1>1. For({}, p) = {}
  BY DEF For
<1> QED
  BY <1>1, FS_EmptySet

\* Votes for one publisher with tokens of a list are no more than its tokens.
LEMMA VotesOfList ==
  ASSUME NEW c, NEW list \in SUBSET Tokens, NEW p, NEW W \in SUBSET (list \X {c} \X {p})
  PROVE  /\ Cardinality(W) <= Cardinality(list)
         /\ Cardinality(W) \in Nat /\ Cardinality(list) \in Nat
<1> DEFINE f == [w \in W |-> w[1]]
<1>1. \A w \in W : w[1] \in list /\ w = <<w[1], c, p>>
  OBVIOUS
<1>2. f \in Injection(W, list)
  <2>1. f \in [W -> list]
    BY <1>1
  <2>2. ASSUME NEW w \in W, NEW z \in W, f[w] = f[z] PROVE w = z
    <3>1. w[1] = z[1]
      BY <2>2
    <3> QED
      BY <1>1, <3>1
  <2> HIDE DEF f
  <2> QED
    BY <2>1, <2>2 DEF Injection, IsInjective
<1>3. IsFiniteSet(list)
  BY TokenSets
<1> HIDE DEF f
<1>4. IsFiniteSet(W) /\ Cardinality(W) <= Cardinality(list)
  BY <1>2, <1>3, FS_Injection
<1> QED
  BY <1>3, <1>4, FS_CardinalityType

LEMMA RepayTurn ==
  ASSUME NEW x, NEW y, NEW readable, Repay(x), Turn(x, y, 0, 0, readable)
  PROVE  Repay(y)
<1>1. /\ y.i.step = x.i.step /\ y.r = x.r /\ y.h = x.h /\ y.s = x.s /\ y.v = x.v
      /\ y.o.at # "TokenProcessed" /\ x.o.at # "TokenProcessed"
  BY DEF Turn, SameTokens, Repay
<1> QED
  BY <1>1 DEF Repay

LEMMA RepayEarly ==
  ASSUME NEW c, NEW x, NEW y, ViewOk(x, c), ViewOk(y, c), Flow(x),
         Create(x, y) \/ Mark(x, y) \/ Draw(x, y) \/ Prepared(x, y)
  PROVE  Repay(y)
<1>1. y.v = {} /\ y.o.at # "TokenProcessed"
  BY VotesEarly
<1>2. \A p \in Publishers : TokensFor(y.r[p].total) \in Nat
  <2>1. \A p \in Publishers : y.r[p].total \in Nat
    BY DEF ViewOk, Row
  <2> QED
    BY <2>1, TokensForIs
<1>3. \A p : For(y.v, p) = {} /\ Cardinality(For(y.v, p)) = 0
  BY <1>1, ForNothing
<1> QED
  BY <1>1, <1>2, <1>3 DEF Repay

LEMMA RepayPost ==
  ASSUME NEW c, NEW x, NEW y, ViewOk(x, c), ViewOk(y, c), Flow(x), Votes(x), Repay(x),
         Post(x, y, c)
  PROVE  Repay(y)
<1> DEFINE p == y.o.pub
           list == y.o.toks
<1>1. /\ x.i.step = PREPARE /\ x.o.at = "OnProcessTokens" /\ FirstIn(x.r, p)
      /\ y.i = x.i /\ y.r = x.r /\ y.h = x.h /\ y.s = x.s
      /\ y.o.at = "OnRedeemTokens" /\ y.v = x.v \union (list \X {c} \X {p})
      /\ RowsOk(x.r) /\ x.r \in [Publishers -> Row] /\ x.h \in SUBSET Tokens
  BY DEF Post, Flow, OpFits, ViewOk
<1>2. list = TakeUntil(x.h \ x.s, x.r[p].total)
  BY FlowPost, <1>1 DEF Flow, OpFits
<1>3. p \in Publishers /\ p \in UnpaidIn(x.r)
  BY <1>1 DEF FirstIn, UnpaidIn, ListedIn
<1>4. list \in SUBSET (x.h \ x.s) /\ list \in SUBSET Tokens
  BY <1>1, <1>2 DEF TakeUntil
<1> HIDE DEF p, list
<1>5. \A w \in For(x.v, p) : w[1] \notin x.s
  BY <1>1, <1>3, StepsDiffer DEF Repay
<1>6. For(x.v, p) \in SUBSET (list \X {c} \X {p})
  <2>1. ASSUME NEW w \in For(x.v, p) PROVE w \in list \X {c} \X {p}
    <3>1. w \in x.v /\ w[3] = p /\ w \in Tokens \X {c} \X Publishers
      BY DEF For, ViewOk
    <3>2. Pending(x, w)
      BY <1>1, <1>5, <3>1, StepsDiffer DEF Votes, GivenUp
    <3>3. w[1] \in list
      BY <1>2, <3>1, <3>2 DEF Pending
    <3> QED
      BY <3>1, <3>3
  <2> QED
    BY <2>1
<1>7. For(y.v, p) \in SUBSET (list \X {c} \X {p})
  <2>1. \A w \in For(y.v, p) : w \in list \X {c} \X {p} \/ w \in For(x.v, p)
    BY <1>1 DEF For
  <2> QED
    BY <1>6, <2>1
<1>8. Cardinality(For(y.v, p)) <= TokensFor(y.r[p].total)
  <2>1. /\ Cardinality(For(y.v, p)) <= Cardinality(list)
        /\ Cardinality(list) \in Nat /\ Cardinality(For(y.v, p)) \in Nat
    BY <1>4, <1>7, VotesOfList
  <2>2. x.r[p].total \in Nat
    BY <1>1, <1>3 DEF Row
  <2>3. Cardinality(list) <= TokensFor(x.r[p].total) /\ TokensFor(x.r[p].total) \in Nat
    <3>1. x.h \ x.s \in SUBSET Tokens
      BY <1>1
    <3> QED
      BY <1>2, <2>2, <3>1, TakenWithinTokensFor, TokensForIs
  <2> QED
    BY <1>1, <2>1, <2>3
<1>9. ASSUME NEW q \in Publishers, q # p PROVE For(y.v, q) = For(x.v, q)
  BY <1>1, <1>9 DEF For
<1>10. \A q \in Publishers : Cardinality(For(y.v, q)) <= TokensFor(y.r[q].total)
  BY <1>1, <1>8, <1>9 DEF Repay
<1>11. ASSUME NEW q \in UnpaidIn(y.r) PROVE \A w \in For(y.v, q) : w[1] \notin y.s
  <2>1. CASE q = p
    BY <1>1, <1>4, <1>7, <2>1
  <2>2. CASE q # p
    <3>1. q \in Publishers
      BY DEF UnpaidIn, ListedIn
    <3> QED
      BY <1>1, <1>9, <2>2, <3>1, StepsDiffer DEF Repay
  <2> QED
    BY <2>1, <2>2
<1> QED
  BY <1>1, <1>10, <1>11 DEF Repay

LEMMA RepaySpend ==
  ASSUME NEW c, NEW x, NEW y, ViewOk(x, c), ViewOk(y, c), Flow(x), Votes(x), Repay(x),
         Spend(x, y)
  PROVE  Repay(y)
<1>1. /\ x.i.step = PREPARE /\ FirstIn(x.r, x.o.pub) /\ x.o.at = "OnRedeemTokens"
      /\ y.i = x.i /\ y.r = x.r /\ y.v = x.v /\ y.s = x.s \union x.o.toks
      /\ y.o.at = "TokenProcessed" /\ y.o.ok /\ y.o.pub = x.o.pub
      /\ RowsOk(x.r) /\ x.r \in [Publishers -> Row]
  BY DEF Spend, Flow, OpFits, ViewOk
<1>2. ASSUME NEW q \in UnpaidIn(y.r), q # x.o.pub, NEW w \in For(y.v, q)
      PROVE  FALSE
  <2>1. w \in x.v /\ w[3] = q /\ w[1] \notin x.s
    BY <1>1, <1>2, StepsDiffer DEF Repay, For
  <2>2. Pending(x, w)
    BY <1>1, <2>1, StepsDiffer DEF Votes, GivenUp
  <2> QED
    BY <1>1, <1>2, <2>1, <2>2, OneFirst DEF Pending
<1> QED
  BY <1>1, <1>2 DEF Repay

LEMMA RepayRecord ==
  ASSUME NEW c, NEW x, NEW y, ViewOk(x, c), Flow(x), Repay(x), Record(x, y)
  PROVE  Repay(y)
<1> DEFINE p == x.o.pub
<1>1. p \in UnpaidIn(x.r) /\ RowsOk(x.r) /\ x.r \in [Publishers -> Row]
  BY RecordedView
<1>3. /\ y.i = x.i /\ y.r = Recorded(x.r, p) /\ y.s = x.s /\ y.v = x.v
      /\ y.o.at = "ContributionAmountSaved"
  BY DEF Record, SameTokens
<1> HIDE DEF p
<1>2. /\ \A q \in Publishers : y.r[q].total = x.r[q].total
      /\ UnpaidIn(y.r) = UnpaidIn(x.r) \ {p}
  BY <1>1, <1>3, RecordedRows
<1> QED
  BY <1>2, <1>3 DEF Repay, p

LEMMA RepayEnd ==
  ASSUME NEW c, NEW x, NEW y, ViewOk(x, c), ViewOk(y, c), Votes(x), Repay(x),
         Final(x, y) \/ Release(x, y)
  PROVE  Repay(y)
<1>1. y.i.step < 0 /\ y.r = x.r /\ y.v = x.v /\ y.o.at # "TokenProcessed"
  BY DEF Final, Release, Votes, SameTokens
<1>2. ~(y.i.step > 0)
  BY <1>1, StepNumbers, ViewTypes
<1> QED
  BY <1>1, <1>2 DEF Repay

LEMMA RepayMove ==
  ASSUME NEW c, NEW x, NEW y, NEW readable,
         ViewOk(x, c), ViewOk(y, c), Flow(x), Votes(x), Repay(x),
         Move(x, y, c, 0, 0, readable)
  PROVE  Repay(y)
BY RepayTurn, RepayEarly, RepayPost, RepaySpend, RepayRecord, RepayEnd DEF Move

(***************************************************************************)
(* Every move without failures and crashes settles what it ends            *)
(***************************************************************************)
LEMMA SettledMove ==
  ASSUME NEW c, NEW x, NEW y, NEW readable,
         Settled(x), Move(x, y, c, 0, 0, readable)
  PROVE  Settled(y)
<1>1. CASE Turn(x, y, 0, 0, readable)
  BY <1>1 DEF Settled, Turn
<1>2. CASE Release(x, y)
  BY <1>2 DEF Settled, Release
<1>3. CASE ~Turn(x, y, 0, 0, readable) /\ ~Release(x, y)
  <2>1. y.o.at \notin {"idle", "Retry"}
    BY <1>3 DEF Move, Create, Mark, Draw, Prepared, Post, Spend, Record, Final
  <2> QED
    BY <2>1 DEF Settled
<1> QED
  BY <1>1, <1>2, <1>3


(***************************************************************************)
(* Every move keeps a tip's payment whole                                  *)
(***************************************************************************)
LEMMA PaidByGrows ==
  ASSUME NEW x, NEW y, NEW p, x.s \subseteq y.s, x.v \subseteq y.v, y.s \in SUBSET Tokens
  PROVE  Value(PaidBy(x, p)) <= Value(PaidBy(y, p)) /\ Value(PaidBy(x, p)) \in Nat
         /\ Value(PaidBy(y, p)) \in Nat
<1>1. PaidBy(x, p) \in SUBSET PaidBy(y, p) /\ PaidBy(y, p) \in SUBSET Tokens
  BY DEF PaidBy
<1> QED
  BY <1>1, ValueGrows, ValueType

LEMMA TipTurn ==
  ASSUME NEW x, NEW y, NEW db, NEW cr, NEW readable,
         Tip(x), Turn(x, y, db, cr, readable)
  PROVE  Tip(y)
BY DEF Tip, Turn, SameTerms, SameTokens, PaidBy

LEMMA TipCreate ==
  ASSUME NEW c, NEW x, NEW y, ViewOk(x, c), ViewOk(y, c), Flow(x), Create(x, y)
  PROVE  Tip(y)
<1>1. y.h = {} /\ y.s = {} /\ y.o.at = "OnEntrySaved" /\ Untouched(y.r)
  BY DEF Create, Flow, SameTokens, Early
<1>2. y.i.amount \in Nat /\ Cardinality({}) = 0 /\ TokensFor(y.i.amount) \in Nat
  BY ViewTypes, FS_EmptySet, TokensForIs
<1>3. \A p : PaidBy(y, p) = {}
  BY <1>1 DEF PaidBy
<1>4. Value({}) = 0
  BY <1>2, TokenProducts DEF Value
<1>5. \A p \in Publishers : Value(PaidBy(y, p)) >= y.r[p].contributed
  <2> SUFFICES ASSUME NEW p \in Publishers
               PROVE  Value(PaidBy(y, p)) >= y.r[p].contributed
    OBVIOUS
  <2>1. Value(PaidBy(y, p)) = 0
    BY <1>3, <1>4
  <2>2. y.r[p].contributed = 0
    BY <1>1 DEF Untouched
  <2> QED
    BY <2>1, <2>2
<1>6. Cardinality(y.h) <= TokensFor(y.i.amount)
  BY <1>1, <1>2
<1>7. /\ y.i.type = "TIP" => \A p \in ListedIn(y.r) : y.r[p].total = y.i.amount
      /\ Cost(y.i.amount, y.r, Publishers) >= y.i.amount
  BY DEF Create
<1> QED
  BY <1>1, <1>5, <1>6, <1>7 DEF Tip

LEMMA TipMark ==
  ASSUME NEW c, NEW x, NEW y, ViewOk(x, c), ViewOk(y, c), Flow(x), Tip(x), Mark(x, y)
  PROVE  Tip(y)
<1> SUFFICES ASSUME y.i.type = "TIP" PROVE Tip(y)
  BY DEF Tip
<1>1. /\ x.i.step = START /\ x.i.type = "TIP"
      /\ y.r = x.r /\ y.s = x.s /\ y.v = x.v /\ y.i.amount = x.i.amount
      /\ y.o.at = "OnMarkReserved" /\ x.s = {} /\ x.h = {}
      /\ Cardinality(y.o.toks) <= TokensFor(x.i.amount)
      /\ y.h = {} \/ y.h = y.o.toks
      /\ y.i.step = START => y.h = {}
      /\ x.i.step # NO
  BY MarkedList, StepsDiffer DEF Mark, SameTerms, Flow, Tip
<1>2. Cardinality({}) <= TokensFor(x.i.amount)
  BY ViewTypes, FS_EmptySet, TokensForIs
<1>3. \A p : PaidBy(y, p) = PaidBy(x, p)
  BY <1>1 DEF PaidBy
<1> QED
  BY <1>1, <1>2, <1>3 DEF Tip

\* A move that only leaves the early steps, or ends.
LEMMA TipKept ==
  ASSUME NEW x, NEW y, Tip(x), SameTerms(x, y), y.r = x.r, SameTokens(x, y),
         y.o.at # "TokenProcessed", y.i.step # START, x.i.step # NO
  PROVE  Tip(y)
BY DEF Tip, SameTerms, SameTokens, PaidBy

LEMMA TipPost ==
  ASSUME NEW c, NEW x, NEW y, ViewOk(x, c), ViewOk(y, c), Flow(x), Tip(x), Post(x, y, c)
  PROVE  Tip(y)
<1> SUFFICES ASSUME y.i.type = "TIP" PROVE Tip(y)
  BY DEF Tip
<1>1. /\ x.i.step = PREPARE /\ y.i = x.i /\ y.r = x.r /\ y.h = x.h /\ y.s = x.s
      /\ x.v \subseteq y.v /\ y.o.at = "OnRedeemTokens"
  BY DEF Post, Flow, OpFits
<1>2. ASSUME NEW p \in Publishers
      PROVE  Value(PaidBy(y, p)) >= y.r[p].contributed
  <2>1. Value(PaidBy(x, p)) <= Value(PaidBy(y, p)) /\ Value(PaidBy(x, p)) \in Nat
        /\ Value(PaidBy(y, p)) \in Nat
    BY <1>1, ViewTypes, PaidByGrows
  <2>2. x.r[p].contributed \in Nat
    BY DEF ViewOk, Row
  <2>3. Value(PaidBy(x, p)) >= x.r[p].contributed
    BY <1>1 DEF Tip
  <2> QED
    BY <1>1, <2>1, <2>2, <2>3
<1> QED
  BY <1>1, <1>2, StepsDiffer DEF Tip

LEMMA TipSpend ==
  ASSUME NEW c, NEW x, NEW y, ViewOk(x, c), ViewOk(y, c), Flow(x), Tip(x), Spend(x, y)
  PROVE  Tip(y)
<1> SUFFICES ASSUME y.i.type = "TIP" PROVE Tip(y)
  BY DEF Tip
<1> DEFINE p == x.o.pub
<1>1. /\ x.i.step = PREPARE /\ FirstIn(x.r, p) /\ x.o.at = "OnRedeemTokens"
      /\ x.o.toks # {} /\ x.o.toks = TakeUntil(x.h \ x.s, x.r[p].total)
      /\ y.i = x.i /\ y.r = x.r /\ y.h = x.h /\ y.v = x.v /\ y.s = x.s \union x.o.toks
      /\ y.o.at = "TokenProcessed" /\ y.o.pub = p
  BY DEF Spend, Flow, OpFits
<1>2. /\ x.o.toks \X {c} \X {p} \subseteq x.v /\ x.h \in SUBSET Tokens
      /\ y.s \in SUBSET Tokens /\ x.i.amount \in Nat
  BY <1>1, ViewTypes DEF ViewOk
<1>3. p \in Publishers /\ p \in ListedIn(x.r)
  BY <1>1 DEF FirstIn, UnpaidIn, ListedIn
<1>4. x.h \ x.s # {}
  BY <1>1 DEF TakeUntil
<1>5. /\ x.s = {} /\ x.r[p].total = x.i.amount /\ Cardinality(x.h) <= TokensFor(x.i.amount)
      /\ Value(x.h) >= x.i.amount
  BY <1>1, <1>3, <1>4 DEF Tip, Flow
<1>6. x.o.toks = x.h
  <2>1. x.h \ x.s = x.h
    BY <1>5
  <2> QED
    BY <1>1, <1>2, <1>5, <2>1, TakeAllWithin
<1>7. y.s = x.h
  BY <1>1, <1>5, <1>6
<1>8. Value(PaidBy(y, p)) >= x.r[p].total
  <2>1. ASSUME NEW t \in x.h PROVE t \in PaidBy(y, p)
    <3>1. <<t, c, p>> \in x.v
      BY <1>2, <1>6
    <3>2. <<t, c, p>>[1] = t /\ <<t, c, p>>[3] = p
      OBVIOUS
    <3> QED
      BY <1>1, <1>7, <3>1, <3>2 DEF PaidBy
  <2>2. PaidBy(y, p) = x.h
    BY <1>7, <2>1 DEF PaidBy
  <2> QED
    BY <1>5, <2>2
<1>9. ASSUME NEW q \in Publishers
      PROVE  Value(PaidBy(y, q)) >= y.r[q].contributed
  <2>1. Value(PaidBy(x, q)) <= Value(PaidBy(y, q)) /\ Value(PaidBy(x, q)) \in Nat
        /\ Value(PaidBy(y, q)) \in Nat
    BY <1>1, <1>2, PaidByGrows
  <2>2. x.r[q].contributed \in Nat
    BY DEF ViewOk, Row
  <2>3. Value(PaidBy(x, q)) >= x.r[q].contributed
    BY <1>1 DEF Tip
  <2> QED
    BY <1>1, <2>1, <2>2, <2>3
<1>10. y.h \ y.s = {} /\ y.i.step # START
  BY <1>1, <1>7, StepsDiffer
<1> HIDE DEF p
<1> QED
  BY <1>1, <1>8, <1>9, <1>10 DEF Tip

LEMMA TipRecord ==
  ASSUME NEW c, NEW x, NEW y, ViewOk(x, c), ViewOk(y, c), Flow(x), Tip(x), Record(x, y)
  PROVE  Tip(y)
<1> SUFFICES ASSUME y.i.type = "TIP" PROVE Tip(y)
  BY DEF Tip
<1> DEFINE p == x.o.pub
<1>1. p \in UnpaidIn(x.r) /\ RowsOk(x.r) /\ x.r \in [Publishers -> Row] /\ x.i.step = PREPARE
  BY RecordedView
<1>2. /\ y.i = x.i /\ y.r = Recorded(x.r, p) /\ y.h = x.h /\ y.s = x.s /\ y.v = x.v
      /\ y.o.at = "ContributionAmountSaved" /\ x.o.at = "TokenProcessed" /\ x.o.ok
  BY DEF Record, SameTokens
<1> HIDE DEF p
<1>3. /\ \A q \in Publishers : /\ y.r[q].total = x.r[q].total
                               /\ q # p => y.r[q] = x.r[q]
      /\ y.r[p].contributed = x.r[p].total
      /\ ListedIn(y.r) = ListedIn(x.r)
  BY <1>1, <1>2, RecordedRows
<1>4. \A q : PaidBy(y, q) = PaidBy(x, q)
  BY <1>2 DEF PaidBy
<1>5. Cost(x.i.amount, y.r, Publishers) = Cost(x.i.amount, x.r, Publishers)
  BY <1>3, SameCost
<1>6. \A q \in Publishers : Value(PaidBy(y, q)) >= y.r[q].contributed
  BY <1>2, <1>3, <1>4 DEF Tip, p
<1>7. \A q \in ListedIn(y.r) : y.r[q].total = y.i.amount
  BY <1>2, <1>3 DEF Tip, ListedIn
<1> QED
  BY <1>1, <1>2, <1>5, <1>6, <1>7, StepsDiffer DEF Tip

LEMMA TipRelease ==
  ASSUME NEW c, NEW x, NEW y, ViewOk(x, c), ViewOk(y, c), Flow(x), Tip(x), Release(x, y)
  PROVE  Tip(y)
<1> SUFFICES ASSUME y.i.type = "TIP" PROVE Tip(y)
  BY DEF Tip
<1>1. /\ y.i = x.i /\ y.r = x.r /\ y.s = x.s /\ y.v = x.v /\ y.h = x.s
      /\ y.o.at = "idle" /\ x.s \in SUBSET x.h /\ x.h \in SUBSET Tokens
  BY DEF Release, ViewOk
<1>2. Cardinality(y.h) <= TokensFor(y.i.amount)
  <2>1. Cardinality(x.s) <= Cardinality(x.h) /\ Cardinality(x.s) \in Nat /\ Cardinality(x.h) \in Nat
    BY <1>1, TokenSets, FS_Subset
  <2>2. Cardinality(x.h) <= TokensFor(x.i.amount) /\ TokensFor(x.i.amount) \in Nat
    BY <1>1, ViewTypes, TokensForIs DEF Tip
  <2> QED
    BY <1>1, <2>1, <2>2
<1>3. \A q : PaidBy(y, q) = PaidBy(x, q)
  BY <1>1 DEF PaidBy
<1>4. y.i.step = START => y.h = {}
  BY <1>1 DEF Tip
<1> QED
  BY <1>1, <1>2, <1>3, <1>4 DEF Tip

LEMMA TipMove ==
  ASSUME NEW c, NEW x, NEW y, NEW db, NEW cr, NEW readable,
         ViewOk(x, c), ViewOk(y, c), Flow(x), Tip(x), Move(x, y, c, db, cr, readable)
  PROVE  Tip(y)
<1>1. CASE Draw(x, y)
  BY <1>1 DEF Draw, SameTerms, Tip
<1>2. CASE Prepared(x, y)
  <2>1. x.i.step # NO
    BY <1>2, FlowPrepared, StepsDiffer
  <2> QED
    BY <1>2, <2>1, TipKept, StepsDiffer DEF Prepared
<1>3. CASE Final(x, y)
  <2>1. x.i.step # NO /\ y.i.step # START
    BY <1>3, StepNumbers, ViewTypes DEF Final, NO
  <2> QED
    BY <1>3, <2>1, TipKept DEF Final
<1> QED
  BY <1>1, <1>2, <1>3, TipTurn, TipCreate, TipMark, TipPost, TipSpend, TipRecord,
     TipRelease DEF Move


(***************************************************************************)
(* Every move of an auto contribution keeps its one reservation, while no  *)
(* token expires                                                           *)
(***************************************************************************)
\* An amount that is a whole number of votes is worth its tokens exactly.
LEMMA ExactValue ==
  ASSUME NEW S \in SUBSET Tokens, NEW a \in Nat, Exact(S, a), a % TokenValue = 0
  PROVE  Value(S) = a
<1> DEFINE n == Cardinality(S)
           k == a \div TokenValue
<1>1. TokenValue \in Nat /\ TokenValue > 0 /\ n \in Nat
  BY ConstantsAssumption, TokenSets
<1>2. k \in Nat /\ a = TokenValue * k
  BY <1>1
<1>3. TokenValue * (n - 1) < a /\ a <= TokenValue * n
  BY DEF Exact, Value
<1> HIDE DEF n, k
<1>4. CASE k <= n - 1
  <2>1. n - 1 \in Nat
    BY <1>1, <1>2, <1>4
  <2>2. TokenValue * k <= TokenValue * (n - 1) /\ TokenValue * (n - 1) \in Nat
        /\ TokenValue * k \in Nat
    BY <1>2, <1>4, <2>1, TokenProducts
  <2> QED
    BY <1>2, <1>3, <2>2
<1>5. CASE n + 1 <= k
  <2>1. TokenValue * (n + 1) <= TokenValue * k
    BY <1>1, <1>2, <1>5, TokenProducts
  <2>2. TokenValue * (n + 1) = TokenValue * n + TokenValue
    BY <1>1
  <2>3. TokenValue * n \in Nat /\ TokenValue * k \in Nat
    BY <1>1, <1>2, TokenProducts
  <2> QED
    BY <1>1, <1>2, <1>3, <2>1, <2>2, <2>3
<1>6. CASE k = n
  BY <1>2, <1>6 DEF Value, n
<1> QED
  BY <1>1, <1>2, <1>4, <1>5, <1>6

LEMMA OnceTurn ==
  ASSUME NEW c, NEW x, NEW y, NEW db, NEW cr, NEW spent,
         ViewOk(x, c), ViewOk(y, c), Flow(x), Flow(y),
         Once(x, spent), x.s = x.h \intersect spent,
         Turn(x, y, db, cr, Tokens \ spent)
  PROVE  Once(y, spent)
<1> SUFFICES ASSUME y.i.type = "AC" PROVE Once(y, spent)
  BY DEF Once
<1>1. /\ x.i.type = "AC" /\ y.i.step = x.i.step /\ y.i.amount = x.i.amount
      /\ y.r = x.r /\ y.h = x.h /\ y.s = x.s
      /\ y.o.at = "PrepareTokens" => y.o.toks \in {{}, Tokens \ spent}
  BY DEF Turn, SameTerms, SameTokens
<1>2. ASSUME y.o.at = "PrepareTokens", y.o.toks # {}
      PROVE  /\ Tokens \ spent \subseteq y.o.toks
             /\ y.h # {} => \E m \in y.h \intersect y.o.toks : \A u \in y.o.toks : m <= u
  <2>1. y.o.toks = Tokens \ spent /\ y.i.step = START /\ y.s = {}
    BY <1>1, <1>2, StepsDiffer DEF Flow, OpFits
  <2>2. ASSUME y.h # {}
        PROVE  \E m \in y.h \intersect y.o.toks : \A u \in y.o.toks : m <= u
    <3>1. PICK m \in x.h : \A t \in Tokens : t < m => t \in spent
      BY <1>1, <2>1, <2>2 DEF Once
    <3>2. m \in Tokens /\ m \notin spent
      BY <1>1, <2>1 DEF ViewOk
    <3>3. ASSUME NEW u \in y.o.toks PROVE m <= u
      <4>1. u \in Tokens /\ ~(u < m)
        BY <2>1, <3>1
      <4> QED
        BY <3>2, <4>1 DEF Tokens
    <3> QED
      BY <1>1, <2>1, <3>2, <3>3
  <2> QED
    BY <2>1, <2>2
<1> QED
  BY <1>1, <1>2 DEF Once

LEMMA OnceCreate ==
  ASSUME NEW c, NEW x, NEW y, NEW spent, ViewOk(x, c), ViewOk(y, c), Flow(x), Create(x, y)
  PROVE  Once(y, spent)
<1>1. y.h = {} /\ y.o.at = "OnEntrySaved" /\ Cost(y.i.amount, y.r, Publishers) >= y.i.amount
  BY DEF Create, Flow, SameTokens
<1>2. Cardinality(y.h) <= TokensFor(y.i.amount)
  BY <1>1, ViewTypes, FS_EmptySet, TokensForIs
<1> QED
  BY <1>1, <1>2 DEF Once

\* The tokens are reserved together: when one is already, the list read first has
\* it, and the list taken is not free.
LEMMA OnceMark ==
  ASSUME NEW c, NEW x, NEW y, NEW spent,
         ViewOk(x, c), ViewOk(y, c), Flow(x), Once(x, spent), Mark(x, y)
  PROVE  Once(y, spent)
<1> SUFFICES ASSUME y.i.type = "AC" PROVE Once(y, spent)
  BY DEF Once
<1> DEFINE list == y.o.toks
<1>1. /\ x.i.step = START /\ list \in SUBSET Tokens /\ list # {}
      /\ Cardinality(list) <= TokensFor(x.i.amount)
      /\ x.i.type = "AC" /\ y.i.amount = x.i.amount /\ y.r = x.r
      /\ x.o.at = "PrepareTokens" /\ y.o.at = "OnMarkReserved"
      /\ list = TakeUntil(x.o.toks, x.i.amount)
      /\ y.h = x.h \/ (y.h = x.h \union list /\ list \intersect x.h = {})
  BY MarkedList DEF Mark, SameTerms
<1>2. x.o.toks # {} /\ x.o.toks \in SUBSET Tokens /\ x.h \in SUBSET Tokens
  BY <1>1 DEF TakeUntil, ViewOk, Op
<1>3. Tokens \ spent \subseteq x.o.toks
  BY <1>1, <1>2 DEF Once
<1>4. x.i.amount \in Nat /\ x.i.amount > 0
  BY <1>1, ViewTypes, StepsDiffer DEF Flow
\* The least token of the list read is taken.
<1>5. ASSUME NEW m \in x.o.toks, \A u \in x.o.toks : m <= u
      PROVE  m \in list
  <2>1. {u \in x.o.toks : u < m} = {}
    BY <1>2, <1>5 DEF Tokens
  <2>2. Cardinality({u \in x.o.toks : u < m}) = 0
    BY <2>1, FS_EmptySet
  <2>3. TokenValue * 0 = 0
    BY TokenProducts
  <2>4. TokenValue * Cardinality({u \in x.o.toks : u < m}) = 0
    BY <2>2, <2>3
  <2> QED
    BY <1>1, <1>4, <2>4 DEF TakeUntil
<1> HIDE DEF list
<1>6. CASE y.h = x.h
  <2>1. /\ x.h # {} => \E m \in x.h : \A t \in Tokens : t < m => t \in spent
        /\ Cardinality(x.h) <= TokensFor(x.i.amount)
        /\ x.i.step # NO => Cost(x.i.amount, x.r, Publishers) >= x.i.amount
    BY <1>1 DEF Once
  <2> QED
    BY <1>1, <1>6, <2>1, StepsDiffer DEF Once
<1>7. CASE y.h = x.h \union list /\ list \intersect x.h = {}
  <2>1. x.h = {}
    <3>1. ASSUME x.h # {} PROVE FALSE
      <4>1. PICK m \in x.h \intersect x.o.toks : \A u \in x.o.toks : m <= u
        BY <1>1, <1>2, <3>1 DEF Once
      <4>2. m \in list
        BY <1>5, <4>1
      <4> QED
        BY <1>7, <4>1, <4>2
    <3> QED
      BY <3>1
  <2>2. PICK m \in x.o.toks : \A u \in x.o.toks : m <= u
    BY <1>2, FirstToken
  <2>3. m \in list /\ m \in Tokens
    BY <1>2, <1>5, <2>2
  <2>4. ASSUME NEW t \in Tokens, t < m PROVE t \in spent
    <3>1. t \notin x.o.toks
      <4>1. t \in x.o.toks => m <= t
        BY <2>2
      <4> QED
        BY <2>3, <2>4, <4>1 DEF Tokens
    <3> QED
      BY <1>3, <2>4, <3>1
  <2>5. y.h = list
    BY <1>7, <2>1
  <2>6. x.i.step # NO => Cost(x.i.amount, x.r, Publishers) >= x.i.amount
    BY <1>1 DEF Once
  <2> QED
    BY <1>1, <2>3, <2>4, <2>5, <2>6, StepsDiffer DEF Once
<1> QED
  BY <1>1, <1>6, <1>7

\* The tokens the votes are drawn for are worth the amount exactly.
LEMMA OnceDraw ==
  ASSUME NEW c, NEW x, NEW y, NEW spent,
         ViewOk(x, c), ViewOk(y, c), Flow(x), Once(x, spent), Draw(x, y)
  PROVE  Once(y, spent)
<1>1. /\ x.i.type = "AC" /\ y.i.type = "AC" /\ x.i.step \in {START, RESERVE}
      /\ y.i.amount = x.i.amount /\ y.h = x.h /\ x.s = {}
      /\ y.o.at = "OnPrepareAutoContribution"
      /\ x.o.toks # {} /\ x.o.toks \in SUBSET Tokens
      /\ x.i.amount \in Nat /\ x.i.amount % TokenValue = 0
  BY ViewTypes, StepsDiffer DEF Draw, SameTerms, SameTokens, Flow, OpFits, ViewOk, Op
<1>2. Exact(x.o.toks, x.i.amount)
  <2>1. CASE x.o.at = "OnMarkReserved"
    BY <2>1 DEF Flow, OpFits
  <2>2. CASE x.o.at = "OnReservedForRetry"
    <3>1. x.o.toks = x.h /\ x.h \ x.s # {}
      BY <1>1, <2>2 DEF Flow, OpFits
    <3>2. Value(x.h) >= x.i.amount /\ Cardinality(x.h) <= TokensFor(x.i.amount)
      BY <1>1, <3>1 DEF Flow, Once
    <3>3. TokenValue * (Cardinality(x.h) - 1) < x.i.amount
      BY <1>1, <3>1, <3>2, TokenSets, TokensForIs
    <3> QED
      BY <3>1, <3>2, <3>3 DEF Exact
  <2> QED
    BY <2>1, <2>2 DEF Draw
<1>3. x.i.amount = Value(x.o.toks)
  BY <1>1, <1>2, ExactValue
<1>4. Cost(y.i.amount, y.r, Publishers) >= y.i.amount
  BY <1>3 DEF Draw
<1> QED
  BY <1>1, <1>4 DEF Once

LEMMA OnceLater ==
  ASSUME NEW c, NEW x, NEW y, NEW spent, NEW more,
         ViewOk(x, c), ViewOk(y, c), Flow(x), Once(x, spent),
         \/ Prepared(x, y) \/ Post(x, y, c) \/ Spend(x, y) \/ Record(x, y) \/ Final(x, y)
  PROVE  Once(y, more)
<1> SUFFICES ASSUME y.i.type = "AC" PROVE Once(y, more)
  BY DEF Once
<1>1. /\ x.i.type = "AC" /\ y.i.amount = x.i.amount /\ y.h = x.h
      /\ y.o.at # "PrepareTokens"
  BY DEF Prepared, Post, Spend, Record, Final, SameTerms, SameTokens
<1>2. x.i.step # NO /\ y.i.step \notin {START, RESERVE}
  <2>1. CASE Prepared(x, y)
    BY <2>1, FlowPrepared, StepsDiffer DEF Prepared
  <2>2. CASE Final(x, y)
    BY <2>2, StepNumbers, ViewTypes DEF Final, NO
  <2>3. CASE Post(x, y, c) \/ Spend(x, y) \/ Record(x, y)
    <3>1. x.i.step = PREPARE /\ y.i = x.i
      BY <2>3 DEF Post, Spend, Record, Flow, OpFits
    <3> QED
      BY <3>1, StepsDiffer
  <2> QED
    BY <2>1, <2>2, <2>3
<1>3. Cost(y.i.amount, y.r, Publishers) = Cost(x.i.amount, x.r, Publishers)
  <2>1. CASE y.r = x.r
    BY <1>1, <2>1
  <2>2. CASE Record(x, y)
    <3>1. y.r = Recorded(x.r, x.o.pub)
      BY <2>2 DEF Record
    <3>2. x.o.pub \in UnpaidIn(x.r) /\ RowsOk(x.r) /\ x.r \in [Publishers -> Row]
      BY <2>2, RecordedView
    <3>3. \A q \in Publishers : y.r[q].total = x.r[q].total
      BY <3>1, <3>2, RecordedRows
    <3> QED
      BY <1>1, <3>3, SameCost
  <2> QED
    BY <2>1, <2>2 DEF Prepared, Post, Spend, Final
<1> QED
  BY <1>1, <1>2, <1>3 DEF Once

LEMMA OnceRelease ==
  ASSUME NEW c, NEW x, NEW y, NEW spent,
         ViewOk(x, c), ViewOk(y, c), Flow(x), Once(x, spent), Release(x, y)
  PROVE  Once(y, spent)
<1> SUFFICES ASSUME y.i.type = "AC" PROVE Once(y, spent)
  BY DEF Once
<1>1. /\ y.i = x.i /\ y.r = x.r /\ y.s = x.s /\ y.h = x.s
      /\ y.o.at = "idle" /\ x.s \in SUBSET x.h /\ x.h \in SUBSET Tokens
  BY DEF Release, ViewOk
<1>2. Cardinality(y.h) <= TokensFor(y.i.amount)
  <2>1. Cardinality(x.s) <= Cardinality(x.h) /\ Cardinality(x.s) \in Nat /\ Cardinality(x.h) \in Nat
    BY <1>1, TokenSets, FS_Subset
  <2>2. Cardinality(x.h) <= TokensFor(x.i.amount) /\ TokensFor(x.i.amount) \in Nat
    BY <1>1, ViewTypes, TokensForIs DEF Once
  <2> QED
    BY <1>1, <2>1, <2>2
<1>3. y.i.step \in {START, RESERVE} => y.h = {}
  BY <1>1, StepsDiffer DEF Flow
<1> QED
  BY <1>1, <1>2, <1>3 DEF Once

LEMMA OnceMove ==
  ASSUME NEW c, NEW x, NEW y, NEW db, NEW cr, NEW spent,
         ViewOk(x, c), ViewOk(y, c), Flow(x), Flow(y), Once(x, spent), x.s = x.h \intersect spent,
         Move(x, y, c, db, cr, Tokens \ spent),
         NEW more, Spend(x, y) \/ more = spent
  PROVE  Once(y, more)
BY OnceTurn, OnceCreate, OnceMark, OnceDraw, OnceLater, OnceRelease DEF Move

\* What others spend leaves the reservation first in the list.
LEMMA OnceOthers ==
  ASSUME NEW x, NEW spent, NEW more, spent \subseteq more, Once(x, spent)
  PROVE  Once(x, more)
BY DEF Once

USE DEF tokenVars, contributionVars, envVars, historyVars

(***************************************************************************)
(* The views of a state, and of the state after a step                     *)
(***************************************************************************)
LEMMA ViewsOk == IInv => \A c \in Contributions : ViewOk(View(c), c)
<1> SUFFICES ASSUME IInv, NEW c \in Contributions PROVE ViewOk(View(c), c)
  OBVIOUS
<1>1. /\ info[c] \in Info /\ rows[c] \in [Publishers -> Row] /\ op[c] \in Op
      /\ posted \subseteq Tokens \X Contributions \X Publishers
  BY DEF IInv, TypeOK
<1>2. SpentBy(c) \in SUBSET {t \in Tokens : redeemId[t] = c}
  BY DEF SpentBy, IInv, TypeOK
<1>3. {w \in posted : w[2] = c} \in SUBSET (Tokens \X {c} \X Publishers)
  BY <1>1
<1>4. /\ info[c].step = NO => op[c].at = "idle"
      /\ info[c].step < 0 => op[c].at \in {"idle", "ContributionCompletedSaved"}
      /\ op[c].at \in CopyAt => op[c].step > 0
  BY DEF IInv, ContinuationMatchesStep, Finished, CopyInProgress, CopyAt
<1>5. op[c].at \in InFlightAt =>
        op[c].toks \subseteq {t \in Tokens : redeemId[t] = c} \ SpentBy(c)
  BY <1>1 DEF IInv, InFlightTokensHeld, InFlight, InFlightAt, SpentBy, Op
<1>6. op[c].at = "OnRedeemTokens" =>
        /\ op[c].pub \in Publishers
        /\ op[c].toks \X {c} \X {op[c].pub} \subseteq {w \in posted : w[2] = c}
  BY DEF IInv, InFlightVoted
<1> QED
  BY <1>1, <1>2, <1>3, <1>4, <1>5, <1>6 DEF ViewOk, View

LEMMA ViewsOkNext == (IInv => \A c \in Contributions : ViewOk(View(c), c))'
BY ViewsOk, PTL

\* What ReservedFor reads.
LEMMA ReservedIsHeld ==
  ASSUME IInv, NEW c \in Contributions
  PROVE  ReservedFor(c) = View(c).h \ View(c).s
<1>1. None \notin Contributions /\ \A t \in Tokens : redeemId[t] # None <=> t \in reserved
  BY ConstantsAssumption DEF IInv, HolderIffReserved
<1>2. View(c).h = {t \in Tokens : redeemId[t] = c} /\ View(c).s = {t \in redeemed : redeemId[t] = c}
  BY DEF View, SpentBy
<1> QED
  BY <1>1, <1>2 DEF ReservedFor

LEMMA SpentIsRedeemed ==
  ASSUME TypeOK, NEW c
  PROVE  View(c).s = View(c).h \intersect redeemed
BY DEF View, SpentBy, TypeOK

LEMMA SpendableIs ==
  ASSUME expired = {}
  PROVE  Spendable = Tokens \ redeemed
BY DEF Spendable

\* A step that leaves rows, tokens and votes alone.
LEMMA QuietView ==
  ASSUME TypeOK, NEW c \in Contributions, NEW next, Wait(c, next),
         UNCHANGED <<rows, redeemId, redeemed, posted>>
  PROVE  View(c)' = [i |-> info'[c], r |-> View(c).r, o |-> next,
                     h |-> View(c).h, s |-> View(c).s, v |-> View(c).v]
<1>1. op'[c] = next
  BY WaitFrame
<1> QED
  BY <1>1 DEF View, SpentBy

\* What a step does to the view of its contribution, and leaves of the others'.
Moves(c) ==
  /\ Move(View(c), View(c)', c, dbErrors', crashes', Spendable)
  /\ \A d \in Contributions \ {c} : rows'[d] = rows[d]
  /\ Spend(View(c), View(c)') \/ redeemed' = redeemed

LEMMA TurnMoves ==
  ASSUME TypeOK, NEW c \in Contributions, NEW next, Wait(c, next),
         UNCHANGED <<rows, redeemId, redeemed, posted>>,
         Turn(View(c), [i |-> info'[c], r |-> View(c).r, o |-> next,
                        h |-> View(c).h, s |-> View(c).s, v |-> View(c).v],
              dbErrors', crashes', Spendable)
  PROVE  Moves(c)
BY QuietView DEF Moves, Move

\* A continuation that carries no more than a result, if it fits.
LEMMA TurnTo ==
  ASSUME TypeOK, NEW c \in Contributions, NEW next, Wait(c, next),
         UNCHANGED <<info, rows, redeemId, redeemed, posted>>,
         next.at \in {"OnRetryTimerElapsed", "OnResult", "idle", "ContributionCompletedSaved"},
         next.at = "OnResult" =>
           /\ next.res = "OK" => View(c).i.step = PREPARE /\ UnpaidIn(View(c).r) = {}
           /\ next.res = "NOT_ENOUGH_FUNDS" => View(c).i.step = START
           /\ next.res = "AC_TABLE_EMPTY" => View(c).i.step \in {START, RESERVE}
           /\ next.res \notin {"AC_OFF", "TOO_MANY_RESULTS", "RETRY"},
         next.at = "ContributionCompletedSaved" => dbErrors' > 0,
         next.at = "idle" => dbErrors' > 0 \/ crashes' > 0
                             \/ (View(c).o.at = "Retry" /\ ~View(c).o.ok),
         View(c).o.at = "TokenProcessed" => ~View(c).o.ok
  PROVE  Moves(c)
<1> DEFINE x == View(c)
           y == [i |-> x.i, r |-> x.r, o |-> next, h |-> x.h, s |-> x.s, v |-> x.v]
<1>1. x.i = info'[c]
  BY DEF View
<1>2. y.i = x.i /\ y.r = x.r /\ y.o = next /\ SameTokens(x, y)
  BY DEF SameTokens
<1> HIDE DEF y
<1>3. OpFits(y)
  BY <1>2 DEF OpFits
<1>4. Turn(x, y, dbErrors', crashes', Spendable)
  BY <1>2, <1>3 DEF Turn, SameTerms
<1> QED
  BY <1>1, <1>4, TurnMoves DEF y


LEMMA ViewIs ==
  ASSUME NEW c
  PROVE  View(c).i = info[c] /\ View(c).r = rows[c] /\ View(c).o = op[c]
BY DEF View

LEMMA FlowFits ==
  ASSUME FlowInv, NEW c \in Contributions
  PROVE  Flow(View(c)) /\ OpFits(View(c)) /\ Unpaid(c) = UnpaidIn(View(c).r)
         /\ Listed(c) = ListedIn(View(c).r)
BY ViewIs DEF FlowInv, Flow, Unpaid, UnpaidIn, Listed, ListedIn

LEMMA ResultTo ==
  ASSUME TypeOK, NEW c \in Contributions, NEW r, Wait(c, Result(r)),
         UNCHANGED <<info, rows, redeemId, redeemed, posted>>,
         r = "OK" => View(c).i.step = PREPARE /\ UnpaidIn(View(c).r) = {},
         r = "NOT_ENOUGH_FUNDS" => View(c).i.step = START,
         r = "AC_TABLE_EMPTY" => View(c).i.step \in {START, RESERVE},
         r \notin {"AC_OFF", "TOO_MANY_RESULTS"},
         op[c].at = "TokenProcessed" => ~op[c].ok
  PROVE  Moves(c)
<1>1. CASE r = "RETRY"
  BY <1>1, TurnTo, ViewIs DEF Result, Idle
<1>2. CASE r # "RETRY"
  <2> DEFINE next == [Idle EXCEPT !.at = "OnResult", !.res = r]
  <2>1. next.at = "OnResult" /\ next.res = r /\ Wait(c, next)
    BY <1>2 DEF Result, Idle
  <2> HIDE DEF next
  <2> QED
    BY <1>2, <2>1, TurnTo, ViewIs
<1> QED
  BY <1>1, <1>2

\* A failed transaction counts.
LEMMA FailureCounts ==
  ASSUME TypeOK, NEW ok \in BOOLEAN, Transaction(ok)
  PROVE  /\ ~ok => dbErrors' > 0
         /\ dbErrors' \in Nat /\ dbErrors \in Nat /\ dbErrors' >= dbErrors
BY ConstantsAssumption DEF TypeOK, Transaction, Failures, Failed

LEMMA ConvertedStep ==
  ASSUME NEW r
  PROVE  LET s == ConvertResultIntoContributionStep(r)
         IN /\ s \in {COMPLETED, AC_TABLE_EMPTY, NOT_ENOUGH_FUNDS, AC_OFF, RETRY_COUNT, FAILED}
            /\ s < 0
            /\ s = COMPLETED => r = "OK"
            /\ r \notin {"AC_TABLE_EMPTY", "NOT_ENOUGH_FUNDS", "TOO_MANY_RESULTS"} =>
                 s \in {COMPLETED, AC_OFF, FAILED}
BY DEF ConvertResultIntoContributionStep, COMPLETED, AC_TABLE_EMPTY, NOT_ENOUGH_FUNDS,
   AC_OFF, RETRY_COUNT, FAILED

LEMMA CompletedMoves ==
  ASSUME TypeOK, NEW c \in Contributions, NEW r, ContributionCompleted(c, r),
         info[c].step > 0, op[c].at # "TokenProcessed",
         r = "OK" => UnpaidIn(rows[c]) = {},
         info[c].step = PREPARE => r \notin {"AC_TABLE_EMPTY", "NOT_ENOUGH_FUNDS", "TOO_MANY_RESULTS"}
  PROVE  Moves(c)
<1> DEFINE next == [Idle EXCEPT !.at = "ContributionCompletedSaved"]
<1>1. next.at = "ContributionCompletedSaved"
  BY DEF Idle
<1>2. PICK ok, saved \in BOOLEAN :
        /\ Failures(Failed(ok) + Failed(saved))
        /\ info' = IF ok
                   THEN [info EXCEPT ![c].step = ConvertResultIntoContributionStep(r),
                                     ![c].retry = -1]
                   ELSE info
        /\ Wait(c, next)
        /\ UNCHANGED <<rows, redeemId, redeemed, posted>>
  BY DEF ContributionCompleted
<1> HIDE DEF next
<1>3. CASE ~ok
  <2>1. dbErrors' > 0
    BY <1>2, <1>3 DEF Failures, Failed, TypeOK
  <2>2. info' = info
    BY <1>2, <1>3
  <2> QED
    BY <1>1, <1>2, <2>1, <2>2, TurnTo, ViewIs
<1>4. CASE ok
  <2> DEFINE x == View(c)
             y == [i |-> info'[c], r |-> x.r, o |-> next, h |-> x.h, s |-> x.s, v |-> x.v]
  <2>1. View(c)' = y
    BY <1>2, QuietView
  <2>2. y.i = info'[c] /\ y.r = x.r /\ y.o = next /\ SameTokens(x, y)
    BY DEF SameTokens
  <2> HIDE DEF y
  <2>3. info'[c].type = info[c].type /\ info'[c].amount = info[c].amount
        /\ info'[c].step = ConvertResultIntoContributionStep(r)
    BY <1>2, <1>4 DEF TypeOK, Info
  <2>4. Final(x, y)
    BY <1>1, <2>2, <2>3, ViewIs, ConvertedStep DEF Final, SameTerms
  <2>5. rows' = rows /\ redeemed' = redeemed
    BY <1>2
  <2> QED
    BY <2>1, <2>4, <2>5 DEF Moves, Move
<1> QED
  BY <1>3, <1>4


\* A continuation with more to carry: its fit is shown for the view it makes.
LEMMA TurnWith ==
  ASSUME TypeOK, NEW c \in Contributions, NEW next, Wait(c, next),
         UNCHANGED <<rows, redeemId, redeemed, posted>>,
         info'[c].type = info[c].type, info'[c].amount = info[c].amount,
         info'[c].step = info[c].step,
         \A y : y.i = info'[c] /\ y.r = View(c).r /\ y.o = next /\ SameTokens(View(c), y)
                  => OpFits(y),
         next.at = "PrepareTokens" => next.toks \in {{}, Spendable},
         next.at = "TokenProcessed" => ~next.ok /\ dbErrors' > 0,
         next.at = "ContributionAmountSaved" => dbErrors' > 0,
         next.at \notin {"ContributionCompletedSaved", "idle"},
         next.at = "Retry" => next.ok \/ dbErrors' > 0,
         op[c].at = "TokenProcessed" => dbErrors' > 0 \/ crashes' > 0 \/ ~op[c].ok
  PROVE  Moves(c)
<1> DEFINE x == View(c)
           y == [i |-> info'[c], r |-> x.r, o |-> next, h |-> x.h, s |-> x.s, v |-> x.v]
<1>1. y.i = info'[c] /\ y.r = x.r /\ y.o = next /\ SameTokens(x, y)
  BY DEF SameTokens
<1> HIDE DEF y
<1>2. OpFits(y)
  BY <1>1
<1>3. x.i = info[c] /\ x.o = op[c]
  BY ViewIs
<1> HIDE DEF x
<1>4. Turn(x, y, dbErrors', crashes', Spendable)
  BY <1>1, <1>2, <1>3 DEF Turn, SameTerms
<1> QED
  BY <1>4, TurnMoves DEF y, x

LEMMA StartMoves ==
  ASSUME TypeOK, NEW c \in Contributions, Start(c), info[c].step = START,
         op[c].at # "TokenProcessed"
  PROVE  Moves(c)
<1>1. PICK ok \in BOOLEAN :
        Wait(c, [Idle EXCEPT !.at = "PrepareTokens", !.toks = IF ok THEN Spendable ELSE {}])
  BY DEF Start
<1>2. UNCHANGED <<info, rows, redeemId, redeemed, posted>>
  BY DEF Start
<1> DEFINE next == [Idle EXCEPT !.at = "PrepareTokens", !.toks = IF ok THEN Spendable ELSE {}]
<1>3. next.at = "PrepareTokens" /\ next.toks \in {{}, Spendable}
  BY DEF Idle
<1>4. Wait(c, next)
  BY <1>1
<1> HIDE DEF next
<1>5. \A y : y.i = info[c] /\ y.o = next => OpFits(y)
  BY <1>3 DEF OpFits
<1> QED
  BY <1>2, <1>3, <1>4, <1>5, TurnWith

LEMMA OnEntrySavedMoves ==
  ASSUME IInv, FlowInv, NEW c \in Contributions, OnEntrySaved(c)
  PROVE  Moves(c)
<1>1. op[c].at = "OnEntrySaved" /\ Start(c)
  BY DEF OnEntrySaved
<1>2. info[c].step = START
  BY <1>1, FlowFits, ViewIs DEF OpFits
<1> QED
  BY <1>1, <1>2, StartMoves DEF IInv

LEMMA MarkReservedMoves ==
  ASSUME IInv, NEW c \in Contributions, NEW list, list = TakeUntil(op[c].toks, info[c].amount),
         op[c].at = "PrepareTokens", TokenValue * Cardinality(op[c].toks) >= info[c].amount,
         MarkUnblindedTokensAsReserved(c, list)
  PROVE  Moves(c)
<1> DEFINE x == View(c)
           y == View(c)'
           free == list \intersect reserved = {} /\ list \intersect redeemed = {}
<1>1. PICK ok \in BOOLEAN :
        LET take == IF ok /\ free THEN list ELSE {}
        IN /\ redeemId' = [t \in Tokens |-> IF t \in take THEN c ELSE redeemId[t]]
           /\ reserved' = reserved \union take
           /\ info' = IF ok THEN [info EXCEPT ![c].step = RESERVE, ![c].retry = 0]
                            ELSE info
           /\ Wait(c, [Idle EXCEPT !.at = "OnMarkReserved", !.toks = list,
                                   !.ok = ok /\ list \subseteq reserved',
                                   !.step = info[c].step, !.retry = info[c].retry])
           /\ UNCHANGED <<rows, redeemed, posted>>
  BY DEF MarkUnblindedTokensAsReserved
<1> DEFINE take == IF ok /\ free THEN list ELSE {}
           next == [Idle EXCEPT !.at = "OnMarkReserved", !.toks = list,
                                !.ok = ok /\ list \subseteq reserved',
                                !.step = info[c].step, !.retry = info[c].retry]
<1>2. next.at = "OnMarkReserved" /\ next.toks = list /\ next.step = info[c].step
  BY DEF Idle
<1>3. op'[c] = next
  BY <1>1, WaitFrame DEF IInv
<1> HIDE DEF next
<1>4. info'[c].type = info[c].type /\ info'[c].amount = info[c].amount
      /\ info'[c].step = IF ok THEN RESERVE ELSE info[c].step
  BY <1>1 DEF IInv, TypeOK, Info
<1>5. /\ y.i = info'[c] /\ y.r = x.r /\ y.o = next /\ y.v = x.v
      /\ x.i = info[c] /\ x.o = op[c]
  BY <1>1, <1>3 DEF View
<1>6. list \in SUBSET Tokens
  BY DEF TakeUntil, IInv, TypeOK, Op
<1>7. y.h = x.h \union take /\ y.s = x.s /\ ((ok /\ free) \/ take = {})
  BY <1>1, <1>6 DEF View, SpentBy, IInv, TypeOK
<1>8. free => list \intersect x.h = {}
  BY <1>6, ConstantsAssumption DEF View, IInv, HolderIffReserved
<1>9. y.h = x.h \/ (ok /\ y.h = x.h \union list /\ list \intersect x.h = {})
  BY <1>7, <1>8
<1>10. Value(x.o.toks) >= x.i.amount
  BY <1>5 DEF Value
<1>11. rows' = rows /\ redeemed' = redeemed
  BY <1>1
<1> HIDE DEF x, y, take, free
<1>12. Mark(x, y)
  BY <1>2, <1>4, <1>5, <1>7, <1>9, <1>10 DEF Mark, SameTerms
<1> QED
  BY <1>11, <1>12 DEF Moves, Move, x, y

LEMMA PrepareTokensMoves ==
  ASSUME IInv, FlowInv, NEW c \in Contributions, PrepareTokens(c)
  PROVE  Moves(c)
<1>1. op[c].at = "PrepareTokens" /\ TypeOK
  BY DEF PrepareTokens, IInv
<1>2. View(c).i.step = START
  BY <1>1, FlowFits, ViewIs DEF OpFits
<1>3. CASE Wait(c, Result("LEDGER_ERROR")) /\ UNCHANGED <<contributionVars, tokenVars, envVars, historyVars>>
  BY <1>1, <1>3, ResultTo
<1>4. CASE Wait(c, Result("NOT_ENOUGH_FUNDS")) /\ UNCHANGED <<contributionVars, tokenVars, envVars, historyVars>>
  BY <1>1, <1>2, <1>4, ResultTo
<1>5. CASE /\ TokenValue * Cardinality(op[c].toks) >= info[c].amount
           /\ MarkUnblindedTokensAsReserved(c, TakeUntil(op[c].toks, info[c].amount))
  BY <1>1, <1>5, MarkReservedMoves
<1> QED
  BY <1>3, <1>4, <1>5 DEF PrepareTokens


PreparesFrom == {"OnMarkReserved", "OnReservedForRetry", "OnPrepareAutoContribution"}

LEMMA UpdateStepPrepareMoves ==
  ASSUME TypeOK, NEW c \in Contributions, UpdateStepPrepare(c),
         op[c].at \in PreparesFrom, info[c].step \in {START, RESERVE}
  PROVE  Moves(c)
<1>1. PICK ok \in BOOLEAN :
        /\ Transaction(ok)
        /\ info' = IF ok THEN [info EXCEPT ![c].step = PREPARE, ![c].retry = 0] ELSE info
        /\ Wait(c, [Idle EXCEPT !.at = "PrepareStepSaved", !.ok = ok])
  BY DEF UpdateStepPrepare
<1>2. UNCHANGED <<rows, redeemId, redeemed, posted>>
  BY DEF UpdateStepPrepare
<1> DEFINE next == [Idle EXCEPT !.at = "PrepareStepSaved", !.ok = ok]
<1>3. next.at = "PrepareStepSaved" /\ next.ok = ok /\ Wait(c, next)
  BY <1>1 DEF Idle
<1> HIDE DEF next
<1>4. CASE ~ok
  <2>1. info' = info
    BY <1>1, <1>4
  <2>2. \A y : y.i = info[c] /\ y.o = next => OpFits(y)
    BY <1>3, <1>4 DEF OpFits
  <2>3. op[c].at # "TokenProcessed"
    BY DEF PreparesFrom
  <2> QED
    BY <1>2, <1>3, <2>1, <2>2, <2>3, TurnWith
<1>5. CASE ok
  <2> DEFINE x == View(c)
             y == [i |-> info'[c], r |-> x.r, o |-> next, h |-> x.h, s |-> x.s, v |-> x.v]
  <2>1. View(c)' = y
    BY <1>2, <1>3, QuietView
  <2>2. y.i = info'[c] /\ y.r = x.r /\ y.o = next /\ SameTokens(x, y)
    BY DEF SameTokens
  <2> HIDE DEF y
  <2>3. info'[c].type = info[c].type /\ info'[c].amount = info[c].amount
        /\ info'[c].step = PREPARE
    BY <1>1, <1>5 DEF TypeOK, Info
  <2>4. Prepared(x, y)
    BY <1>3, <1>5, <2>2, <2>3, ViewIs DEF Prepared, SameTerms, PreparesFrom
  <2> QED
    BY <1>2, <2>1, <2>4 DEF Moves, Move
<1> QED
  BY <1>4, <1>5

LEMMA DrawMoves ==
  ASSUME IInv, FlowInv, NEW c \in Contributions, info[c].type = "AC", op[c].toks # {},
         op[c].at = "OnMarkReserved" \/ op[c].at = "OnReservedForRetry",
         info[c].step \in {START, RESERVE},
         NEW vote \in [op[c].toks -> Listed(c)], NEW next,
         next.at = "OnPrepareAutoContribution", Wait(c, next),
         rows' = [rows EXCEPT ![c] = VotedRows(c, op[c].toks, vote)],
         info' = [info EXCEPT ![c].step = op[c].step, ![c].retry = op[c].retry],
         UNCHANGED <<redeemId, redeemed, posted>>
  PROVE  Moves(c)
<1> DEFINE x == View(c)
           y == View(c)'
           r == VotedRows(c, op[c].toks, vote)
<1>1. TypeOK /\ op[c].toks \in SUBSET Tokens
  BY DEF IInv, TypeOK, Op
<1>2. op'[c] = next
  BY <1>1, WaitFrame
<1>3. rows'[c] = r /\ \A d \in Contributions \ {c} : rows'[d] = rows[d]
  BY <1>1 DEF TypeOK
<1>4. info'[c].type = info[c].type /\ info'[c].amount = info[c].amount
      /\ info'[c].step = op[c].step
  BY <1>1 DEF TypeOK, Info
<1>5. /\ y.i = info'[c] /\ y.r = r /\ y.o = next /\ SameTokens(x, y)
      /\ x.i = info[c] /\ x.o = op[c] /\ x.r = rows[c]
  BY <1>2, <1>3 DEF View, SameTokens, SpentBy
<1>6. RowsOk(rows[c]) /\ Untouched(rows[c])
  BY <1>5, FlowFits DEF Flow, Early
<1>7. RowsOk(r) /\ Untouched(r)
  BY <1>1, <1>6, VotedRowsOk
<1>8. info[c].amount = Value(op[c].toks) => Cost(info[c].amount, r, Publishers) >= info[c].amount
  BY <1>1, VotedCost
<1> HIDE DEF x, y, r
<1>9. Draw(x, y)
  BY <1>4, <1>5, <1>7, <1>8 DEF Draw, SameTerms
<1> QED
  BY <1>3, <1>9 DEF Moves, Move, x, y

LEMMA PreparePublishersMoves ==
  ASSUME IInv, FlowInv, NEW c \in Contributions, PreparePublishers(c),
         op[c].at = "OnMarkReserved" \/ op[c].at = "OnReservedForRetry",
         info[c].step \in {START, RESERVE}
  PROVE  Moves(c)
<1> TypeOK
  BY DEF IInv
<1>1. CASE Wait(c, Result("AC_TABLE_EMPTY")) /\ UNCHANGED <<contributionVars, tokenVars, envVars, historyVars>>
  BY <1>1, ResultTo, ViewIs
<1>2. CASE /\ info[c].type = "AC" /\ op[c].toks # {}
           /\ \E ok \in BOOLEAN, vote \in [op[c].toks -> Listed(c)] :
                /\ Transaction(ok)
                /\ rows' = IF ok THEN [rows EXCEPT ![c] = VotedRows(c, op[c].toks, vote)]
                                 ELSE rows
                /\ info' = IF ok THEN [info EXCEPT ![c].step = op[c].step,
                                                   ![c].retry = op[c].retry]
                                 ELSE info
                /\ Wait(c, [Idle EXCEPT !.at = "OnPrepareAutoContribution", !.ok = ok])
                /\ UNCHANGED <<tokenVars, envVars, historyVars>>
  <2>1. PICK ok \in BOOLEAN, vote \in [op[c].toks -> Listed(c)] :
                /\ Transaction(ok)
                /\ rows' = IF ok THEN [rows EXCEPT ![c] = VotedRows(c, op[c].toks, vote)]
                                 ELSE rows
                /\ info' = IF ok THEN [info EXCEPT ![c].step = op[c].step,
                                                   ![c].retry = op[c].retry]
                                 ELSE info
                /\ Wait(c, [Idle EXCEPT !.at = "OnPrepareAutoContribution", !.ok = ok])
                /\ UNCHANGED <<tokenVars, envVars, historyVars>>
    BY <1>2
  <2> DEFINE next == [Idle EXCEPT !.at = "OnPrepareAutoContribution", !.ok = ok]
  <2>2. next.at = "OnPrepareAutoContribution" /\ Wait(c, next)
    BY <2>1 DEF Idle
  <2> HIDE DEF next
  <2>3. CASE ok
    BY <1>2, <2>1, <2>2, <2>3, DrawMoves
  <2>4. CASE ~ok
    <3>1. info' = info /\ UNCHANGED <<rows, redeemId, redeemed, posted>>
      BY <2>1, <2>4
    <3>2. \A y : y.i = info[c] /\ y.o = next => OpFits(y)
      BY <2>2 DEF OpFits
    <3> QED
      BY <2>2, <3>1, <3>2, TurnWith
  <2> QED
    BY <2>3, <2>4
<1>3. CASE UpdateStepPrepare(c)
  BY <1>3, UpdateStepPrepareMoves DEF PreparesFrom
<1> QED
  BY <1>1, <1>2, <1>3 DEF PreparePublishers

LEMMA ReservationAnsweredMoves ==
  ASSUME IInv, FlowInv, NEW c \in Contributions,
         \/ OnMarkUnblindedTokensAsReserved(c)
         \/ OnReservedUnblindedTokensForRetryAttempt(c)
  PROVE  Moves(c)
<1>1. op[c].at = "OnMarkReserved" \/ op[c].at = "OnReservedForRetry"
  BY DEF OnMarkUnblindedTokensAsReserved, OnReservedUnblindedTokensForRetryAttempt
<1>2. info[c].step \in {START, RESERVE}
  BY <1>1, FlowFits, ViewIs DEF OpFits
<1>3. CASE Wait(c, Result("LEDGER_ERROR")) /\ UNCHANGED <<contributionVars, tokenVars, envVars, historyVars>>
  BY <1>1, <1>3, ResultTo DEF IInv
<1>4. CASE PreparePublishers(c)
  BY <1>1, <1>2, <1>4, PreparePublishersMoves
<1> QED
  BY <1>3, <1>4 DEF OnMarkUnblindedTokensAsReserved, OnReservedUnblindedTokensForRetryAttempt

LEMMA OnPrepareAutoContributionMoves ==
  ASSUME IInv, FlowInv, NEW c \in Contributions, OnPrepareAutoContribution(c)
  PROVE  Moves(c)
<1>1. op[c].at = "OnPrepareAutoContribution" /\ TypeOK
  BY DEF OnPrepareAutoContribution, IInv
<1>2. info[c].step \in {START, RESERVE}
  BY <1>1, FlowFits, ViewIs DEF OpFits
<1>3. CASE Wait(c, Result("RETRY")) /\ UNCHANGED <<contributionVars, tokenVars, envVars, historyVars>>
  BY <1>1, <1>3, ResultTo
<1>4. CASE UpdateStepPrepare(c)
  BY <1>1, <1>2, <1>4, UpdateStepPrepareMoves DEF PreparesFrom
<1> QED
  BY <1>3, <1>4 DEF OnPrepareAutoContribution

LEMMA ProcessTokensMoves ==
  ASSUME IInv, NEW c \in Contributions, ProcessTokens(c), info[c].step = PREPARE,
         op[c].at # "TokenProcessed"
  PROVE  Moves(c)
<1>1. PICK ok \in BOOLEAN :
        Wait(c, [Idle EXCEPT !.at = "OnProcessTokens",
                             !.toks = IF ok THEN ReservedFor(c) ELSE {}])
  BY DEF ProcessTokens
<1>2. TypeOK /\ UNCHANGED <<info, rows, redeemId, redeemed, posted>>
  BY DEF ProcessTokens, IInv
<1> DEFINE next == [Idle EXCEPT !.at = "OnProcessTokens",
                                !.toks = IF ok THEN ReservedFor(c) ELSE {}]
<1>3. next.at = "OnProcessTokens" /\ next.toks \in {{}, View(c).h \ View(c).s}
  BY ReservedIsHeld DEF Idle
<1>4. Wait(c, next)
  BY <1>1
<1> HIDE DEF next
<1>5. \A y : y.i = info[c] /\ y.o = next /\ SameTokens(View(c), y) => OpFits(y)
  BY <1>3 DEF OpFits, SameTokens
<1> QED
  BY <1>2, <1>3, <1>4, <1>5, TurnWith

LEMMA PrepareStepSavedMoves ==
  ASSUME IInv, FlowInv, NEW c \in Contributions, PrepareStepSaved(c)
  PROVE  Moves(c)
<1>1. op[c].at = "PrepareStepSaved" /\ TypeOK
  BY DEF PrepareStepSaved, IInv
<1>2. op[c].ok => info[c].step = PREPARE
  BY <1>1, FlowFits, ViewIs DEF OpFits
<1>3. CASE Wait(c, Result("RETRY")) /\ UNCHANGED <<contributionVars, tokenVars, envVars, historyVars>>
  BY <1>1, <1>3, ResultTo
<1>4. CASE op[c].ok /\ ProcessTokens(c)
  BY <1>1, <1>2, <1>4, ProcessTokensMoves
<1> QED
  BY <1>3, <1>4 DEF PrepareStepSaved


LEMMA PostMoves ==
  ASSUME IInv, NEW c \in Contributions, op[c].at = "OnProcessTokens",
         NEW p \in Publishers, IsFirstUnpaid(c, p),
         NEW list, list = TakeUntil(op[c].toks, rows[c][p].total), list # {},
         posted' = posted \union (list \X {c} \X {p}),
         Wait(c, [Idle EXCEPT !.at = "OnRedeemTokens", !.toks = list,
                              !.pub = p, !.final = IsLastRow(c, p)]),
         UNCHANGED <<info, rows, redeemId, redeemed>>
  PROVE  Moves(c)
<1> DEFINE x == View(c)
           y == View(c)'
           next == [Idle EXCEPT !.at = "OnRedeemTokens", !.toks = list,
                                !.pub = p, !.final = IsLastRow(c, p)]
<1>1. next.at = "OnRedeemTokens" /\ next.toks = list /\ next.pub = p /\ next.final = IsLastRow(c, p)
  BY DEF Idle
<1>2. op'[c] = next
  BY WaitFrame DEF IInv
<1> HIDE DEF next
<1>3. {w \in posted' : w[2] = c} = {w \in posted : w[2] = c} \union (list \X {c} \X {p})
  <2>1. \A w \in list \X {c} \X {p} : w[2] = c
    OBVIOUS
  <2> QED
    BY <2>1
<1>4. /\ y.i = x.i /\ y.r = x.r /\ y.h = x.h /\ y.s = x.s /\ y.o = next
      /\ x.o = op[c] /\ x.r = rows[c]
  BY <1>2 DEF View, SpentBy
<1>5. y.v = x.v \union (list \X {c} \X {p})
  BY <1>3 DEF View
<1>6. FirstIn(x.r, p) /\ (IsLastRow(c, p) => LastIn(x.r, p))
  BY <1>4 DEF IsFirstUnpaid, FirstIn, Unpaid, UnpaidIn, Listed, ListedIn, IsLastRow, LastIn
<1> HIDE DEF x, y
<1>7. Post(x, y, c)
  BY <1>1, <1>4, <1>5, <1>6 DEF Post
<1> QED
  BY <1>7 DEF Moves, Move, x, y

LEMMA OnProcessTokensMoves ==
  ASSUME IInv, FlowInv, NEW c \in Contributions, OnProcessTokens(c)
  PROVE  Moves(c)
<1>1. op[c].at = "OnProcessTokens" /\ TypeOK /\ UNCHANGED <<info, rows, redeemId, redeemed>>
  BY DEF OnProcessTokens, IInv
<1>2. View(c).i.step = PREPARE
  BY <1>1, FlowFits, ViewIs DEF OpFits
<1>3. CASE Wait(c, Result("LEDGER_ERROR")) /\ UNCHANGED posted
  BY <1>1, <1>3, ResultTo
<1>4. CASE Unpaid(c) = {} /\ Wait(c, Result("OK")) /\ UNCHANGED posted
  BY <1>1, <1>2, <1>4, ResultTo, FlowFits
<1>5. CASE \E p \in Publishers :
             /\ IsFirstUnpaid(c, p)
             /\ RedeemTokens(c, p, TakeUntil(op[c].toks, rows[c][p].total))
  <2>1. PICK p \in Publishers :
             /\ IsFirstUnpaid(c, p)
             /\ RedeemTokens(c, p, TakeUntil(op[c].toks, rows[c][p].total))
    BY <1>5
  <2> DEFINE list == TakeUntil(op[c].toks, rows[c][p].total)
  <2>2. CASE Wait(c, Result("RETRY")) /\ UNCHANGED posted
    BY <1>1, <2>2, ResultTo
  <2>3. CASE /\ list # {}
             /\ posted' = posted \union (list \X {c} \X {p})
             /\ Wait(c, [Idle EXCEPT !.at = "OnRedeemTokens", !.toks = list,
                                     !.pub = p, !.final = IsLastRow(c, p)])
    BY <1>1, <2>1, <2>3, PostMoves
  <2> QED
    BY <2>1, <2>2, <2>3 DEF RedeemTokens
<1> QED
  BY <1>3, <1>4, <1>5 DEF OnProcessTokens

LEMMA OnRedeemTokensMoves ==
  ASSUME IInv, FlowInv, NEW c \in Contributions, OnRedeemTokens(c)
  PROVE  Moves(c)
<1>1. /\ op[c].at = "OnRedeemTokens" /\ TypeOK
      /\ UNCHANGED <<info, rows, posted>>
  BY DEF OnRedeemTokens, IInv
<1>2. /\ info[c].step = PREPARE /\ FirstIn(rows[c], op[c].pub)
      /\ op[c].final => LastIn(rows[c], op[c].pub)
  BY <1>1, FlowFits, ViewIs DEF OpFits
<1>3. CASE Wait(c, Result("RETRY")) /\ UNCHANGED tokenVars
  BY <1>1, <1>3, ResultTo
<1>4. ASSUME NEW ok \in BOOLEAN,
             Transaction(ok),
             redeemed' = IF ok THEN redeemed \union op[c].toks ELSE redeemed,
             redeemId' = [t \in Tokens |-> IF ok /\ t \in op[c].toks
                                           THEN c ELSE redeemId[t]],
             Wait(c, [Idle EXCEPT !.at = "TokenProcessed", !.ok = ok,
                                  !.pub = op[c].pub, !.final = op[c].final])
      PROVE  Moves(c)
  <2> DEFINE next == [Idle EXCEPT !.at = "TokenProcessed", !.ok = ok,
                                  !.pub = op[c].pub, !.final = op[c].final]
  <2>1. /\ next.at = "TokenProcessed" /\ next.ok = ok /\ next.pub = op[c].pub
        /\ next.final = op[c].final /\ Wait(c, next)
    BY <1>4 DEF Idle
  <2> HIDE DEF next
  <2>2. \A t \in op[c].toks : t \in Tokens /\ redeemId[t] = c
    BY <1>1 DEF IInv, InFlightTokensHeld, InFlight, TypeOK, Op
  <2>3. redeemId' = redeemId
    <3>1. redeemId = [t \in Tokens |-> redeemId[t]]
      BY <1>1 DEF TypeOK
    <3> QED
      BY <1>4, <2>2, <3>1
  <2>4. CASE ~ok
    <3>1. dbErrors' > 0 /\ redeemed' = redeemed
      BY <1>1, <1>4, <2>4, FailureCounts
    <3>2. \A y : y.i = info[c] /\ y.r = rows[c] /\ y.o = next => OpFits(y)
      BY <1>2, <2>1, <2>4 DEF OpFits
    <3> QED
      BY <1>1, <2>1, <2>3, <2>4, <3>1, <3>2, TurnWith, ViewIs
  <2>5. CASE ok
    <3> DEFINE x == View(c)
               y == View(c)'
    <3>1. op'[c] = next
      BY <1>1, <2>1, WaitFrame
    <3>2. /\ y.i = x.i /\ y.r = x.r /\ y.v = x.v /\ y.h = x.h /\ y.o = next
          /\ x.o = op[c]
      BY <1>1, <2>3, <3>1 DEF View
    <3>3. y.s = x.s \union op[c].toks
      BY <1>4, <2>2, <2>3, <2>5 DEF View, SpentBy
    <3> HIDE DEF x, y
    <3>4. Spend(x, y)
      BY <1>1, <2>1, <2>5, <3>2, <3>3 DEF Spend
    <3> QED
      BY <1>1, <3>4 DEF Moves, Move, x, y
  <2> QED
    BY <2>4, <2>5
<1> QED
  BY <1>3, <1>4 DEF OnRedeemTokens

LEMMA TokenProcessedMoves ==
  ASSUME IInv, FlowInv, NEW c \in Contributions, TokenProcessed(c)
  PROVE  Moves(c)
<1>1. /\ op[c].at = "TokenProcessed" /\ TypeOK
      /\ UNCHANGED <<info, redeemId, redeemed, posted>>
  BY DEF TokenProcessed, IInv
<1>2. info[c].step = PREPARE /\ op[c].pub \in Publishers
  BY <1>1, FlowFits, ViewIs DEF OpFits, FirstIn, UnpaidIn, ListedIn
<1>3. CASE ~op[c].ok /\ Wait(c, Result("RETRY")) /\ UNCHANGED rows
  BY <1>1, <1>3, ResultTo
<1>4. ASSUME op[c].ok, NEW ok \in BOOLEAN,
             Transaction(ok),
             rows' = IF ok THEN [rows EXCEPT ![c][op[c].pub].contributed =
                                               rows[c][op[c].pub].total]
                           ELSE rows,
             Wait(c, [Idle EXCEPT !.at = "ContributionAmountSaved",
                                  !.ok = ok, !.final = op[c].final])
      PROVE  Moves(c)
  <2> DEFINE next == [Idle EXCEPT !.at = "ContributionAmountSaved",
                                  !.ok = ok, !.final = op[c].final]
  <2>1. /\ next.at = "ContributionAmountSaved" /\ next.ok = ok
        /\ next.final = op[c].final /\ Wait(c, next)
    BY <1>4 DEF Idle
  <2> HIDE DEF next
  <2>2. CASE ~ok
    <3>1. dbErrors' > 0 /\ rows' = rows
      BY <1>1, <1>4, <2>2, FailureCounts
    <3>2. \A y : y.i = info[c] /\ y.o = next => OpFits(y)
      BY <1>2, <2>1, <2>2 DEF OpFits
    <3> QED
      BY <1>1, <2>1, <3>1, <3>2, TurnWith, ViewIs
  <2>3. CASE ok
    <3> DEFINE x == View(c)
               y == View(c)'
    <3>1. op'[c] = next
      BY <1>1, <2>1, WaitFrame
    <3>2. /\ y.i = x.i /\ SameTokens(x, y) /\ y.o = next /\ y.r = rows'[c]
          /\ x.o = op[c] /\ x.r = rows[c]
      BY <1>1, <3>1 DEF View, SameTokens, SpentBy
    <3>3. /\ rows'[c] = Recorded(rows[c], op[c].pub)
          /\ \A d \in Contributions \ {c} : rows'[d] = rows[d]
      BY <1>1, <1>4, <2>3 DEF Recorded, TypeOK
    <3> HIDE DEF x, y
    <3>4. Record(x, y)
      BY <1>1, <1>4, <2>1, <3>2, <3>3 DEF Record
    <3> QED
      BY <1>1, <3>3, <3>4 DEF Moves, Move, x, y
  <2> QED
    BY <2>2, <2>3
<1> QED
  BY <1>3, <1>4 DEF TokenProcessed

LEMMA ContributionAmountSavedMoves ==
  ASSUME IInv, FlowInv, NEW c \in Contributions, ContributionAmountSaved(c)
  PROVE  Moves(c)
<1>1. /\ op[c].at = "ContributionAmountSaved" /\ TypeOK
      /\ UNCHANGED <<info, rows, redeemId, redeemed, posted>>
  BY DEF ContributionAmountSaved, IInv
<1>2. View(c).i.step = PREPARE /\ (op[c].final /\ op[c].ok => UnpaidIn(View(c).r) = {})
  BY <1>1, FlowFits, ViewIs DEF OpFits
<1> DEFINE r == IF ~op[c].final THEN "RETRY_LONG" ELSE IF op[c].ok THEN "OK" ELSE "LEDGER_ERROR"
<1>3. Wait(c, Result(r))
  BY DEF ContributionAmountSaved
<1>4. r \in {"RETRY_LONG", "OK", "LEDGER_ERROR"} /\ (r = "OK" => op[c].final /\ op[c].ok)
  OBVIOUS
<1> HIDE DEF r
<1> QED
  BY <1>1, <1>2, <1>3, <1>4, ResultTo


LEMMA OnResultMoves ==
  ASSUME IInv, FlowInv, NEW c \in Contributions, OnResult(c)
  PROVE  Moves(c)
<1>1. op[c].at = "OnResult" /\ TypeOK
  BY DEF OnResult, IInv
<1>2. info[c].step > 0
  BY <1>1, InProgressUntilFinished DEF IInv, Finished
<1>3. CASE /\ Transaction(FALSE) /\ Wait(c, Idle)
           /\ UNCHANGED <<contributionVars, tokenVars, envVars, historyVars>>
  <2>1. dbErrors' > 0
    BY <1>1, <1>3, FailureCounts
  <2> QED
    BY <1>1, <1>3, <2>1, TurnTo, ViewIs DEF Idle
<1>4. CASE /\ Wait(c, [Idle EXCEPT !.at = "OnRetryTimerElapsed"])
           /\ UNCHANGED <<contributionVars, tokenVars, envVars, historyVars>>
  <2>1. Wait(c, Result("RETRY"))
    BY <1>4 DEF Result
  <2> QED
    BY <1>1, <1>4, <2>1, ResultTo
<1>5. CASE op[c].res # "RETRY_LONG" /\ ContributionCompleted(c, op[c].res)
  <2>1. /\ op[c].res = "OK" => UnpaidIn(rows[c]) = {}
        /\ info[c].step = PREPARE =>
             op[c].res \notin {"AC_TABLE_EMPTY", "NOT_ENOUGH_FUNDS", "TOO_MANY_RESULTS"}
    BY <1>1, FlowFits, ViewIs, StepsDiffer DEF OpFits
  <2> QED
    BY <1>1, <1>2, <1>5, <2>1, CompletedMoves
<1> QED
  BY <1>3, <1>4, <1>5 DEF OnResult

LEMMA ContributionCompletedSavedMoves ==
  ASSUME IInv, NEW c \in Contributions, ContributionCompletedSaved(c)
  PROVE  Moves(c)
<1>1. /\ op[c].at = "ContributionCompletedSaved" /\ TypeOK /\ Wait(c, Idle)
      /\ UNCHANGED <<info, rows, redeemed, posted>>
  BY DEF ContributionCompletedSaved, IInv
<1>2. PICK ok \in BOOLEAN :
        /\ Transaction(ok)
        /\ redeemId' = [t \in Tokens |->
             IF t \in {u \in Tokens : ok /\ redeemId[u] = c /\ u \notin redeemed}
             THEN None ELSE redeemId[t]]
  BY DEF ContributionCompletedSaved
<1>3. CASE ~ok
  <2>1. redeemId' = redeemId
    <3>1. redeemId = [t \in Tokens |-> redeemId[t]]
      BY <1>1 DEF TypeOK
    <3> QED
      BY <1>2, <1>3, <3>1
  <2>2. dbErrors' > 0
    BY <1>1, <1>2, <1>3, FailureCounts
  <2> QED
    BY <1>1, <2>1, <2>2, TurnTo, ViewIs DEF Idle
<1>4. CASE ok
  <2> DEFINE x == View(c)
             y == View(c)'
  <2>1. op'[c] = Idle
    BY <1>1, WaitFrame
  <2>2. y.i = x.i /\ y.r = x.r /\ y.v = x.v /\ y.o = Idle /\ x.o = op[c]
    BY <1>1, <2>1 DEF View
  <2>3. y.h = x.s /\ y.s = x.s
    BY <1>1, <1>2, <1>4, ConstantsAssumption DEF View, SpentBy, TypeOK
  <2> HIDE DEF x, y
  <2>4. Release(x, y)
    BY <1>1, <2>2, <2>3 DEF Release, Idle
  <2> QED
    BY <1>1, <2>4 DEF Moves, Move, x, y
<1> QED
  BY <1>3, <1>4

LEMMA OnRetryTimerElapsedMoves ==
  ASSUME IInv, FlowInv, NEW c \in Contributions, OnRetryTimerElapsed(c)
  PROVE  Moves(c)
<1>1. /\ op[c].at = "OnRetryTimerElapsed" /\ TypeOK
      /\ UNCHANGED <<info, rows, redeemId, redeemed, posted>>
  BY DEF OnRetryTimerElapsed, IInv
<1>2. info[c].step > 0
  BY <1>1, InProgressUntilFinished DEF IInv, Finished
<1>3. CASE Transaction(FALSE) /\ Wait(c, Idle)
  <2>1. dbErrors' > 0
    BY <1>1, <1>3, FailureCounts
  <2> QED
    BY <1>1, <1>3, <2>1, TurnTo, ViewIs DEF Idle
<1>4. CASE Wait(c, [Idle EXCEPT !.at = "SetRetryCounter",
                                !.step = info[c].step, !.retry = info[c].retry])
  <2> DEFINE next == [Idle EXCEPT !.at = "SetRetryCounter",
                                  !.step = info[c].step, !.retry = info[c].retry]
  <2>1. next.at = "SetRetryCounter" /\ next.step = info[c].step /\ Wait(c, next)
    BY <1>4 DEF Idle
  <2> HIDE DEF next
  <2>2. \A y : y.i = info[c] /\ y.o = next => OpFits(y)
    BY <1>2, <2>1 DEF OpFits
  <2> QED
    BY <1>1, <2>1, <2>2, TurnWith
<1> QED
  BY <1>3, <1>4 DEF OnRetryTimerElapsed

LEMMA SetRetryCounterMoves ==
  ASSUME IInv, FlowInv, NEW c \in Contributions, SetRetryCounter(c)
  PROVE  Moves(c)
<1>1. op[c].at = "SetRetryCounter" /\ TypeOK
  BY DEF SetRetryCounter, IInv
<1>2. op[c].step = info[c].step /\ info[c].step > 0
  BY <1>1, FlowFits, ViewIs DEF OpFits
<1>3. CASE op[c].step # PREPARE /\ ContributionCompleted(c, "TOO_MANY_RESULTS")
  BY <1>1, <1>2, <1>3, CompletedMoves
<1>4. ASSUME NEW ok \in BOOLEAN,
             Transaction(ok),
             info' = IF ok THEN [info EXCEPT ![c].step = op[c].step,
                                             ![c].retry = Bump(op[c].retry)]
                           ELSE info,
             Wait(c, [op[c] EXCEPT !.at = "Retry", !.ok = ok]),
             UNCHANGED <<rows, tokenVars, envVars, historyVars>>
      PROVE  Moves(c)
  <2> DEFINE next == [op[c] EXCEPT !.at = "Retry", !.ok = ok]
  <2>1. next.at = "Retry" /\ next.ok = ok /\ next.step = op[c].step /\ Wait(c, next)
    BY <1>1, <1>4 DEF TypeOK, Op
  <2> HIDE DEF next
  <2>2. /\ info'[c].type = info[c].type /\ info'[c].amount = info[c].amount
        /\ info'[c].step = info[c].step
    BY <1>1, <1>2, <1>4 DEF TypeOK, Info
  <2>3. \A y : y.i = info'[c] /\ y.o = next => OpFits(y)
    BY <1>2, <2>1, <2>2 DEF OpFits
  <2>4. ~ok => dbErrors' > 0
    BY <1>1, <1>4, FailureCounts
  <2> QED
    BY <1>1, <1>4, <2>1, <2>2, <2>3, <2>4, TurnWith
<1> QED
  BY <1>3, <1>4 DEF SetRetryCounter

LEMMA RetryReserveMoves ==
  ASSUME IInv, NEW c \in Contributions, RetryReserve(c),
         info[c].step = RESERVE, op[c].step = RESERVE, op[c].at = "Retry"
  PROVE  Moves(c)
<1>1. PICK ok \in BOOLEAN :
        Wait(c, [op[c] EXCEPT !.at = "OnReservedForRetry", !.ok = TRUE,
                              !.toks = IF ok THEN ReservedFor(c) ELSE {}])
  BY DEF RetryReserve
<1>2. TypeOK /\ UNCHANGED <<info, rows, redeemId, redeemed, posted>>
  BY DEF RetryReserve, IInv
<1> DEFINE next == [op[c] EXCEPT !.at = "OnReservedForRetry", !.ok = TRUE,
                                 !.toks = IF ok THEN ReservedFor(c) ELSE {}]
<1>3. /\ next.at = "OnReservedForRetry" /\ next.step = RESERVE
      /\ next.toks \in {{}, View(c).h \ View(c).s}
  BY <1>2, ReservedIsHeld DEF TypeOK, Op
<1>4. Wait(c, next)
  BY <1>1
<1> HIDE DEF next
<1>5. \A y : y.i = info[c] /\ y.o = next /\ SameTokens(View(c), y) => OpFits(y)
  BY <1>3 DEF OpFits, SameTokens
<1> QED
  BY <1>2, <1>3, <1>4, <1>5, TurnWith

LEMMA RetryMoves ==
  ASSUME IInv, FlowInv, NEW c \in Contributions, Retry(c)
  PROVE  Moves(c)
<1>1. op[c].at = "Retry" /\ TypeOK
  BY DEF Retry, IInv
<1>2. op[c].step = info[c].step /\ info[c].step > 0
  BY <1>1, FlowFits, ViewIs DEF OpFits
<1>3. CASE /\ ~op[c].ok \/ op[c].step < 0
           /\ Wait(c, Idle)
           /\ UNCHANGED <<contributionVars, tokenVars, envVars, historyVars, dbErrors>>
  <2>1. ~op[c].ok
    <3>1. op[c].step \in Steps
      BY <1>1 DEF TypeOK, Op
    <3>2. op[c].step \in Int
      BY <3>1, StepNumbers
    <3> QED
      BY <1>2, <1>3, <3>2
  <2> QED
    BY <1>1, <1>3, <2>1, TurnTo, ViewIs DEF Idle
<1>4. CASE ContributionCompleted(c, "AC_OFF")
  BY <1>1, <1>2, <1>4, CompletedMoves
<1>5. CASE op[c].step = START /\ Start(c)
  BY <1>1, <1>2, <1>5, StartMoves
<1>6. CASE op[c].step = PREPARE /\ ProcessTokens(c)
  BY <1>1, <1>2, <1>6, ProcessTokensMoves
<1>7. CASE op[c].step = RESERVE /\ RetryReserve(c)
  BY <1>1, <1>2, <1>7, RetryReserveMoves
<1> QED
  BY <1>3, <1>4, <1>5, <1>6, <1>7 DEF Retry

LEMMA HandlerMoves ==
  ASSUME IInv, FlowInv, NEW c \in Contributions, Handler(c)
  PROVE  Moves(c)
BY OnEntrySavedMoves, PrepareTokensMoves, ReservationAnsweredMoves,
   OnPrepareAutoContributionMoves, PrepareStepSavedMoves, OnProcessTokensMoves,
   OnRedeemTokensMoves, TokenProcessedMoves, ContributionAmountSavedMoves, OnResultMoves,
   ContributionCompletedSavedMoves, OnRetryTimerElapsedMoves, SetRetryCounterMoves, RetryMoves
   DEF Handler

LEMMA CreateNewEntryMoves ==
  ASSUME IInv, FlowInv, NEW c \in Contributions, CreateNewEntry(c)
  PROVE  Moves(c)
<1> DEFINE x == View(c)
           y == View(c)'
           next == [Idle EXCEPT !.at = "OnEntrySaved"]
<1>1. /\ info[c].step = NO /\ TypeOK /\ Wait(c, next)
      /\ UNCHANGED <<redeemId, redeemed, posted>>
  BY DEF CreateNewEntry, IInv
<1>2. PICK type \in Types, amount \in Amounts, S \in (SUBSET Publishers) \ {{}} :
       /\ type = "TIP" => Cardinality(S) = 1
       /\ type = "AC" => amount % TokenValue = 0
       /\ \E share \in [1..amount -> S], rank \in [S -> 1..Cardinality(S)] :
            /\ IsRanking(S, rank)
            /\ rows' = [rows EXCEPT ![c] = SharedRows(S, share, rank)]
       /\ info' = [info EXCEPT ![c] = [type |-> type, amount |-> amount,
                                       step |-> START, retry |-> 0]]
  BY DEF CreateNewEntry
<1>3. PICK share \in [1..amount -> S], rank \in [S -> 1..Cardinality(S)] :
            /\ IsRanking(S, rank)
            /\ rows' = [rows EXCEPT ![c] = SharedRows(S, share, rank)]
  BY <1>2
<1> DEFINE r == SharedRows(S, share, rank)
<1>4. amount \in Nat /\ amount > 0 /\ S \in SUBSET Publishers
  BY ConstantsAssumption
<1>5. next.at = "OnEntrySaved" /\ op'[c] = next
  BY <1>1, WaitFrame DEF Idle
<1> HIDE DEF next
<1>6. info'[c].type = type /\ info'[c].amount = amount /\ info'[c].step = START
  BY <1>1, <1>2 DEF TypeOK
<1>7. rows'[c] = r /\ \A d \in Contributions \ {c} : rows'[d] = rows[d]
  BY <1>1, <1>3 DEF TypeOK
<1>8. /\ y.i = info'[c] /\ y.r = r /\ y.o = next /\ SameTokens(x, y)
      /\ x.i = info[c]
  BY <1>1, <1>5, <1>7 DEF View, SameTokens, SpentBy
<1>9. RowsOk(r) /\ Untouched(r)
  BY <1>3, <1>4, SharedRowsOk
<1>10. Cost(amount, r, Publishers) >= amount
  BY <1>4, SharedCost
<1>11. type = "TIP" => \A p \in ListedIn(r) : r[p].total = amount
  <2> SUFFICES ASSUME type = "TIP", NEW p \in ListedIn(r) PROVE r[p].total = amount
    OBVIOUS
  <2>1. p \in S /\ p \in Publishers
    BY DEF ListedIn, SharedRows, NoRow
  <2>2. S = {p}
    <3>1. Cardinality(S) = 1 /\ IsFiniteSet(S)
      <4>1. IsFiniteSet(Publishers)
        BY ConstantsAssumption, FS_Interval DEF Publishers
      <4>2. IsFiniteSet(S)
        BY <1>4, <4>1, FS_Subset
      <4> QED
        BY <1>2, <4>2
    <3>2. IsFiniteSet({p}) /\ {p} \subseteq S /\ Cardinality({p}) = 1
      BY <2>1, FS_Singleton
    <3> QED
      BY <3>1, <3>2, FS_Subset
  <2>3. \A i \in 1..amount : share[i] = p
    BY <2>2
  <2>4. {i \in DOMAIN share : share[i] = p} = 1..amount
    BY <2>3
  <2>5. Cardinality(1..amount) = amount
    BY <1>4, FS_Interval
  <2>6. r[p].total = Cardinality({i \in DOMAIN share : share[i] = p})
    BY <2>1 DEF SharedRows
  <2> QED
    BY <2>4, <2>5, <2>6
<1> HIDE DEF x, y, r
<1>12. Create(x, y)
  BY <1>1, <1>2, <1>4, <1>5, <1>6, <1>8, <1>9, <1>10, <1>11 DEF Create
<1> QED
  BY <1>1, <1>7, <1>12 DEF Moves, Move, x, y


\* A restart makes every contribution wait for nothing, or for its retry.
LEMMA RestartTurns ==
  ASSUME IInv, FlowInv, Restart, NEW c \in Contributions
  PROVE  Turn(View(c), View(c)', dbErrors', crashes', Spendable)
<1>1. TypeOK /\ UNCHANGED <<info, rows, redeemId, redeemed, posted>> /\ crashes' = crashes + 1
  BY DEF Restart, IInv
<1>2. crashes' > 0
  BY <1>1, ConstantsAssumption DEF TypeOK
<1>3. PICK ok \in BOOLEAN :
        op' = [d \in Contributions |->
                 IF ok /\ NotCompleted(d)
                 THEN [Idle EXCEPT !.at = "SetRetryCounter",
                                   !.step = info[d].step,
                                   !.retry = info[d].retry]
                 ELSE Idle]
  BY DEF Restart
<1> DEFINE next == [Idle EXCEPT !.at = "SetRetryCounter",
                                !.step = info[c].step, !.retry = info[c].retry]
           x == View(c)
           y == View(c)'
<1>4. next.at = "SetRetryCounter" /\ next.step = info[c].step /\ Idle.at = "idle"
  BY DEF Idle
<1>5. (op'[c] = next /\ info[c].step > 0) \/ op'[c] = Idle
  BY <1>3 DEF NotCompleted
<1> HIDE DEF next
<1>6. /\ y.i = x.i /\ y.r = x.r /\ SameTokens(x, y) /\ y.o = op'[c]
      /\ x.i = info[c]
  BY <1>1 DEF View, SameTokens, SpentBy
<1> HIDE DEF x, y
<1>7. OpFits(y)
  BY <1>4, <1>5, <1>6 DEF OpFits
<1>8. Turn(x, y, dbErrors', crashes', Spendable)
  BY <1>2, <1>4, <1>5, <1>6, <1>7 DEF Turn, SameTerms
<1> QED
  BY <1>8 DEF x, y

(***************************************************************************)
(* A step of one contribution leaves the views of the others alone         *)
(***************************************************************************)
LEMMA OthersViews ==
  ASSUME IInv, IInv', NEW c \in Contributions, TokenEffect(c), Frame(c),
         \A d \in Contributions \ {c} : rows'[d] = rows[d],
         NEW d \in Contributions \ {c}
  PROVE  View(d)' = View(d) /\ redeemed \subseteq redeemed'
<1>1. info'[d] = info[d] /\ op'[d] = op[d] /\ rows'[d] = rows[d]
  BY DEF Frame
<1>2. /\ {t \in Tokens : redeemId'[t] = d} = {t \in Tokens : redeemId[t] = d}
      /\ {t \in redeemed' : redeemId'[t] = d} = {t \in redeemed : redeemId[t] = d}
      /\ {w \in posted' : w[2] = d} = {w \in posted : w[2] = d}
      /\ redeemed \subseteq redeemed'
  <2>1. CASE LeavesTokens(c)
    BY <2>1 DEF LeavesTokens
  <2>2. CASE ReservesTokens(c)
    <3>1. PICK take \in SUBSET Tokens :
            /\ take \intersect reserved = {} /\ take \intersect redeemed = {}
            /\ redeemId' = [t \in Tokens |-> IF t \in take THEN c ELSE redeemId[t]]
            /\ UNCHANGED <<redeemed, posted>>
      BY <2>2 DEF ReservesTokens
    <3>2. \A t \in Tokens : redeemId[t] = d => t \notin take
      BY <3>1, ConstantsAssumption DEF IInv, HolderIffReserved
    <3>3. \A t \in Tokens : redeemId'[t] = d <=> redeemId[t] = d
      BY <3>1, <3>2
    <3>4. redeemed \subseteq Tokens
      BY DEF IInv, TypeOK
    <3> QED
      BY <3>1, <3>3, <3>4
  <2>3. CASE VotesWithTokens(c)
    BY <2>3 DEF VotesWithTokens
  <2>4. CASE SpendsTokens(c)
    <3>1. \A t \in op[c].toks : t \in Tokens /\ redeemId[t] = c
      BY <2>4, InFlightIsReserved DEF SpendsTokens, InFlightAt, IInv, TokenIInv, TypeOK, Op
    <3>2. \A t \in Tokens : redeemId'[t] = redeemId[t]
      BY <2>4, <3>1 DEF SpendsTokens
    <3>3. redeemed \subseteq Tokens /\ redeemed' = redeemed \union op[c].toks /\ posted' = posted
      BY <2>4 DEF IInv, TypeOK, SpendsTokens
    <3> QED
      BY <3>1, <3>2, <3>3
  <2>5. CASE ReleasesTokens(c)
    <3>1. \A t \in Tokens : redeemId'[t] = d <=> redeemId[t] = d
      BY <2>5, ConstantsAssumption DEF ReleasesTokens
    <3>2. redeemed \subseteq Tokens /\ UNCHANGED <<redeemed, posted>>
      BY <2>5 DEF IInv, TypeOK, ReleasesTokens
    <3> QED
      BY <3>1, <3>2
  <2> QED
    BY <2>1, <2>2, <2>3, <2>4, <2>5 DEF TokenEffect
<1> QED
  BY <1>1, <1>2 DEF View, SpentBy


\* Failures are never taken back, and a handler leaves the clock alone.
LEMMA FailuresCount ==
  ASSUME TypeOK, NEW ok \in BOOLEAN, NEW saved \in BOOLEAN, Failures(Failed(ok) + Failed(saved))
  PROVE  dbErrors' >= dbErrors
BY ConstantsAssumption DEF TypeOK, Failures, Failed

LEMMA CompletedEnv ==
  ASSUME TypeOK, NEW c, NEW r, ContributionCompleted(c, r)
  PROVE  expired' = expired /\ dbErrors' >= dbErrors
BY FailuresCount DEF ContributionCompleted

LEMMA StartEnv ==
  ASSUME TypeOK, NEW c, Start(c) \/ ProcessTokens(c) \/ RetryReserve(c) \/ UpdateStepPrepare(c)
  PROVE  expired' = expired /\ dbErrors' >= dbErrors
BY FailureCounts DEF Start, ProcessTokens, RetryReserve, UpdateStepPrepare

LEMMA FailureNumber ==
  ASSUME TypeOK
  PROVE  dbErrors >= dbErrors /\ \A ok \in BOOLEAN : Failures(Failed(ok)) => dbErrors' >= dbErrors
BY ConstantsAssumption DEF TypeOK, Failures, Failed

LEMMA PreparePublishersEnv ==
  ASSUME TypeOK, NEW c, PreparePublishers(c)
  PROVE  expired' = expired /\ dbErrors' >= dbErrors
<1>1. CASE Failures(Failed(op[c].toks = {})) /\ UNCHANGED envVars
  <2>1. (op[c].toks = {}) \in BOOLEAN
    OBVIOUS
  <2> QED
    BY <1>1, <2>1, FailureNumber
<1>2. CASE /\ \E ok \in BOOLEAN : Transaction(ok)
           /\ UNCHANGED envVars
  BY <1>2, FailureCounts
<1>3. CASE UpdateStepPrepare(c)
  BY <1>3, StartEnv
<1> QED
  BY <1>1, <1>2, <1>3 DEF PreparePublishers

LEMMA MarkReservedEnv ==
  ASSUME TypeOK, NEW c, NEW list, MarkUnblindedTokensAsReserved(c, list)
  PROVE  expired' = expired /\ dbErrors' >= dbErrors
BY FailureCounts DEF MarkUnblindedTokensAsReserved

LEMMA HandlerEnv ==
  ASSUME TypeOK, NEW c, Handler(c)
  PROVE  expired' = expired /\ dbErrors' >= dbErrors
<1> USE FailureCounts, FailureNumber
<1>1. CASE OnEntrySaved(c)
  BY <1>1, StartEnv DEF OnEntrySaved
<1>2. CASE PrepareTokens(c)
  BY <1>2, MarkReservedEnv DEF PrepareTokens
<1>3. CASE OnMarkUnblindedTokensAsReserved(c)
  BY <1>3, PreparePublishersEnv DEF OnMarkUnblindedTokensAsReserved
<1>4. CASE OnReservedUnblindedTokensForRetryAttempt(c)
  BY <1>4, PreparePublishersEnv DEF OnReservedUnblindedTokensForRetryAttempt
<1>5. CASE OnPrepareAutoContribution(c)
  BY <1>5, StartEnv DEF OnPrepareAutoContribution
<1>6. CASE PrepareStepSaved(c)
  BY <1>6, StartEnv DEF PrepareStepSaved
<1>7. CASE OnProcessTokens(c)
  BY <1>7 DEF OnProcessTokens
<1>8. CASE OnRedeemTokens(c)
  BY <1>8 DEF OnRedeemTokens
<1>9. CASE TokenProcessed(c)
  BY <1>9 DEF TokenProcessed
<1>10. CASE ContributionAmountSaved(c)
  BY <1>10 DEF ContributionAmountSaved
<1>11. CASE OnResult(c)
  BY <1>11, CompletedEnv DEF OnResult
<1>12. CASE ContributionCompletedSaved(c)
  BY <1>12 DEF ContributionCompletedSaved
<1>13. CASE OnRetryTimerElapsed(c)
  BY <1>13 DEF OnRetryTimerElapsed
<1>14. CASE SetRetryCounter(c)
  BY <1>14, CompletedEnv DEF SetRetryCounter
<1>15. CASE Retry(c)
  BY <1>15, CompletedEnv, StartEnv DEF Retry
<1> QED
  BY <1>1, <1>2, <1>3, <1>4, <1>5, <1>6, <1>7, <1>8, <1>9, <1>10, <1>11, <1>12, <1>13,
     <1>14, <1>15 DEF Handler

(***************************************************************************)
(* A step of a contribution keeps the inductive invariants                 *)
(***************************************************************************)
LEMMA StepKeeps ==
  ASSUME PayInv, IInv', NEW c \in Contributions, Moves(c), TokenEffect(c), Frame(c),
         expired' = expired, dbErrors' >= dbErrors
  PROVE  PayInv'
<1>1. /\ IInv /\ FlowInv /\ TypeOK
      /\ ViewOk(View(c), c) /\ Flow(View(c))
  BY ViewsOk DEF PayInv, IInv, FlowInv
<1>2. ViewOk(View(c)', c)
  <2>1. ViewOk(View(c), c)'
    BY ViewsOkNext
  <2> QED
    BY <2>1 DEF ViewOk
<1>3. Move(View(c), View(c)', c, dbErrors', crashes', Spendable)
  BY DEF Moves
<1>4. \A d \in Contributions \ {c} : View(d)' = View(d)
  BY <1>1, OthersViews DEF Moves
<1>5. Flow(View(c)')
  BY <1>1, <1>2, <1>3, FlowMove
<1>6. \A d \in Contributions : Flow(View(d)')
  BY <1>4, <1>5 DEF PayInv, FlowInv
<1>7. FlowInv'
  BY <1>6 DEF FlowInv
<1>8. dbErrors \in Nat /\ dbErrors' \in Nat /\ crashes' = crashes
  BY ConstantsAssumption DEF IInv, TypeOK, PayInv, Frame
<1>9. dbErrors' = 0 => \A d \in Contributions : Votes(View(d)')
  <2> SUFFICES ASSUME dbErrors' = 0 PROVE \A d \in Contributions : Votes(View(d)')
    OBVIOUS
  <2>1. dbErrors = 0
    BY <1>8
  <2>2. \A d \in Contributions : Votes(View(d))
    BY <2>1 DEF PayInv, VoteInv
  <2>3. Move(View(c), View(c)', c, 0, crashes', Spendable)
    BY <1>3
  <2>4. Votes(View(c)')
    BY <1>1, <1>2, <2>2, <2>3, VotesMove
  <2> QED
    BY <1>4, <2>2, <2>4
<1>10. dbErrors' = 0 /\ crashes' = 0 =>
         \A d \in Contributions : Repay(View(d)') /\ Settled(View(d)')
  <2> SUFFICES ASSUME dbErrors' = 0, crashes' = 0
               PROVE  \A d \in Contributions : Repay(View(d)') /\ Settled(View(d)')
    OBVIOUS
  <2>1. dbErrors = 0 /\ crashes = 0
    BY <1>8
  <2>2. \A d \in Contributions : Votes(View(d)) /\ Repay(View(d)) /\ Settled(View(d))
    BY <2>1 DEF PayInv, VoteInv, RepayInv, SettledInv
  <2>3. Move(View(c), View(c)', c, 0, 0, Spendable)
    BY <1>3
  <2>4. Repay(View(c)')
    BY <1>1, <1>2, <2>2, <2>3, RepayMove
  <2>5. Settled(View(c)')
    BY <2>2, <2>3, SettledMove
  <2> QED
    BY <1>4, <2>2, <2>4, <2>5
<1>11. \A d \in Contributions : Tip(View(d)')
  <2>1. Tip(View(c)')
    BY <1>1, <1>2, <1>3, TipMove DEF PayInv, TipInv
  <2> QED
    BY <1>4, <2>1 DEF PayInv, TipInv
<1>12. expired' = {} => \A d \in Contributions : Once(View(d)', redeemed')
  <2> SUFFICES ASSUME expired' = {} PROVE \A d \in Contributions : Once(View(d)', redeemed')
    OBVIOUS
  <2>1. expired = {} /\ Spendable = Tokens \ redeemed
    BY SpendableIs
  <2>2. \A d \in Contributions : Once(View(d), redeemed)
    BY <2>1 DEF PayInv, OnceInv
  <2>3. View(c).s = View(c).h \intersect redeemed
    BY <1>1, SpentIsRedeemed
  <2>4. Spend(View(c), View(c)') \/ redeemed' = redeemed
    BY DEF Moves
  <2>5. Once(View(c)', redeemed')
    BY <1>1, <1>2, <1>3, <1>5, <2>1, <2>2, <2>3, <2>4, OnceMove
  <2>6. ASSUME NEW d \in Contributions \ {c}
        PROVE  Once(View(d)', redeemed')
    <3>1. View(d)' = View(d) /\ redeemed \subseteq redeemed'
      BY <1>1, OthersViews DEF Moves
    <3>2. Once(View(d), redeemed')
      BY <2>2, <3>1, OnceOthers
    <3> QED
      BY <3>1, <3>2
  <2> QED
    BY <2>5, <2>6
<1>13. VoteInv' /\ RepayInv' /\ SettledInv' /\ TipInv' /\ OnceInv'
  BY <1>9, <1>10, <1>11, <1>12 DEF VoteInv, RepayInv, SettledInv, TipInv, OnceInv
<1> QED
  BY <1>7, <1>13 DEF PayInv


LEMMA CreateNewEntryEffect ==
  ASSUME TypeOK, NEW c \in Contributions, CreateNewEntry(c)
  PROVE  TokenEffect(c) /\ Frame(c) /\ expired' = expired /\ dbErrors' >= dbErrors
<1>1. UNCHANGED <<tokenVars, envVars, historyVars, dbErrors>>
  BY DEF CreateNewEntry
<1>2. op'[c].at = "OnEntrySaved" /\ \A d \in Contributions \ {c} : op'[d] = op[d]
  BY DEF CreateNewEntry, Wait, TypeOK, Idle
<1>3. \A d \in Contributions \ {c} : info'[d] = info[d]
  BY DEF CreateNewEntry, TypeOK
<1>4. TokenEffect(c)
  BY <1>1, <1>2 DEF TokenEffect, LeavesTokens
<1>5. Frame(c)
  BY <1>1, <1>2, <1>3 DEF Frame
<1>6. dbErrors' >= dbErrors
  BY <1>1, FailureNumber
<1> QED
  BY <1>1, <1>4, <1>5, <1>6

LEMMA RestartKeeps ==
  ASSUME PayInv, IInv', Restart
  PROVE  PayInv'
<1>1. IInv /\ FlowInv /\ TypeOK /\ crashes' = crashes + 1
      /\ UNCHANGED <<redeemed, expired>>
  BY DEF PayInv, IInv, Restart
<1>2. crashes' # 0
  BY <1>1, ConstantsAssumption DEF TypeOK
<1>3. dbErrors \in Nat /\ dbErrors' >= dbErrors /\ dbErrors' \in Nat
  BY <1>1, FailureCounts DEF Restart
<1>4. ASSUME NEW c \in Contributions
      PROVE  /\ Flow(View(c)') /\ Tip(View(c)')
             /\ dbErrors' = 0 => Votes(View(c)')
             /\ expired' = {} => Once(View(c)', redeemed')
  <2>1. ViewOk(View(c), c) /\ Flow(View(c)) /\ Tip(View(c))
    BY <1>1, ViewsOk DEF PayInv, FlowInv, TipInv
  <2>2. ViewOk(View(c)', c)
    <3>1. ViewOk(View(c), c)'
      BY ViewsOkNext
    <3> QED
      BY <3>1 DEF ViewOk
  <2>3. Turn(View(c), View(c)', dbErrors', crashes', Spendable)
    BY <1>1, RestartTurns
  <2>4. Move(View(c), View(c)', c, dbErrors', crashes', Spendable)
    BY <2>3 DEF Move
  <2>5. Flow(View(c)') /\ Tip(View(c)')
    BY <2>1, <2>2, <2>4, FlowMove, TipMove
  <2>6. ASSUME dbErrors' = 0 PROVE Votes(View(c)')
    <3>1. dbErrors = 0
      BY <1>3, <2>6
    <3>2. Votes(View(c))
      BY <3>1 DEF PayInv, VoteInv
    <3>3. Move(View(c), View(c)', c, 0, crashes', Spendable)
      BY <2>4, <2>6
    <3> QED
      BY <2>1, <2>2, <3>2, <3>3, VotesMove
  <2>7. ASSUME expired' = {} PROVE Once(View(c)', redeemed')
    <3>1. expired = {} /\ Spendable = Tokens \ redeemed
      BY <1>1, <2>7, SpendableIs
    <3>2. Once(View(c), redeemed)
      BY <3>1 DEF PayInv, OnceInv
    <3>3. View(c).s = View(c).h \intersect redeemed
      BY <1>1, SpentIsRedeemed
    <3> QED
      BY <1>1, <2>1, <2>2, <2>4, <2>5, <3>1, <3>2, <3>3, OnceMove
  <2> QED
    BY <2>5, <2>6, <2>7
<1> QED
  BY <1>2, <1>4 DEF PayInv, FlowInv, TipInv, VoteInv, OnceInv, RepayInv, SettledInv

LEMMA QuietKeeps ==
  ASSUME PayInv, IInv', UNCHANGED <<info, rows, redeemId, redeemed, op, posted, crashes, dbErrors>>,
         expired \subseteq expired'
  PROVE  PayInv'
<1>1. \A c \in Contributions : View(c)' = View(c)
  BY DEF View, SpentBy
<1>2. expired' = {} => expired = {}
  OBVIOUS
<1> QED
  BY <1>1, <1>2 DEF PayInv, FlowInv, TipInv, VoteInv, OnceInv, RepayInv, SettledInv

LEMMA InitPays == Init => PayInv
<1> SUFFICES ASSUME Init PROVE PayInv
  OBVIOUS
<1>1. IInv
  BY InitIInv
<1> SUFFICES ASSUME NEW c \in Contributions
             PROVE  /\ Flow(View(c)) /\ Votes(View(c)) /\ Repay(View(c)) /\ Tip(View(c))
                    /\ Once(View(c), redeemed) /\ Settled(View(c))
  BY <1>1 DEF PayInv, FlowInv, TipInv, VoteInv, OnceInv, RepayInv, SettledInv
<1> DEFINE x == View(c)
<1>2. ViewOk(x, c)
  BY <1>1, ViewsOk
<1>3. x.i = NoInfo /\ x.r = [p \in Publishers |-> NoRow] /\ x.o = Idle
  BY DEF View, Init
<1>4. x.h = {} /\ x.s = {} /\ x.v = {}
  BY ConstantsAssumption DEF View, Init, SpentBy
<1>5. /\ x.i.step = NO /\ x.i.amount = 0 /\ x.i.type = "TIP" /\ x.o.at = "idle"
      /\ \A p \in Publishers : x.r[p].rank = 0 /\ x.r[p].total = 0 /\ x.r[p].contributed = 0
                               /\ x.r[p] = NoRow
  BY <1>3 DEF NoInfo, NoRow, Idle
<1> HIDE DEF x
<1>6. ListedIn(x.r) = {}
  BY <1>5 DEF ListedIn
<1>7. RowsOk(x.r) /\ Untouched(x.r)
  BY <1>5, <1>6 DEF RowsOk, Untouched
<1>8. OpFits(x) /\ Settled(x)
  BY <1>4, <1>5 DEF OpFits, Settled
<1>9. Covers(x, PaidIn(x.r))
  BY <1>2, <1>4, <1>5, <1>7, UntouchedCovered DEF Covers
<1>10. Flow(x)
  <2>1. NO # COMPLETED
    BY DEF NO, COMPLETED
  <2> QED
    BY <1>4, <1>5, <1>7, <1>8, <1>9, <2>1 DEF Flow
<1>11. Votes(x)
  BY <1>4, <1>5 DEF Votes
<1>12. Repay(x)
  <2>1. \A p \in Publishers : Cardinality(For(x.v, p)) <= TokensFor(x.r[p].total)
    <3> SUFFICES ASSUME NEW p \in Publishers
                 PROVE  Cardinality(For(x.v, p)) <= TokensFor(x.r[p].total)
      OBVIOUS
    <3>1. Cardinality(For(x.v, p)) = 0
      BY <1>4, ForNothing
    <3>2. TokensFor(x.r[p].total) \in Nat
      BY <1>5, TokensForIs
    <3> QED
      BY <3>1, <3>2
  <2> QED
    BY <1>5, <2>1 DEF Repay, NO
<1>13. Tip(x)
  <2>1. Cardinality(x.h) = 0 /\ TokensFor(x.i.amount) \in Nat
    BY <1>4, <1>5, FS_EmptySet, TokensForIs
  <2>2. \A p \in Publishers : Value(PaidBy(x, p)) >= x.r[p].contributed
    <3> SUFFICES ASSUME NEW p \in Publishers
                 PROVE  Value(PaidBy(x, p)) >= x.r[p].contributed
      OBVIOUS
    <3>1. PaidBy(x, p) = {}
      BY <1>4 DEF PaidBy
    <3>2. Value({}) \in Nat
      BY ValueType
    <3> QED
      BY <1>5, <3>1, <3>2
  <2>3. Cardinality(x.h) <= TokensFor(x.i.amount)
    BY <2>1
  <2> QED
    BY <1>4, <1>5, <1>6, <2>2, <2>3 DEF Tip
<1>14. Once(x, redeemed)
  BY <1>5 DEF Once
<1> QED
  BY <1>8, <1>10, <1>11, <1>12, <1>13, <1>14 DEF x

LEMMA NextPays ==
  ASSUME PayInv, [Next]_vars
  PROVE  PayInv'
<1>1. IInv /\ FlowInv /\ TypeOK /\ IInv'
  BY NextIInv DEF PayInv, IInv
<1>2. ASSUME NEW c \in Contributions, CreateNewEntry(c)
      PROVE  PayInv'
  BY <1>1, <1>2, CreateNewEntryMoves, CreateNewEntryEffect, StepKeeps
<1>3. ASSUME NEW c \in Contributions, Handler(c)
      PROVE  PayInv'
  <2>1. TokenEffect(c) /\ Frame(c)
    BY <1>1, <1>3, HandlerEffect DEF Effect, IInv, TokenIInv
  <2> QED
    BY <1>1, <1>3, <2>1, HandlerMoves, HandlerEnv, StepKeeps
<1>4. CASE Restart
  BY <1>1, <1>4, RestartKeeps
<1>5. CASE SetAutoContributeEnabled \/ \E t \in Expirable : Expire(t)
  BY <1>1, <1>5, QuietKeeps DEF SetAutoContributeEnabled, Expire
<1>6. CASE UNCHANGED vars
  BY <1>1, <1>6, QuietKeeps DEF vars
<1> QED
  BY <1>2, <1>3, <1>4, <1>5, <1>6 DEF Next

(***************************************************************************)
(* The theorems                                                            *)
(***************************************************************************)
\* In every reachable state each contribution has followed its course, voted
\* once with every token, paid no publisher twice, kept one reservation and
\* settled what it ended, each under the failures its part of the invariant allows.
THEOREM Payments == Spec => []PayInv
BY InitPays, NextPays, PTL DEF Spec

\* As long as no transaction fails a token votes once, whatever answers are lost,
\* retried or cut off by a crash, unless the contribution that voted was given up.
THEOREM VotesOnce == Spec => []VoteCastOnce
<1>1. ASSUME PayInv PROVE VoteCastOnce
  <2> SUFFICES ASSUME dbErrors = 0, NEW v \in posted, NEW w \in posted,
                      v[1] = w[1], v # w
               PROVE  v[2] # w[2] /\ (Abandoned(v[2]) \/ Abandoned(w[2]))
    BY DEF VoteCastOnce
  <2>1. v[2] \in Contributions /\ w[2] \in Contributions /\ v \in View(v[2]).v /\ w \in View(w[2]).v
    BY <1>1 DEF PayInv, IInv, TypeOK, View
  <2>2. Votes(View(v[2])) /\ Votes(View(w[2]))
    BY <1>1, <2>1 DEF PayInv, VoteInv
  <2>3. v[2] # w[2]
    BY <2>1, <2>2 DEF Votes
  <2>4. Abandoned(v[2]) \/ redeemId[v[1]] = v[2]
    BY <2>1, <2>2 DEF Votes, GivenUp, Abandoned, Pending, TakeUntil, View, SpentBy
  <2>5. Abandoned(w[2]) \/ redeemId[w[1]] = w[2]
    BY <2>1, <2>2 DEF Votes, GivenUp, Abandoned, Pending, TakeUntil, View, SpentBy
  <2> QED
    BY <2>3, <2>4, <2>5
<1> QED
  BY <1>1, Payments, PTL

\* Without a crash and without a failed transaction the votes a contribution
\* casts for a publisher are never more than its share needs.
THEOREM NotOverpaid == Spec => []PublisherNotOverpaid
<1>1. ASSUME PayInv PROVE PublisherNotOverpaid
  <2> SUFFICES ASSUME crashes = 0, dbErrors = 0, NEW c \in Contributions, NEW p \in Publishers
               PROVE  Cardinality({v \in posted : v[2] = c /\ v[3] = p})
                        <= TokensFor(rows[c][p].total)
    BY DEF PublisherNotOverpaid
  <2>1. Repay(View(c)) /\ View(c).r = rows[c]
    BY <1>1 DEF PayInv, RepayInv, View
  <2>2. For(View(c).v, p) = {v \in posted : v[2] = c /\ v[3] = p}
    BY DEF For, View
  <2> QED
    BY <2>1, <2>2 DEF Repay
<1> QED
  BY <1>1, Payments, PTL

\* MarkRecordListAsSpent never spends more tokens for a contribution than its
\* amount needs, however often it is retried, restarted or drawn again, as long
\* as it keeps one reservation.
THEOREM SpendingBounded == Spec => []SpentWithinAmount
<1>1. ASSUME PayInv PROVE SpentWithinAmount
  <2> SUFFICES ASSUME NEW c \in Contributions, KeepsOneReservation(c)
               PROVE  Cardinality(SpentBy(c)) <= TokensFor(info[c].amount)
    BY DEF SpentWithinAmount
  <2>1. info[c].type \in {"TIP", "AC"} /\ info[c].amount \in Nat
    BY <1>1 DEF PayInv, IInv, TypeOK, Info
  <2>2. View(c).i = info[c] /\ View(c).s = SpentBy(c)
    BY DEF View
  <2>3. Cardinality(View(c).h) <= TokensFor(info[c].amount)
    BY <1>1, <2>1, <2>2 DEF PayInv, TipInv, OnceInv, KeepsOneReservation, Tip, Once
  <2>4. View(c).s \subseteq View(c).h /\ View(c).h \in SUBSET Tokens
    BY <1>1, ViewsOk DEF PayInv, ViewOk
  <2>5. /\ Cardinality(View(c).s) <= Cardinality(View(c).h)
        /\ Cardinality(View(c).s) \in Nat /\ Cardinality(View(c).h) \in Nat
    BY <2>4, TokenSets, FS_Subset
  <2>6. TokensFor(info[c].amount) \in Nat
    BY <2>1, TokensForIs
  <2> QED
    BY <2>2, <2>3, <2>5, <2>6
<1> QED
  BY <1>1, Payments, PTL

\* ContributionCompleted saves STEP_COMPLETED only when every publisher listed is
\* recorded as paid and tokens worth the amount are spent.
THEOREM CompletedPaid == Spec => []CompletedIsPaid
<1>1. ASSUME PayInv PROVE CompletedIsPaid
  <2> SUFFICES ASSUME NEW c \in Contributions, info[c].step = COMPLETED
               PROVE  /\ Unpaid(c) = {}
                      /\ KeepsOneReservation(c) =>
                           TokenValue * Cardinality(SpentBy(c)) >= info[c].amount
    BY DEF CompletedIsPaid
  <2> DEFINE x == View(c)
  <2>1. x.i = info[c] /\ x.s = SpentBy(c) /\ x.r = rows[c]
    BY DEF View
  <2>2. ViewOk(x, c) /\ Flow(x) /\ Unpaid(c) = UnpaidIn(x.r)
    BY <1>1, ViewsOk, FlowFits DEF PayInv, FlowInv
  <2>3. UnpaidIn(x.r) = {}
    BY <2>1, <2>2 DEF Flow
  <2>4. ASSUME KeepsOneReservation(c)
        PROVE  TokenValue * Cardinality(SpentBy(c)) >= info[c].amount
    <3>1. x.i.type \in {"TIP", "AC"} /\ x.i.step # NO
      BY <2>1, <2>2 DEF ViewOk, Info, COMPLETED, NO
    <3>2. Cost(x.i.amount, x.r, Publishers) >= x.i.amount
      BY <1>1, <2>1, <2>4, <3>1 DEF PayInv, TipInv, OnceInv, KeepsOneReservation, Tip, Once
    <3>3. PaidIn(x.r) = ListedIn(x.r)
      BY <2>3 DEF PaidIn, UnpaidIn
    <3>4. Cost(x.i.amount, x.r, ListedIn(x.r)) = Cost(x.i.amount, x.r, Publishers)
      BY <2>2, ViewTypes, CostOfListed DEF Flow, ViewOk
    <3>5. /\ Cost(x.i.amount, x.r, Publishers) \in Nat /\ x.i.amount \in Nat
          /\ Value(x.s) \in Nat
      BY <2>2, ViewTypes
    <3>6. Value(x.s) >= Cost(x.i.amount, x.r, Publishers) \/ Value(x.s) >= x.i.amount
      BY <2>2, <3>3, <3>4 DEF Flow, Covers
    <3>7. Value(x.s) >= x.i.amount
      BY <3>2, <3>5, <3>6
    <3> QED
      BY <2>1, <3>7 DEF Value
  <2> QED
    BY <2>2, <2>3, <2>4
<1> QED
  BY <1>1, Payments, PTL

\* What a tip's row records as contributed is covered by tokens spent on votes for
\* that publisher, wherever transactions fail or the process stops.
THEOREM TipRecordedSpent == Spec => []TipRecordedIsSpent
<1>1. ASSUME PayInv PROVE TipRecordedIsSpent
  <2> SUFFICES ASSUME NEW c \in Contributions, NEW p \in Publishers, info[c].type = "TIP"
               PROVE  TokenValue * Cardinality({t \in SpentBy(c) : <<t, c, p>> \in posted})
                        >= rows[c][p].contributed
    BY DEF TipRecordedIsSpent
  <2>1. Tip(View(c)) /\ View(c).i = info[c] /\ View(c).r = rows[c]
    BY <1>1 DEF PayInv, TipInv, View
  <2>2. PaidBy(View(c), p) = {t \in SpentBy(c) : <<t, c, p>> \in posted}
    <3>1. \A w \in posted : w = <<w[1], w[2], w[3]>>
      BY <1>1 DEF PayInv, IInv, TypeOK
    <3>2. ASSUME NEW t
          PROVE  (\E w \in posted : w[2] = c /\ w[1] = t /\ w[3] = p) <=> <<t, c, p>> \in posted
      BY <3>1
    <3> QED
      BY <3>2 DEF PaidBy, View
  <2> QED
    BY <2>1, <2>2 DEF Tip, Value
<1> QED
  BY <1>1, Payments, PTL

\* Without a crash and without a failed transaction every reserved token is held by
\* a contribution that goes on, or is about to release it.
THEOREM NoOrphans == Spec => []NoOrphanReservation
<1>1. ASSUME PayInv PROVE NoOrphanReservation
  <2> SUFFICES ASSUME crashes = 0, dbErrors = 0, NEW t \in reserved \ redeemed
               PROVE  /\ redeemId[t] \in Contributions
                      /\ op[redeemId[t]].at # "idle"
                      /\ InProgress(redeemId[t])
                           \/ op[redeemId[t]].at = "ContributionCompletedSaved"
    BY DEF NoOrphanReservation
  <2> DEFINE c == redeemId[t]
  <2>1. t \in Tokens /\ c \in Contributions
    BY <1>1, ConstantsAssumption DEF PayInv, IInv, TypeOK, HolderIffReserved
  <2>2. t \in View(c).h \ View(c).s /\ View(c).o = op[c]
    BY <2>1 DEF View, SpentBy
  <2>3. op[c].at # "idle"
    BY <1>1, <2>1, <2>2 DEF PayInv, SettledInv, Settled
  <2>4. Finished(c) => op[c].at = "ContributionCompletedSaved"
    BY <2>3 DEF Finished
  <2>5. ~Finished(c) => InProgress(c)
    BY <1>1, <2>1, InProgressUntilFinished DEF PayInv, IInv, InProgress
  <2> QED
    BY <2>1, <2>3, <2>4, <2>5
<1> QED
  BY <1>1, Payments, PTL

=============================================================================
