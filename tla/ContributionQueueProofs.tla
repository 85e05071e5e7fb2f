---------------------- MODULE ContributionQueueProofs ----------------------
(***************************************************************************)
(* Proofs about ContributionQueue.  A step takes at most one message out   *)
(* of a channel and puts at most one into the next, so the arguments are   *)
(* about what a message is worth: the amount an entry still has to         *)
(* contribute, and whether it carries an entry that is being processed.    *)
(***************************************************************************)
EXTENDS ContributionQueue, SequenceTheorems, FiniteSetTheorems, TLAPS

-----------------------------------------------------------------------------
(* Sequences.                                                              *)

LEMMA AppendedAt ==
  ASSUME NEW S, NEW q \in Seq(S), NEW m \in S
  PROVE  /\ Append(q, m) \in Seq(S)
         /\ DOMAIN q = 1..Len(q) /\ Len(q) \in Nat
         /\ DOMAIN Append(q, m) = 1..Len(q) + 1
         /\ Len(Append(q, m)) = Len(q) + 1
         /\ \A i \in DOMAIN q : i \in DOMAIN Append(q, m) /\ Append(q, m)[i] = q[i]
         /\ Append(q, m)[Len(q) + 1] = m
         /\ \A i \in DOMAIN Append(q, m) : i \in DOMAIN q \/ i = Len(q) + 1
  BY SMTT(30)

LEMMA RemovedAt ==
  ASSUME NEW S, NEW q \in Seq(S), NEW k \in DOMAIN q
  PROVE  /\ RemoveAt(q, k) \in Seq(S)
         /\ DOMAIN q = 1..Len(q) /\ Len(q) \in Nat
         /\ DOMAIN RemoveAt(q, k) = 1..Len(q) - 1
         /\ Len(RemoveAt(q, k)) = Len(q) - 1
         /\ \A i \in DOMAIN RemoveAt(q, k) : i < k => RemoveAt(q, k)[i] = q[i]
         /\ \A i \in DOMAIN RemoveAt(q, k) : i >= k => RemoveAt(q, k)[i] = q[i + 1]
  <1> DEFINE front == SubSeq(q, 1, k - 1)
             back == SubSeq(q, k + 1, Len(q))
  <1>1. DOMAIN q = 1..Len(q) /\ Len(q) \in Nat /\ k \in 1..Len(q)
    OBVIOUS
  <1>2. /\ front \in Seq(S) /\ Len(front) = k - 1
        /\ \A i \in 1..k - 1 : front[i] = q[i]
    <2>1. \A i \in 1..k - 1 : q[i] \in S
      BY <1>1
    <2>2. QED
      BY <1>1, <2>1, SubSeqProperties
  <1>3. /\ back \in Seq(S) /\ Len(back) = Len(q) - k
        /\ \A i \in 1..Len(q) - k : back[i] = q[k + i]
    <2>1. \A i \in k + 1..Len(q) : q[i] \in S
      BY <1>1
    <2>2. /\ SubSeq(q, k + 1, Len(q)) \in Seq(S)
          /\ Len(SubSeq(q, k + 1, Len(q))) = IF k + 1 <= Len(q) THEN Len(q) - (k + 1) + 1 ELSE 0
          /\ \A i \in 1..Len(q) - (k + 1) + 1 : SubSeq(q, k + 1, Len(q))[i] = q[k + 1 + i - 1]
      BY <1>1, <2>1, SubSeqProperties
    <2>3. QED
      BY <1>1, <2>2
  <1> DEFINE joined == front \o back
  <1>4. RemoveAt(q, k) = joined
    BY DEF RemoveAt
  <1> HIDE DEF front, back
  <1>5. /\ joined \in Seq(S)
        /\ Len(joined) = Len(front) + Len(back)
        /\ \A i \in 1..Len(front) + Len(back) :
             joined[i] = IF i <= Len(front) THEN front[i] ELSE back[i - Len(front)]
    BY <1>2, <1>3, ConcatProperties
  <1>6. DOMAIN joined = 1..Len(joined)
    BY <1>5
  <1> HIDE DEF joined
  <1>7. Len(front) + Len(back) = Len(q) - 1 /\ Len(joined) = Len(q) - 1
    BY <1>1, <1>2, <1>3, <1>5
  <1>8. ASSUME NEW i \in 1..Len(q) - 1, i < k
        PROVE  joined[i] = q[i]
    BY <1>1, <1>2, <1>5, <1>7, <1>8
  <1>9. ASSUME NEW i \in 1..Len(q) - 1, i >= k
        PROVE  joined[i] = q[i + 1]
    <2>1. i - (k - 1) \in 1..Len(q) - k /\ k + (i - (k - 1)) = i + 1 /\ ~(i <= k - 1)
      BY <1>1, <1>9
    <2>2. back[i - (k - 1)] = q[i + 1]
      BY <1>3, <2>1
    <2>3. QED
      BY <1>2, <1>5, <1>7, <2>1, <2>2
  <1>10. QED
    BY <1>1, <1>4, <1>5, <1>6, <1>7, <1>8, <1>9

LEMMA TailRemovesFirst ==
  ASSUME NEW S, NEW q \in Seq(S), q # <<>>
  PROVE  Tail(q) = RemoveAt(q, 1) /\ 1 \in DOMAIN q /\ Head(q) = q[1] /\ Head(q) \in S
  <1>1. 1 \in DOMAIN q /\ Head(q) = q[1] /\ Head(q) \in S /\ Len(q) \in Nat
    OBVIOUS
  <1>2. /\ Tail(q) \in Seq(S) /\ Len(Tail(q)) = Len(q) - 1
        /\ \A i \in 1..Len(Tail(q)) : Tail(q)[i] = q[i + 1]
    BY HeadTailProperties
  <1>3. /\ RemoveAt(q, 1) \in Seq(S) /\ Len(RemoveAt(q, 1)) = Len(q) - 1
        /\ \A i \in 1..Len(q) - 1 : i >= 1 => RemoveAt(q, 1)[i] = q[i + 1]
    BY <1>1, RemovedAt
  <1>4. \A i \in 1..Len(Tail(q)) : Tail(q)[i] = RemoveAt(q, 1)[i]
    BY <1>1, <1>2, <1>3
  <1>5. QED
    BY <1>1, <1>2, <1>3, <1>4, SeqEqual

LEMMA AppendUndone ==
  ASSUME NEW S, NEW q \in Seq(S), NEW m \in S
  PROVE  RemoveAt(Append(q, m), Len(q) + 1) = q
  <1>1. /\ Append(q, m) \in Seq(S) /\ Len(q) + 1 \in DOMAIN Append(q, m) /\ Len(q) \in Nat
        /\ Len(Append(q, m)) = Len(q) + 1 /\ \A i \in 1..Len(q) : Append(q, m)[i] = q[i]
    BY AppendedAt
  <1>2. /\ RemoveAt(Append(q, m), Len(q) + 1) \in Seq(S)
        /\ Len(RemoveAt(Append(q, m), Len(q) + 1)) = Len(q)
        /\ \A i \in 1..Len(q) : i < Len(q) + 1 =>
             RemoveAt(Append(q, m), Len(q) + 1)[i] = Append(q, m)[i]
    <2> DEFINE a == Append(q, m)
               n == Len(q) + 1
    <2> HIDE DEF a, n
    <2>1. a \in Seq(S) /\ n \in DOMAIN a
      BY <1>1 DEF a, n
    <2>2. /\ RemoveAt(a, n) \in Seq(S)
          /\ DOMAIN RemoveAt(a, n) = 1..Len(a) - 1
          /\ Len(RemoveAt(a, n)) = Len(a) - 1
          /\ \A i \in DOMAIN RemoveAt(a, n) : i < n => RemoveAt(a, n)[i] = a[i]
      BY <2>1, RemovedAt
    <2>3. Len(a) - 1 = Len(q)
      BY <1>1 DEF a
    <2>4. QED
      BY <2>2, <2>3 DEF a, n
  <1>3. \A i \in 1..Len(q) : RemoveAt(Append(q, m), Len(q) + 1)[i] = q[i]
    BY <1>1, <1>2
  <1>4. QED
    BY <1>2, <1>3, SeqEqual

-----------------------------------------------------------------------------
(* What the messages of a channel are worth together.  W gives the worth   *)
(* of a message, b is a bound on it: the sum counts the unit squares under *)
(* the bars W[q[1]], W[q[2]], and so on.                                   *)

Squares(q, W, b) == {x \in (DOMAIN q) \X (1..b) : x[2] <= W[q[x[1]]]}
SumOf(q, W, b) == Cardinality(Squares(q, W, b))

LEMMA PairsAre ==
  ASSUME NEW A, NEW B
  PROVE  /\ \A x \in A \X B : x = <<x[1], x[2]>> /\ x[1] \in A /\ x[2] \in B
         /\ \A i \in A, j \in B : <<i, j>> \in A \X B
  OBVIOUS

LEMMA SquaresAre ==
  ASSUME NEW q, NEW W, NEW b
  PROVE  /\ \A x \in Squares(q, W, b) :
              /\ x = <<x[1], x[2]>> /\ x[1] \in DOMAIN q /\ x[2] \in 1..b
              /\ x[2] <= W[q[x[1]]]
         /\ \A i \in DOMAIN q, j \in 1..b : j <= W[q[i]] => <<i, j>> \in Squares(q, W, b)
         /\ Squares(q, W, b) \subseteq (DOMAIN q) \X (1..b)
  <1> DEFINE A == DOMAIN q
             B == 1..b
             C == {x \in A \X B : x[2] <= W[q[x[1]]]}
  <1>1. Squares(q, W, b) = C
    BY Zenon DEF Squares
  <1> HIDE DEF A, B
  <1>2. \A x \in C : /\ x = <<x[1], x[2]>> /\ x[1] \in A /\ x[2] \in B
                      /\ x[2] <= W[q[x[1]]]
    BY PairsAre
  <1>3. ASSUME NEW i \in A, NEW j \in B, j <= W[q[i]]
        PROVE  <<i, j>> \in C
    <2>1. <<i, j>> \in A \X B
      BY PairsAre
    <2>2. <<i, j>>[1] = i /\ <<i, j>>[2] = j
      OBVIOUS
    <2>3. QED
      BY <1>3, <2>1, <2>2
  <1>4. C \subseteq A \X B
    OBVIOUS
  <1> HIDE DEF C
  <1>5. QED
    BY <1>1, <1>2, <1>3, <1>4 DEF A, B

LEMMA SumType ==
  ASSUME NEW S, NEW q \in Seq(S), NEW W, NEW b \in Nat
  PROVE  IsFiniteSet(Squares(q, W, b)) /\ SumOf(q, W, b) \in Nat
  <1>1. DOMAIN q = 1..Len(q) /\ Len(q) \in Nat
    OBVIOUS
  <1>2. IsFiniteSet(1..Len(q)) /\ IsFiniteSet(1..b)
    BY <1>1, FS_Interval
  <1>3. IsFiniteSet((1..Len(q)) \X (1..b))
    BY <1>2, FS_Product
  <1>4. Squares(q, W, b) \in SUBSET ((1..Len(q)) \X (1..b))
    <2>1. Squares(q, W, b) \subseteq (DOMAIN q) \X (1..b)
      BY SquaresAre
    <2>2. QED
      BY <1>1, <2>1, Zenon
  <1>5. IsFiniteSet(Squares(q, W, b))
    BY <1>3, <1>4, FS_Subset
  <1>6. QED
    BY <1>5, FS_CardinalityType DEF SumOf

LEMMA SumOfNone ==
  ASSUME NEW W, NEW b
  PROVE  SumOf(<<>>, W, b) = 0
  <1>1. \A x \in Squares(<<>>, W, b) : x[1] \in DOMAIN <<>>
    BY SquaresAre
  <1>2. Squares(<<>>, W, b) = {}
    BY <1>1
  <1>3. QED
    BY <1>2, FS_EmptySet DEF SumOf

(* The sum is zero just when every message is worth nothing. *)
LEMMA SumIsZero ==
  ASSUME NEW S, NEW q \in Seq(S), NEW b \in Nat, NEW W \in [S -> Nat],
         \A i \in DOMAIN q : W[q[i]] <= b
  PROVE  SumOf(q, W, b) = 0 <=> \A i \in DOMAIN q : W[q[i]] = 0
  <1>1. SumOf(q, W, b) = 0 <=> Squares(q, W, b) = {}
    BY SumType, FS_EmptySet DEF SumOf
  <1>2. ASSUME Squares(q, W, b) = {}, NEW i \in DOMAIN q
        PROVE  W[q[i]] = 0
    <2>1. W[q[i]] \in Nat /\ W[q[i]] <= b
      OBVIOUS
    <2>2. \A j \in 1..b : ~(j <= W[q[i]])
      BY <1>2, SquaresAre
    <2>3. QED
      BY <2>1, <2>2
  <1>3. ASSUME \A i \in DOMAIN q : W[q[i]] = 0
        PROVE  Squares(q, W, b) = {}
    <2>1. \A x \in Squares(q, W, b) : x[1] \in DOMAIN q /\ x[2] \in 1..b /\ x[2] <= W[q[x[1]]]
      BY SquaresAre
    <2>2. QED
      BY <1>3, <2>1
  <1>4. QED
    BY <1>1, <1>2, <1>3

(* Taking a message out lowers the sum by what it is worth. *)
LEMMA SumRemoved ==
  ASSUME NEW S, NEW q \in Seq(S), NEW k \in DOMAIN q, NEW b \in Nat,
         NEW W \in [S -> Nat], W[q[k]] <= b
  PROVE  SumOf(q, W, b) = SumOf(RemoveAt(q, k), W, b) + W[q[k]]
  <1> DEFINE p == RemoveAt(q, k)
             n == Len(q)
             u == W[q[k]]
             At(i) == IF i < k THEN i ELSE i + 1
             bar == {x \in Squares(q, W, b) : x[1] = k}
             rest == {x \in Squares(q, W, b) : x[1] # k}
             f == [j \in 1..u |-> <<k, j>>]
             g == [x \in Squares(p, W, b) |-> <<At(x[1]), x[2]>>]
  <1>1. /\ DOMAIN q = 1..n /\ n \in Nat /\ k \in 1..n
        /\ p \in Seq(S) /\ DOMAIN p = 1..n - 1
        /\ \A i \in DOMAIN p : p[i] = q[At(i)] /\ At(i) \in DOMAIN q /\ At(i) # k
    <2>1. /\ DOMAIN q = 1..n /\ n \in Nat
          /\ p \in Seq(S) /\ DOMAIN p = 1..n - 1
          /\ \A i \in DOMAIN p : i < k => p[i] = q[i]
          /\ \A i \in DOMAIN p : i >= k => p[i] = q[i + 1]
      BY RemovedAt
    <2> HIDE DEF p, n
    <2>2. QED
      BY <2>1, SMTT(30)
  <1>2. u \in Nat /\ u <= b
    OBVIOUS
  <1> HIDE DEF p, n, u
  <1>3. bar = {<<k, j>> : j \in 1..u}
    <2>2. ASSUME NEW x \in bar
          PROVE  \E j \in 1..u : x = <<k, j>>
      <3>1. x = <<k, x[2]>> /\ x[2] \in 1..b /\ x[2] <= W[q[x[1]]] /\ x[1] = k
        BY SquaresAre
      <3>2. x[2] <= u
        BY <3>1 DEF u
      <3>3. QED
        BY <1>2, <3>1, <3>2
    <2>3. ASSUME NEW j \in 1..u
          PROVE  <<k, j>> \in bar
      <3>1. j \in 1..b /\ k \in DOMAIN q
        BY <1>2
      <3>2. j <= W[q[k]]
        BY <1>2 DEF u
      <3>3. <<k, j>> \in Squares(q, W, b)
        BY <3>1, <3>2, SquaresAre
      <3>4. QED
        BY <3>3
    <2>4. QED
      BY <2>2, <2>3
  <1>4. Cardinality(bar) = u /\ IsFiniteSet(bar)
    <2>1. f \in Bijection(1..u, bar)
      <3>1. f \in [1..u -> bar]
        BY <1>3
      <3>2. \A i, j \in 1..u : f[i] = f[j] => i = j
        OBVIOUS
      <3>3. \A x \in bar : \E j \in 1..u : f[j] = x
        BY <1>3
      <3>4. QED
        BY <3>1, <3>2, <3>3 DEF Bijection, Injection, IsInjective, Surjection
    <2>2. ExistsBijection(1..u, bar)
      BY <2>1 DEF ExistsBijection
    <2>3. IsFiniteSet(1..u) /\ Cardinality(1..u) = u
      <3>1. 1 \in Int /\ u \in Int
        BY <1>2
      <3>2. IsFiniteSet(1..u) /\ Cardinality(1..u) = IF 1 > u THEN 0 ELSE u - 1 + 1
        BY <3>1, FS_Interval, Zenon
      <3>3. QED
        BY <1>2, <3>2
    <2>4. QED
      BY <2>2, <2>3, FS_Bijection
  <1>5. Cardinality(rest) = SumOf(p, W, b) /\ IsFiniteSet(rest)
    <2>1. \A x \in Squares(p, W, b) : /\ x[1] \in DOMAIN p /\ x[2] \in 1..b
                                      /\ x = <<x[1], x[2]>> /\ x[2] <= W[p[x[1]]]
      BY SquaresAre
    <2>2. ASSUME NEW x \in Squares(p, W, b)
          PROVE  g[x] \in rest
      <3>1. /\ x[1] \in DOMAIN p /\ x[2] \in 1..b /\ x[2] <= W[p[x[1]]]
            /\ At(x[1]) \in DOMAIN q /\ At(x[1]) # k /\ p[x[1]] = q[At(x[1])]
        BY <1>1, <2>1
      <3> DEFINE a == At(x[1])
      <3>2. a \in DOMAIN q /\ a # k /\ x[2] <= W[q[a]] /\ x[2] \in 1..b
        BY <3>1
      <3> HIDE DEF a
      <3>3. <<a, x[2]>> \in Squares(q, W, b) /\ <<a, x[2]>>[1] = a
        BY <3>2, SquaresAre
      <3>4. <<a, x[2]>> \in rest
        BY <3>2, <3>3
      <3>5. QED
        BY <3>4 DEF a
    <2>3. ASSUME NEW x \in Squares(p, W, b), NEW y \in Squares(p, W, b), g[x] = g[y]
          PROVE  x = y
      <3>1. At(x[1]) = At(y[1]) /\ x[2] = y[2]
        BY <2>3
      <3>2. x[1] \in 1..n - 1 /\ y[1] \in 1..n - 1 /\ k \in 1..n /\ n \in Nat
        BY <1>1, <2>1
      <3>3. x[1] = y[1]
        BY <3>1, <3>2, SMTT(30)
      <3>4. QED
        BY <2>1, <3>1, <3>3
    <2>4. ASSUME NEW y \in rest
          PROVE  \E x \in Squares(p, W, b) : g[x] = y
      <3>1. /\ y[1] \in DOMAIN q /\ y[2] \in 1..b /\ y = <<y[1], y[2]>>
            /\ y[2] <= W[q[y[1]]] /\ y[1] # k
        BY SquaresAre
      <3> DEFINE a == IF y[1] < k THEN y[1] ELSE y[1] - 1
      <3>2. a \in DOMAIN p /\ At(a) = y[1]
        <4>1. y[1] \in 1..n /\ k \in 1..n /\ n \in Nat /\ y[1] # k
          BY <1>1, <3>1
        <4>2. a \in 1..n - 1 /\ At(a) = y[1]
          BY <4>1
        <4>3. QED
          BY <1>1, <4>2
      <3>3. p[a] = q[y[1]]
        BY <1>1, <3>2
      <3> HIDE DEF a
      <3>4. <<a, y[2]>> \in Squares(p, W, b) /\ <<a, y[2]>>[1] = a /\ <<a, y[2]>>[2] = y[2]
        BY <3>1, <3>2, <3>3, SquaresAre
      <3>5. g[<<a, y[2]>>] = y
        BY <3>1, <3>2, <3>4
      <3>6. QED
        BY <3>4, <3>5
    <2>5. g \in Bijection(Squares(p, W, b), rest)
      BY <2>2, <2>3, <2>4 DEF Bijection, Injection, IsInjective, Surjection
    <2>6. ExistsBijection(Squares(p, W, b), rest)
      BY <2>5 DEF ExistsBijection
    <2>7. IsFiniteSet(Squares(p, W, b))
      BY <1>1, SumType
    <2>8. QED
      BY <2>6, <2>7, FS_Bijection DEF SumOf
  <1>6. Squares(q, W, b) = rest \cup bar /\ rest \cap bar = {}
    OBVIOUS
  <1>7. Cardinality(rest \cup bar) = Cardinality(rest) + Cardinality(bar) - Cardinality(rest \cap bar)
    BY <1>4, <1>5, FS_Union
  <1>8. Cardinality(rest \cap bar) = 0
    BY <1>6, FS_EmptySet
  <1>9. SumOf(p, W, b) \in Nat
    BY <1>1, SumType
  <1>10. SumOf(q, W, b) = Cardinality(rest \cup bar)
    BY <1>6 DEF SumOf
  <1> HIDE DEF rest, bar
  <1>11. QED
    BY <1>2, <1>4, <1>5, <1>7, <1>8, <1>9, <1>10 DEF p, u

LEMMA SumHeadGone ==
  ASSUME NEW S, NEW q \in Seq(S), q # <<>>, NEW b \in Nat,
         NEW W \in [S -> Nat], W[Head(q)] <= b
  PROVE  SumOf(q, W, b) = SumOf(Tail(q), W, b) + W[Head(q)]
  <1>1. Tail(q) = RemoveAt(q, 1) /\ 1 \in DOMAIN q /\ Head(q) = q[1] /\ Head(q) \in S
    BY TailRemovesFirst
  <1>2. W[q[1]] <= b
    BY <1>1
  <1>3. SumOf(q, W, b) = SumOf(RemoveAt(q, 1), W, b) + W[q[1]]
    BY <1>1, <1>2, SumRemoved
  <1>4. QED
    BY <1>1, <1>3, Zenon

(* Putting a message in raises it. *)
LEMMA SumAppended ==
  ASSUME NEW S, NEW q \in Seq(S), NEW m \in S, NEW b \in Nat,
         NEW W \in [S -> Nat], W[m] <= b
  PROVE  SumOf(Append(q, m), W, b) = SumOf(q, W, b) + W[m]
  <1> DEFINE a == Append(q, m)
             n == Len(q) + 1
  <1>1. a \in Seq(S) /\ n \in DOMAIN a /\ a[n] = m
    BY AppendedAt
  <1>2. RemoveAt(a, n) = q
    BY AppendUndone
  <1> HIDE DEF a, n
  <1>3. SumOf(a, W, b) = SumOf(RemoveAt(a, n), W, b) + W[a[n]]
    BY <1>1, SumRemoved
  <1>4. QED
    BY <1>1, <1>2, <1>3 DEF a

(* A message is worth no more than the channel. *)
LEMMA SumAtLeast ==
  ASSUME NEW S, NEW q \in Seq(S), NEW b \in Nat, NEW W \in [S -> Nat],
         NEW k \in DOMAIN q, W[q[k]] <= b
  PROVE  W[q[k]] <= SumOf(q, W, b) /\ SumOf(q, W, b) \in Nat
  <1>1. SumOf(q, W, b) = SumOf(RemoveAt(q, k), W, b) + W[q[k]]
    BY SumRemoved
  <1>2. RemoveAt(q, k) \in Seq(S)
    BY RemovedAt
  <1>3. SumOf(RemoveAt(q, k), W, b) \in Nat /\ SumOf(q, W, b) \in Nat
    BY <1>2, SumType
  <1>4. W[q[k]] \in Nat
    OBVIOUS
  <1>5. QED
    BY <1>1, <1>3, <1>4


(* Messages that are worth nothing may follow. *)
LEMMA SumPadded ==
  ASSUME NEW S, NEW q \in Seq(S), NEW p \in Seq(S), NEW b \in Nat,
         NEW W \in [S -> Nat], DOMAIN q \subseteq DOMAIN p,
         \A i \in DOMAIN q : p[i] = q[i],
         \A i \in DOMAIN p : i \notin DOMAIN q => W[p[i]] = 0
  PROVE  SumOf(p, W, b) = SumOf(q, W, b)
  <1>1. \A x \in Squares(p, W, b) : x \in Squares(q, W, b)
    <2> TAKE x \in Squares(p, W, b)
    <2>1. /\ x = <<x[1], x[2]>> /\ x[1] \in DOMAIN p /\ x[2] \in 1..b
          /\ x[2] <= W[p[x[1]]]
      BY SquaresAre
    <2>2. x[1] \in DOMAIN q
      BY <2>1
    <2>3. x[2] <= W[q[x[1]]]
      BY <2>1, <2>2
    <2>4. <<x[1], x[2]>> \in Squares(q, W, b)
      BY <2>1, <2>2, <2>3, SquaresAre
    <2>5. QED
      BY <2>1, <2>4
  <1>2. \A x \in Squares(q, W, b) : x \in Squares(p, W, b)
    <2> TAKE x \in Squares(q, W, b)
    <2>1. /\ x = <<x[1], x[2]>> /\ x[1] \in DOMAIN q /\ x[2] \in 1..b
          /\ x[2] <= W[q[x[1]]]
      BY SquaresAre
    <2>2. x[1] \in DOMAIN p /\ x[2] <= W[p[x[1]]]
      BY <2>1
    <2>3. <<x[1], x[2]>> \in Squares(p, W, b)
      BY <2>1, <2>2, SquaresAre
    <2>4. QED
      BY <2>1, <2>3
  <1>3. Squares(p, W, b) = Squares(q, W, b)
    BY <1>1, <1>2
  <1>4. QED
    BY <1>3 DEF SumOf

(* Two channels together: requests weighed by V, replies by W. *)
Both(q, r, V, W, b) == SumOf(q, V, b) + SumOf(r, W, b)

LEMMA BothType ==
  ASSUME NEW S, NEW T, NEW q \in Seq(S), NEW r \in Seq(T), NEW V, NEW W, NEW b \in Nat
  PROVE  Both(q, r, V, W, b) \in Nat
  <1>1. SumOf(q, V, b) \in Nat /\ SumOf(r, W, b) \in Nat
    BY SumType
  <1>2. QED
    BY <1>1 DEF Both


-----------------------------------------------------------------------------
(* What is known of the messages.  made gives the amount each entry was    *)
(* made with.                                                              *)

(* The balance behind the wallet a job contributed from last. *)
After(job) == (IF job.wallet < 1 THEN job.balance[1] ELSE 0)
              + (IF job.wallet < 2 THEN job.balance[2] ELSE 0)
              + (IF job.wallet < 3 THEN job.balance[3] ELSE 0)

(* The row of an entry that was read is on its way to be saved again. *)
Resaved(op, job) == op \in {"save_row", "save_publishers"} /\ job.caller = "Contribution"

JobOk(op, job, made) ==
  /\ 0 < job.amount /\ job.amount <= made[job.entry]
  /\ op \notin {"save_row", "save_publishers"} => job.caller = "Contribution"
  /\ op \in {"first", "publishers"} => job.wallet = NoWallet
  /\ Resaved(op, job) => job.wallet \in Wallets /\ job.amount <= After(job)
  /\ op = "save_contribution" => /\ job.wallet \in Wallets /\ 0 < job.balance[job.wallet]
                                 /\ job.amount <= job.balance[job.wallet] + After(job)

NoRequest == Request("first", NoJob)
NoRow == Reply("first", NoJob, FALSE)
AllRequests == [op : Operations \ {"first"}, job : Job] \cup {NoRequest}
AllReplies == [op : Operations, job : Job, ok : BOOLEAN] \cup {NoRow}

Requests(made) == {m \in AllRequests : m.op # "first" => JobOk(m.op, m.job, made)}
Replies(made) == {m \in AllReplies : (m.op = "first" => m.ok) => JobOk(m.op, m.job, made)}
Waiting(made) == {j \in Job : JobOk("publishers", j, made)}
Rows(made) == {r \in [entry : Entries, amount : Nat, done : BOOLEAN] :
                 0 < r.amount /\ r.amount <= made[r.entry]}

ShapeInv ==
  /\ rows \in Seq(Rows(asked))
  /\ \A i, j \in DOMAIN rows : rows[i].entry = rows[j].entry => i = j
  /\ shares \subseteq Entries
  /\ requests \in Seq(Requests(asked))
  /\ replies \in Seq(Replies(asked))
  /\ fetches \in Seq(Waiting(asked))
  /\ inProgress \in BOOLEAN
  /\ timer \in BOOLEAN
  /\ crashes \in 0..MaxCrashes
  /\ dbErrors \in 0..MaxDbErrors
  /\ fetchErrors \in 0..MaxFetchErrors
  /\ asked \in [Entries -> Amounts \cup {0}]
  /\ paid \in [Entries -> Nat]
  /\ passes \in [Entries -> Nat]
  /\ refused \subseteq Entries
  /\ overlapped \in BOOLEAN

-----------------------------------------------------------------------------
(* What the messages are worth.                                            *)

RequestAbout(m, e) == m.op # "first" /\ m.job.entry = e
ReplyAbout(m, e) == (m.op = "first" => m.ok) /\ m.job.entry = e

(* A job that has chosen a wallet carries what is left to contribute. *)
Commits(op, job, e) ==
  job.entry = e /\ job.wallet # NoWallet /\ (op = "save_contribution" \/ Resaved(op, job))

RequestOwes(e) ==
  [m \in AllRequests |->
     IF m.op # "first" /\ Commits(m.op, m.job, e) THEN m.job.amount ELSE 0]
ReplyOwes(e) ==
  [m \in AllReplies |->
     IF m.op # "first" /\ m.ok /\ Commits(m.op, m.job, e)
     THEN IF m.op = "save_contribution" THEN Left(m.job) ELSE m.job.amount
     ELSE 0]
FetchOwes(e) == [j \in Job |-> IF j.entry = e THEN j.amount ELSE 0]

InFlowReply(m) == InFlow(m) \/ (m.op = "first" /\ m.ok)
RequestFlows == [m \in AllRequests |-> IF InFlow(m) THEN 1 ELSE 0]
ReplyFlows == [m \in AllReplies |-> IF InFlowReply(m) THEN 1 ELSE 0]

(* b is the amount the entry was made with. *)
Owed(q, r, e, b) == Both(q, r, RequestOwes(e), ReplyOwes(e), b)
Awaited(f, e, b) == SumOf(f, FetchOwes(e), b)
Flows(q, r, f) == Both(q, r, RequestFlows, ReplyFlows, 1) + Len(f)

Committed(e) == paid[e] + Owed(requests, replies, e, asked[e])

-----------------------------------------------------------------------------
(* The invariants.                                                         *)

PassInv ==
  \A e \in Entries :
    Committed(e) + Awaited(fetches, e, asked[e]) <= asked[e] * passes[e]

(* An entry is made once; until its row is saved nothing else is known of it. *)
Makes(m) == m.op = "save_row" /\ m.job.caller # "Contribution"
MakerInv ==
  \A i \in DOMAIN requests : Makes(requests[i]) =>
    /\ \A j \in DOMAIN requests : RequestAbout(requests[j], requests[i].job.entry) => i = j
    /\ \A j \in DOMAIN replies : ~ReplyAbout(replies[j], requests[i].job.entry)
    /\ \A j \in DOMAIN fetches : fetches[j].entry # requests[i].job.entry
    /\ \A j \in DOMAIN rows : rows[j].entry # requests[i].job.entry
    /\ paid[requests[i].job.entry] = 0

SavesAnswered ==
  \A i \in DOMAIN replies :
    replies[i].op \in {"save_row", "save_publishers", "save_contribution"} => replies[i].ok
FlagInv ==
  dbErrors = 0 => SavesAnswered /\ (inProgress => Flows(requests, replies, fetches) > 0)

FlowInv ==
  ~overlapped =>
    /\ Flows(requests, replies, fetches) <= 1
    /\ \A i \in DOMAIN requests : InFlow(requests[i]) => ~Done(requests[i].job.entry)
    /\ \A i \in DOMAIN replies :
         InFlowReply(replies[i]) /\ replies[i].op # "mark" => ~Done(replies[i].job.entry)
    /\ \A i \in DOMAIN fetches : ~Done(fetches[i].entry)

FlowIn(q, r, f, e) ==
  \/ \E i \in DOMAIN q : InFlow(q[i]) /\ q[i].job.entry = e
  \/ \E i \in DOMAIN r : InFlowReply(r[i]) /\ r[i].job.entry = e
  \/ \E i \in DOMAIN f : f[i].entry = e
FlowOf(e) == FlowIn(requests, replies, fetches, e)

OnceInv ==
  dbErrors = 0 /\ crashes = 0 /\ ~overlapped =>
    /\ \A e \in Entries : Committed(e) <= asked[e]
    /\ \A i \in DOMAIN requests :
         requests[i].op = "publishers" => Committed(requests[i].job.entry) = 0
    /\ \A i \in DOMAIN replies :
         /\ replies[i].op = "publishers" \/ (replies[i].op = "first" /\ replies[i].ok)
              => Committed(replies[i].job.entry) = 0
         /\ replies[i].op = "mark" =>
              \A j \in DOMAIN rows : rows[j].entry = replies[i].job.entry => rows[j].done
    /\ \A i \in DOMAIN fetches : Committed(fetches[i].entry) = 0
    /\ \A i \in DOMAIN rows :
         ~rows[i].done /\ ~FlowOf(rows[i].entry) => Committed(rows[i].entry) = 0

(* Every message about the entry carries the amount it was made with. *)
WholeIn(rs, q, r, f, e, b) ==
  /\ \A i \in DOMAIN rs : rs[i].entry = e => rs[i].amount = b
  /\ \A i \in DOMAIN q : RequestAbout(q[i], e) => q[i].job.amount = b
  /\ \A i \in DOMAIN r : ReplyAbout(r[i], e) => r[i].job.amount = b
  /\ \A i \in DOMAIN f : f[i].entry = e => f[i].amount = b
Whole(e) == WholeIn(rows, requests, replies, fetches, e, asked[e])

TipsInv ==
  dbErrors = 0 /\ crashes = 0 =>
    \A e \in Tips \cup RecurringTips :
      Committed(e) >= asked[e] \/ (Committed(e) = 0 /\ Whole(e))

Served(e) == paid[e] > 0 \/ e \in refused
ServedInv ==
  dbErrors = 0 /\ crashes = 0 =>
    /\ \A i \in DOMAIN rows : rows[i].done => Served(rows[i].entry)
    /\ \A i \in DOMAIN requests : requests[i].op = "mark" => Served(requests[i].job.entry)
    /\ \A i \in DOMAIN replies :
         replies[i].op = "save_contribution" => paid[replies[i].job.entry] > 0
    /\ \A i \in DOMAIN fetches : fetches[i].listed

(* The publishers of an entry whose row is saved are saved, or will be     *)
(* before anything that reads the row is answered.                         *)
ListPosted(q, e, n) ==
  \E i \in DOMAIN q : i < n /\ q[i].op = "save_publishers" /\ q[i].job.entry = e
RowSaved(r, e, n) ==
  \E i \in DOMAIN r : i < n /\ r[i].op = "save_row" /\ r[i].job.entry = e
InOrder(rs, sh, q, r) ==
  /\ \A i \in DOMAIN rs :
       \/ rs[i].entry \in sh
       \/ ListPosted(q, rs[i].entry, Len(q) + 1) \/ RowSaved(r, rs[i].entry, Len(r) + 1)
  /\ \A i \in DOMAIN r : r[i].op = "first" /\ r[i].ok =>
       \/ r[i].job.entry \in sh
       \/ ListPosted(q, r[i].job.entry, Len(q) + 1) \/ RowSaved(r, r[i].job.entry, i)
  /\ \A i \in DOMAIN q : q[i].op = "publishers" =>
       q[i].job.entry \in sh \/ ListPosted(q, q[i].job.entry, i)
  /\ \A i \in DOMAIN r : r[i].op = "publishers" => r[i].ok
OrderInv == dbErrors = 0 /\ crashes = 0 => InOrder(rows, shares, requests, replies)

QueueInv ==
  ShapeInv /\ PassInv /\ MakerInv /\ FlagInv /\ FlowInv /\ OnceInv /\ TipsInv
  /\ ServedInv /\ OrderInv


-----------------------------------------------------------------------------
(* Jobs and wallets.                                                       *)

LEMMA JobParts ==
  ASSUME NEW job \in Job
  PROVE  /\ job.entry \in Entries /\ job.amount \in Nat /\ job.caller \in Callers
         /\ job.listed \in BOOLEAN /\ job.wallet \in 0..3
         /\ job.balance \in [Wallets -> Nat]
         /\ \A w \in Wallets : job.balance[w] \in Nat
  <1>1. /\ job.entry \in Entries /\ job.amount \in Nat /\ job.caller \in Callers
        /\ job.listed \in BOOLEAN /\ job.wallet \in Wallets \cup {NoWallet}
        /\ job.balance \in Balances \cup {NoBalance}
    BY DEF Job
  <1>2. NoBalance \in [Wallets -> Nat]
    BY DEF NoBalance
  <1>3. job.balance \in [Wallets -> Nat]
    BY <1>1, <1>2, BalancesAssumption
  <1>4. job.wallet \in 0..3
    BY <1>1 DEF Wallets, NoWallet
  <1>5. QED
    BY <1>1, <1>3, <1>4

LEMMA AfterIs ==
  ASSUME NEW job \in Job
  PROVE  /\ After(job) \in Nat
         /\ job.balance[1] \in Nat /\ job.balance[2] \in Nat /\ job.balance[3] \in Nat
         /\ job.wallet = 0 => After(job) = job.balance[1] + job.balance[2] + job.balance[3]
         /\ job.wallet = 1 => After(job) = job.balance[2] + job.balance[3]
         /\ job.wallet = 2 => After(job) = job.balance[3]
         /\ job.wallet = 3 => After(job) = 0
  <1>1. job.balance[1] \in Nat /\ job.balance[2] \in Nat /\ job.balance[3] \in Nat
    BY JobParts DEF Wallets
  <1>2. job.wallet \in 0..3
    BY JobParts
  <1>3. QED
    BY <1>1, <1>2 DEF After

LEMMA JobMoved ==
  ASSUME NEW job \in Job, NEW w \in Wallets
  PROVE  LET moved == [job EXCEPT !.wallet = w]
         IN /\ moved \in Job /\ moved.wallet = w /\ moved.entry = job.entry
            /\ moved.amount = job.amount /\ moved.caller = job.caller
            /\ moved.balance = job.balance /\ moved.listed = job.listed
  BY DEF Job

LEMMA JobLowered ==
  ASSUME NEW job \in Job, NEW n \in Nat
  PROVE  LET lowered == [job EXCEPT !.amount = n]
         IN /\ lowered \in Job /\ lowered.amount = n /\ lowered.entry = job.entry
            /\ lowered.wallet = job.wallet /\ lowered.caller = job.caller
            /\ lowered.balance = job.balance /\ lowered.listed = job.listed
            /\ After(lowered) = After(job)
  BY DEF Job, After

(* The next wallet is the first that is not empty: nothing is passed over. *)
LEMMA NextWallet ==
  ASSUME NEW job \in Job, Funded(job) # {}
  PROVE  LET w == GetNextProcessor(job)
         IN /\ w \in Wallets /\ job.balance[w] \in Nat /\ job.balance[w] > 0
            /\ After(job) = job.balance[w] + After([job EXCEPT !.wallet = w])
  <1> DEFINE F == Funded(job)
             w == GetNextProcessor(job)
  <1>1. F = {v \in 1..3 : v > job.wallet /\ job.balance[v] > 0}
    BY DEF Funded, Wallets
  <1>2. /\ job.balance[1] \in Nat /\ job.balance[2] \in Nat /\ job.balance[3] \in Nat
        /\ job.wallet \in 0..3
    BY JobParts, AfterIs
  <1>3. \E v \in F : \A u \in F : v <= u
    <2>1. CASE 1 \in F
      BY <1>1, <2>1
    <2>2. CASE 1 \notin F /\ 2 \in F
      BY <1>1, <2>2
    <2>3. CASE 1 \notin F /\ 2 \notin F
      <3>1. \A u \in F : u = 3
        BY <1>1, <2>3
      <3>2. QED
        BY <3>1
    <2>4. QED
      BY <2>1, <2>2, <2>3
  <1>4. w \in F /\ \A u \in F : w <= u
    <2>1. w = CHOOSE v \in F : \A u \in F : v <= u
      BY DEF GetNextProcessor
    <2> HIDE DEF F, w
    <2>2. QED
      BY <1>3, <2>1
  <1> DEFINE moved == [job EXCEPT !.wallet = w]
  <1> HIDE DEF F, w
  <1>5. w \in 1..3 /\ w > job.wallet /\ job.balance[w] > 0
    BY <1>1, <1>4
  <1>6. \A v \in 1..3 : v > job.wallet /\ v < w => job.balance[v] = 0
    <2> SUFFICES ASSUME NEW v \in 1..3, v > job.wallet, v < w
                 PROVE  job.balance[v] = 0
      OBVIOUS
    <2>1. v \notin F
      BY <1>4, <1>5
    <2>2. ~(job.balance[v] > 0)
      BY <1>1, <2>1
    <2>3. job.balance[v] \in Nat
      BY <1>2
    <2>4. QED
      BY <2>2, <2>3
  <1>7. moved \in Job /\ moved.wallet = w /\ moved.balance = job.balance
    BY <1>5, JobMoved DEF Wallets
  <1> HIDE DEF moved
  <1>8. /\ w = 1 => After(moved) = job.balance[2] + job.balance[3]
        /\ w = 2 => After(moved) = job.balance[3]
        /\ w = 3 => After(moved) = 0
    BY <1>7, AfterIs
  <1>9. /\ job.wallet = 0 => After(job) = job.balance[1] + job.balance[2] + job.balance[3]
        /\ job.wallet = 1 => After(job) = job.balance[2] + job.balance[3]
        /\ job.wallet = 2 => After(job) = job.balance[3]
    BY AfterIs
  <1>10. After(job) = job.balance[w] + After(moved)
    <2>1. CASE w = 1
      <3>1. job.wallet = 0
        BY <1>2, <1>5, <2>1
      <3>2. QED
        BY <1>2, <1>8, <1>9, <2>1, <3>1
    <2>2. CASE w = 2
      <3>1. job.wallet = 0 \/ job.wallet = 1
        BY <1>2, <1>5, <2>2
      <3>2. job.wallet = 0 => job.balance[1] = 0
        BY <1>6, <2>2
      <3>3. QED
        BY <1>2, <1>8, <1>9, <2>2, <3>1, <3>2
    <2>3. CASE w = 3
      <3>1. job.wallet = 0 \/ job.wallet = 1 \/ job.wallet = 2
        BY <1>2, <1>5, <2>3
      <3>2. job.wallet = 0 => job.balance[1] = 0 /\ job.balance[2] = 0
        BY <1>6, <2>3
      <3>3. job.wallet = 1 => job.balance[2] = 0
        BY <1>6, <2>3
      <3>4. QED
        BY <1>2, <1>8, <1>9, <2>3, <3>1, <3>2, <3>3
    <2>4. QED
      BY <1>5, <2>1, <2>2, <2>3
  <1>11. w \in Wallets /\ job.balance[w] \in Nat
    BY <1>2, <1>5, JobParts DEF Wallets
  <1>12. QED
    BY <1>5, <1>10, <1>11 DEF w, moved

LEMMA NoneFunded ==
  ASSUME NEW job \in Job, Funded(job) = {}
  PROVE  After(job) = 0
  <1>1. \A v \in 1..3 : v > job.wallet => ~(job.balance[v] > 0)
    BY DEF Funded, Wallets
  <1>2. /\ job.balance[1] \in Nat /\ job.balance[2] \in Nat /\ job.balance[3] \in Nat
        /\ job.wallet \in 0..3
    BY JobParts, AfterIs
  <1>3. /\ job.wallet < 1 => job.balance[1] = 0
        /\ job.wallet < 2 => job.balance[2] = 0
        /\ job.wallet < 3 => job.balance[3] = 0
    BY <1>1, <1>2
  <1>4. QED
    BY <1>2, <1>3 DEF After

(* What a wallet cannot cover is within what the later ones hold. *)
LEMMA LeftIs ==
  ASSUME NEW job \in Job, job.wallet \in Wallets
  PROVE  /\ Left(job) \in Nat /\ Left(job) <= job.amount
         /\ 0 < job.amount /\ 0 < job.balance[job.wallet] => Left(job) < job.amount
         /\ job.amount <= job.balance[job.wallet] + After(job) => Left(job) <= After(job)
  <1> DEFINE b == job.balance[job.wallet]
  <1>1. job.amount \in Nat /\ b \in Nat /\ After(job) \in Nat
    BY JobParts, AfterIs
  <1>2. Left(job) = IF b < job.amount THEN job.amount - b ELSE 0
    BY DEF Left
  <1> HIDE DEF b
  <1>3. QED
    BY <1>1, <1>2 DEF b


-----------------------------------------------------------------------------
(* The steps, each as what it takes out of a channel and puts into one.    *)

(* CreateNewEntry saves a contribution of the same amount. *)
Continues(job, m) ==
  \E w \in Wallets :
    /\ m = Request("save_contribution", [job EXCEPT !.wallet = w])
    /\ 0 < job.balance[w]

(* The request a reply leads to. *)
Sends(h, m) ==
  \/ h.op = "save_row" /\ h.ok /\ m = Request("save_publishers", h.job)
  \/ h.op = "save_publishers" /\ h.ok /\ h.job.caller = "ContributionTip" /\ m = NoRequest
  \/ h.op = "save_publishers" /\ h.ok /\ h.job.caller = "Contribution" /\ Continues(h.job, m)
  \/ h.op = "first" /\ h.ok /\ m = Request("publishers", h.job)
  \/ /\ h.op = "save_contribution" /\ h.ok /\ Left(h.job) > 0
     /\ m = Request("save_row", [h.job EXCEPT !.amount = Left(h.job)])
  \/ h.op = "save_contribution" /\ h.ok /\ Left(h.job) = 0 /\ m = Request("mark", h.job)

(* The replies nothing follows. *)
Ends(h) ==
  \/ h.op \in {"save_row", "save_publishers", "save_contribution"} /\ ~h.ok
  \/ h.op = "save_publishers" /\ h.job.caller # "Contribution"
  \/ h.op = "first" /\ ~h.ok
  \/ h.op = "mark"

HandlerFrame ==
  /\ replies # <<>> /\ replies' = Tail(replies) /\ timer' \in BOOLEAN
  /\ UNCHANGED <<rows, shares, paid, crashes, dbErrors, fetchErrors, asked, refused, overlapped>>

SendStep(m) ==
  /\ HandlerFrame /\ Sends(Head(replies), m)
  /\ requests' = Append(requests, m)
  /\ UNCHANGED <<fetches, inProgress, passes>>

EndStep ==
  /\ HandlerFrame /\ Ends(Head(replies))
  /\ inProgress' = IF Head(replies).op \in {"first", "mark"} THEN FALSE ELSE inProgress
  /\ UNCHANGED <<requests, fetches, passes>>

FetchStep ==
  /\ HandlerFrame /\ Head(replies).op = "publishers"
  /\ inProgress' = TRUE
  /\ fetches' = Append(fetches, [Head(replies).job EXCEPT !.listed = Head(replies).ok])
  /\ passes' = [passes EXCEPT ![Head(replies).job.entry] = @ + 1]
  /\ UNCHANGED requests

LEMMA RequestsAre ==
  ASSUME NEW made, NEW m \in Requests(made)
  PROVE  /\ m \in AllRequests /\ m.op \in Operations
         /\ m = Request(m.op, m.job)
         /\ m.op = "first" <=> m = NoRequest
         /\ m.op # "first" => m.job \in Job /\ JobOk(m.op, m.job, made)
  BY DEF Requests, AllRequests, Request, NoRequest, Operations

LEMMA RepliesAre ==
  ASSUME NEW made, NEW m \in Replies(made)
  PROVE  /\ m \in AllReplies /\ m.op \in Operations /\ m.ok \in BOOLEAN
         /\ m.op # "first" \/ m.ok => m.job \in Job /\ JobOk(m.op, m.job, made)
         /\ m = Reply(m.op, m.job, m.ok)
  <1>1. CASE m = NoRow
    <2>1. m.op = "first" /\ m.ok = FALSE /\ m = Reply(m.op, m.job, m.ok)
      BY <1>1 DEF NoRow, Reply
    <2>2. m \in AllReplies
      BY DEF Replies
    <2>3. QED
      BY <2>1, <2>2 DEF Operations
  <1>2. CASE m \in [op : Operations, job : Job, ok : BOOLEAN]
    <2>1. m.op \in Operations /\ m.job \in Job /\ m.ok \in BOOLEAN /\ m = Reply(m.op, m.job, m.ok)
      BY <1>2 DEF Reply
    <2>2. m \in AllReplies /\ ((m.op = "first" => m.ok) => JobOk(m.op, m.job, made))
      BY DEF Replies
    <2>3. QED
      BY <2>1, <2>2
  <1>3. QED
    BY <1>1, <1>2 DEF Replies, AllReplies

LEMMA RequestIn ==
  ASSUME NEW made, NEW op \in Operations, op # "first", NEW job \in Job, JobOk(op, job, made)
  PROVE  /\ Request(op, job) \in Requests(made)
         /\ Request(op, job).op = op /\ Request(op, job).job = job
  BY DEF Requests, AllRequests, Request

LEMMA ReplyIn ==
  ASSUME NEW made, NEW op \in Operations, NEW job \in Job, JobOk(op, job, made),
         NEW ok \in BOOLEAN
  PROVE  /\ Reply(op, job, ok) \in Replies(made)
         /\ Reply(op, job, ok).op = op /\ Reply(op, job, ok).job = job
         /\ Reply(op, job, ok).ok = ok
  BY DEF Replies, AllReplies, Reply

LEMMA NothingIn ==
  ASSUME NEW made
  PROVE  /\ NoRequest \in Requests(made) /\ NoRequest.op = "first"
         /\ NoRow \in Replies(made) /\ NoRow.op = "first" /\ NoRow.ok = FALSE
  BY DEF Requests, AllRequests, Request, NoRequest, Replies, AllReplies, Reply, NoRow

LEMMA CreateNewEntryContinues ==
  ASSUME NEW job \in Job, NEW made, job.caller = "Contribution",
         0 < job.amount, job.amount <= made[job.entry], made[job.entry] \in Nat,
         job.amount <= After(job), CreateNewEntry(job)
  PROVE  \E m \in Requests(made) : Continues(job, m) /\ requests' = Append(requests, m)
  <1>1. job.amount \in Nat /\ After(job) \in Nat
    BY JobParts, AfterIs
  <1>2. Funded(job) # {}
    BY <1>1, NoneFunded
  <1> DEFINE w == GetNextProcessor(job)
             moved == [job EXCEPT !.wallet = w]
             m == Request("save_contribution", moved)
  <1>3. requests' = Append(requests, m)
    BY <1>2 DEF CreateNewEntry, Post
  <1>4. /\ w \in Wallets /\ job.balance[w] \in Nat /\ job.balance[w] > 0
        /\ After(job) = job.balance[w] + After(moved)
    BY <1>2, NextWallet
  <1>5. Continues(job, m)
    BY <1>4 DEF Continues
  <1> HIDE DEF w
  <1>6. /\ moved \in Job /\ moved.wallet = w /\ moved.entry = job.entry
        /\ moved.amount = job.amount /\ moved.caller = job.caller
        /\ moved.balance = job.balance
    BY <1>4, JobMoved
  <1> HIDE DEF moved
  <1>7. JobOk("save_contribution", moved, made)
    BY <1>1, <1>4, <1>6 DEF JobOk, Resaved
  <1>8. m \in Requests(made)
    BY <1>6, <1>7, RequestIn DEF Operations
  <1> HIDE DEF m
  <1>9. QED
    BY <1>3, <1>5, <1>8

LEMMA HeadsAre ==
  ASSUME ShapeInv
  PROVE  /\ requests # <<>> => /\ Head(requests) \in Requests(asked)
                               /\ Head(requests) = requests[1] /\ 1 \in DOMAIN requests
         /\ replies # <<>> => /\ Head(replies) \in Replies(asked)
                              /\ Head(replies) = replies[1] /\ 1 \in DOMAIN replies
  BY TailRemovesFirst DEF ShapeInv


(* An amount is known for every entry. *)
LEMMA MadeType ==
  ASSUME ShapeInv, NEW e \in Entries
  PROVE  asked[e] \in Nat /\ paid[e] \in Nat /\ passes[e] \in Nat
  <1>1. asked \in [Entries -> Amounts \cup {0}] /\ paid \in [Entries -> Nat] /\ passes \in [Entries -> Nat]
    BY DEF ShapeInv
  <1>2. asked[e] \in Amounts \cup {0}
    BY <1>1
  <1>3. asked[e] \in Nat
    <2>1. \A a \in Amounts : a \in Nat
      BY AmountsAssumption, Zenon
    <2>2. QED
      BY <1>2, <2>1
  <1>4. QED
    BY <1>1, <1>3

LEMMA HandlerForms ==
  ASSUME ShapeInv, OnRunDBTransaction
  PROVE  \/ \E m \in Requests(asked) : SendStep(m)
         \/ EndStep
         \/ FetchStep
  <1> DEFINE h == Head(replies)
  <1>1. replies # <<>> /\ h \in Replies(asked)
    BY HeadsAre DEF OnRunDBTransaction
  <1>2. /\ h.op \in Operations /\ h.ok \in BOOLEAN
        /\ h.op # "first" \/ h.ok => h.job \in Job /\ JobOk(h.op, h.job, asked)
    BY <1>1, RepliesAre
  <1>3. /\ Handle(h) /\ replies' = Tail(replies)
        /\ UNCHANGED <<rows, shares, paid, crashes, dbErrors, fetchErrors, asked, refused, overlapped>>
    BY DEF OnRunDBTransaction, tables, bounds
  <1>4. timer \in BOOLEAN
    BY DEF ShapeInv
  <1>5. h.op # "first" \/ h.ok => asked[h.job.entry] \in Nat
    BY <1>2, JobParts, MadeType
  <1> HIDE DEF h
  <1>6. timer' \in BOOLEAN
    BY <1>3, <1>4 DEF Handle, OnInsertOrUpdate, OnQueueSaved, OnGetFirstRecord,
       OnProcessContributionQueue, OnEntrySaved, OnMarkContributionQueueAsComplete
  <1>7. HandlerFrame
    BY <1>1, <1>3, <1>6 DEF HandlerFrame
  <1> DEFINE Goal == (\E m \in Requests(asked) : SendStep(m)) \/ EndStep \/ FetchStep
  <1> SUFFICES Goal
    OBVIOUS
  <1>8. ASSUME NEW m \in Requests(asked), Sends(h, m), requests' = Append(requests, m),
               UNCHANGED <<fetches, inProgress, passes>>
        PROVE  Goal
    BY <1>7, <1>8 DEF SendStep, h
  <1>9. ASSUME Ends(h), UNCHANGED <<requests, fetches, passes>>,
               inProgress' = IF h.op \in {"first", "mark"} THEN FALSE ELSE inProgress
        PROVE  Goal
    BY <1>7, <1>9 DEF EndStep, h
  <1> HIDE DEF Goal
  <1>10. CASE OnInsertOrUpdate(h)
    <2>1. h.op = "save_row" /\ UNCHANGED <<fetches, inProgress, passes>>
      BY <1>10 DEF OnInsertOrUpdate
    <2>2. CASE h.ok
      <3> DEFINE m == Request("save_publishers", h.job)
      <3>1. requests' = Append(requests, m)
        BY <1>10, <2>2 DEF OnInsertOrUpdate, Post
      <3>2. JobOk("save_publishers", h.job, asked)
        BY <1>2, <2>1 DEF JobOk, Resaved
      <3>3. m \in Requests(asked)
        BY <1>2, <2>1, <3>2, RequestIn DEF Operations
      <3>4. Sends(h, m)
        BY <2>1, <2>2 DEF Sends
      <3>5. QED
        BY <1>8, <2>1, <3>1, <3>3, <3>4
    <2>3. CASE ~h.ok
      <3>1. UNCHANGED requests
        BY <1>10, <2>3 DEF OnInsertOrUpdate
      <3>2. Ends(h)
        BY <2>1, <2>3 DEF Ends
      <3>3. QED
        BY <1>9, <2>1, <3>1, <3>2
    <2>4. QED
      BY <2>2, <2>3
  <1>11. CASE OnQueueSaved(h)
    <2>1. h.op = "save_publishers" /\ UNCHANGED <<fetches, inProgress, passes>>
      BY <1>11 DEF OnQueueSaved
    <2>2. CASE UNCHANGED requests /\ (~h.ok \/ h.job.caller # "Contribution")
      <3>1. Ends(h)
        BY <2>1, <2>2 DEF Ends
      <3>2. QED
        BY <1>9, <2>1, <2>2, <3>1
    <2>3. CASE h.ok /\ h.job.caller = "ContributionTip" /\ ProcessContributionQueue
      <3>1. CASE inProgress
        BY <2>2, <2>3, <3>1 DEF ProcessContributionQueue
      <3>2. CASE ~inProgress
        <4>1. requests' = Append(requests, NoRequest)
          BY <2>3, <3>2 DEF ProcessContributionQueue, Post, NoRequest
        <4>2. Sends(h, NoRequest)
          BY <2>1, <2>3 DEF Sends
        <4>3. QED
          BY <1>8, <2>1, <4>1, <4>2, NothingIn
      <3>3. QED
        BY <3>1, <3>2
    <2>4. CASE h.ok /\ h.job.caller = "Contribution" /\ CreateNewEntry(h.job)
      <3>1. /\ h.job \in Job /\ 0 < h.job.amount /\ h.job.amount <= asked[h.job.entry]
            /\ h.job.amount <= After(h.job) /\ asked[h.job.entry] \in Nat
        BY <1>2, <1>5, <2>1, <2>4 DEF JobOk, Resaved
      <3>2. PICK m \in Requests(asked) : Continues(h.job, m) /\ requests' = Append(requests, m)
        BY <2>4, <3>1, CreateNewEntryContinues
      <3>3. Sends(h, m)
        BY <2>1, <2>4, <3>2 DEF Sends
      <3>4. QED
        BY <1>8, <2>1, <3>2, <3>3
    <2>5. QED
      BY <1>11, <2>2, <2>3, <2>4 DEF OnQueueSaved
  <1>12. CASE OnGetFirstRecord(h)
    <2>1. h.op = "first" /\ UNCHANGED <<fetches, passes>>
      BY <1>12 DEF OnGetFirstRecord
    <2>2. CASE h.ok
      <3> DEFINE m == Request("publishers", h.job)
      <3>1. requests' = Append(requests, m) /\ UNCHANGED inProgress
        BY <1>12, <2>2 DEF OnGetFirstRecord, Post
      <3>2. JobOk("publishers", h.job, asked)
        BY <1>2, <2>1, <2>2 DEF JobOk, Resaved
      <3>3. m \in Requests(asked)
        BY <1>2, <2>2, <3>2, RequestIn DEF Operations
      <3>4. Sends(h, m)
        BY <2>1, <2>2 DEF Sends
      <3>5. QED
        BY <1>8, <2>1, <3>1, <3>3, <3>4
    <2>3. CASE ~h.ok
      <3>1. UNCHANGED requests /\ inProgress' = FALSE
        BY <1>12, <2>3 DEF OnGetFirstRecord
      <3>2. Ends(h)
        BY <2>1, <2>3 DEF Ends
      <3>3. QED
        BY <1>9, <2>1, <3>1, <3>2
    <2>4. QED
      BY <2>2, <2>3
  <1>13. CASE OnProcessContributionQueue(h)
    <2>1. FetchStep
      BY <1>7, <1>13 DEF OnProcessContributionQueue, FetchStep, h
    <2>2. QED
      BY <2>1 DEF Goal
  <1>14. CASE OnEntrySaved(h)
    <2>1. h.op = "save_contribution" /\ UNCHANGED <<fetches, inProgress, passes>>
      BY <1>14 DEF OnEntrySaved
    <2>2. /\ h.job \in Job /\ JobOk("save_contribution", h.job, asked)
      BY <1>2, <2>1
    <2>3. /\ h.job.wallet \in Wallets /\ h.job.amount \in Nat /\ asked[h.job.entry] \in Nat
          /\ 0 < h.job.amount /\ h.job.amount <= asked[h.job.entry]
          /\ h.job.caller = "Contribution"
          /\ Left(h.job) \in Nat /\ Left(h.job) <= h.job.amount
          /\ Left(h.job) <= After(h.job)
      BY <1>5, <2>1, <2>2, LeftIs, JobParts DEF JobOk
    <2>4. CASE h.ok /\ Left(h.job) > 0
      <3> DEFINE lowered == [h.job EXCEPT !.amount = Left(h.job)]
                 m == Request("save_row", lowered)
      <3>1. requests' = Append(requests, m)
        BY <1>14, <2>4 DEF OnEntrySaved, SaveContributionQueue, Post
      <3>2. Sends(h, m)
        BY <2>1, <2>4 DEF Sends
      <3>3. /\ lowered \in Job /\ lowered.amount = Left(h.job) /\ lowered.entry = h.job.entry
            /\ lowered.wallet = h.job.wallet /\ lowered.caller = h.job.caller
            /\ After(lowered) = After(h.job)
        BY <2>2, <2>3, JobLowered
      <3> HIDE DEF lowered
      <3>4. JobOk("save_row", lowered, asked)
        BY <2>3, <2>4, <3>3 DEF JobOk, Resaved
      <3>5. m \in Requests(asked)
        BY <3>3, <3>4, RequestIn DEF Operations
      <3>6. QED
        BY <1>8, <2>1, <3>1, <3>2, <3>5
    <2>5. CASE h.ok /\ ~(Left(h.job) > 0)
      <3> DEFINE m == Request("mark", h.job)
      <3>1. requests' = Append(requests, m)
        BY <1>14, <2>5 DEF OnEntrySaved, MarkContributionQueueAsComplete, Post
      <3>2. Left(h.job) = 0
        BY <2>3, <2>5
      <3>3. Sends(h, m)
        BY <2>1, <2>5, <3>2 DEF Sends
      <3>4. JobOk("mark", h.job, asked)
        BY <2>3 DEF JobOk, Resaved
      <3>5. m \in Requests(asked)
        BY <2>2, <3>4, RequestIn DEF Operations
      <3>6. QED
        BY <1>8, <2>1, <3>1, <3>3, <3>5
    <2>6. CASE ~h.ok
      <3>1. UNCHANGED requests
        BY <1>14, <2>6 DEF OnEntrySaved
      <3>2. Ends(h)
        BY <2>1, <2>6 DEF Ends
      <3>3. QED
        BY <1>9, <2>1, <3>1, <3>2
    <2>7. QED
      BY <2>4, <2>5, <2>6
  <1>15. CASE OnMarkContributionQueueAsComplete(h)
    <2>1. /\ h.op = "mark" /\ inProgress' = FALSE /\ UNCHANGED <<requests, fetches, passes>>
      BY <1>15 DEF OnMarkContributionQueueAsComplete
    <2>2. Ends(h)
      BY <2>1 DEF Ends
    <2>3. QED
      BY <1>9, <2>1, <2>2
  <1>16. QED
    BY <1>3, <1>10, <1>11, <1>12, <1>13, <1>14, <1>15 DEF Handle


BalanceStep(i, m) ==
  /\ i \in DOMAIN fetches /\ fetches' = RemoveAt(fetches, i)
  /\ requests' = Append(requests, m)
  /\ m.job.entry = fetches[i].entry
  /\ \/ /\ m.op = "mark" /\ m.job.amount = fetches[i].amount
        /\ ~fetches[i].listed \/ fetches[i].entry \in refused'
     \/ /\ m.op = "save_contribution" /\ m.job.wallet \in Wallets
        /\ m.job.amount <= fetches[i].amount
        /\ fetches[i].entry \notin AutoContributions => m.job.amount = fetches[i].amount
  /\ refused \subseteq refused' /\ refused' \subseteq Entries
  /\ UNCHANGED <<rows, shares, paid, replies, inProgress, timer, crashes, dbErrors,
                 fetchErrors, asked, passes, overlapped>>

LEMMA WaitingAre ==
  ASSUME NEW made, NEW j \in Waiting(made)
  PROVE  /\ j \in Job /\ JobOk("publishers", j, made) /\ j.entry \in Entries /\ j.amount \in Nat
         /\ 0 < j.amount /\ j.amount <= made[j.entry]
         /\ j.wallet = NoWallet /\ j.caller = "Contribution"
  <1>1. j \in Job /\ JobOk("publishers", j, made)
    BY DEF Waiting
  <1>2. QED
    BY <1>1, JobParts DEF JobOk

(* The split spends the balance that was compared with the amount. *)
LEMMA ProcessPosts ==
  ASSUME NEW made, NEW job \in Waiting(made), made[job.entry] \in Nat,
         NEW balance \in Balances, Process(job, balance)
  PROVE  \E m \in Requests(made) :
           /\ requests' = Append(requests, m)
           /\ m.job.entry = job.entry
           /\ \/ /\ m.op = "mark" /\ m.job.amount = job.amount
                 /\ ~job.listed \/ job.entry \in refused'
              \/ /\ m.op = "save_contribution" /\ m.job.wallet \in Wallets
                 /\ m.job.amount <= job.amount
                 /\ job.entry \notin AutoContributions => m.job.amount = job.amount
           /\ refused' = refused \/ refused' = refused \cup {job.entry}
  <1>1. /\ job \in Job /\ JobOk("publishers", job, made) /\ job.entry \in Entries
        /\ job.amount \in Nat /\ 0 < job.amount /\ job.amount <= made[job.entry]
        /\ job.wallet = NoWallet /\ job.caller = "Contribution"
    BY WaitingAre
  <1> DEFINE total == Total(balance)
             amount == AmountWithin(job, total)
             spent == [job EXCEPT !.amount = amount, !.balance = balance]
             mark == Request("mark", job)
  <1>2. mark \in Requests(made) /\ mark.op = "mark" /\ mark.job = job
    <2>1. JobOk("mark", job, made)
      BY <1>1 DEF JobOk, Resaved
    <2>2. QED
      BY <1>1, <2>1, RequestIn DEF Operations
  <1>3. balance[1] \in Nat /\ balance[2] \in Nat /\ balance[3] \in Nat
    <2>1. balance \in [Wallets -> Nat]
      BY BalancesAssumption
    <2>2. QED
      BY <2>1 DEF Wallets
  <1>4. total \in Nat /\ total = balance[1] + balance[2] + balance[3]
    BY <1>3 DEF Total
  <1>5. CASE MarkContributionQueueAsComplete(job) /\ (~job.listed \/ job.entry \in refused')
             /\ (refused' = refused \/ refused' = refused \cup {job.entry})
    <2>1. requests' = Append(requests, mark)
      BY <1>5 DEF MarkContributionQueueAsComplete, Post
    <2> HIDE DEF mark
    <2>2. QED
      BY <1>2, <1>5, <2>1
  <1>6. CASE CreateNewEntry(spent) /\ HaveEnoughFundsToContribute(job, total) /\ refused' = refused
    <2>1. /\ amount \in Nat /\ 0 < amount /\ amount <= job.amount /\ amount <= total
          /\ job.entry \notin AutoContributions => amount = job.amount
      <3>1. CASE IsPartial(job)
        BY <1>1, <1>4, <1>6, <3>1 DEF HaveEnoughFundsToContribute, AmountWithin, IsPartial
      <3>2. CASE ~IsPartial(job)
        BY <1>1, <1>4, <1>6, <3>2 DEF HaveEnoughFundsToContribute, AmountWithin
      <3>3. QED
        BY <3>1, <3>2
    <2> HIDE DEF amount, total
    <2>2. /\ spent \in Job /\ spent.amount = amount /\ spent.entry = job.entry
          /\ spent.wallet = NoWallet /\ spent.caller = "Contribution" /\ spent.balance = balance
      BY <1>1, <2>1 DEF Job
    <2> HIDE DEF spent
    <2>3. After(spent) = total
      BY <1>4, <2>2, AfterIs DEF NoWallet
    <2>4. PICK m \in Requests(made) : Continues(spent, m) /\ requests' = Append(requests, m)
      <3>1. spent.amount <= made[spent.entry] /\ made[spent.entry] \in Nat
        BY <1>1, <2>1, <2>2
      <3>2. QED
        BY <1>6, <2>1, <2>2, <2>3, <3>1, CreateNewEntryContinues
    <2>5. PICK w \in Wallets : m = Request("save_contribution", [spent EXCEPT !.wallet = w])
      BY <2>4 DEF Continues
    <2>6. /\ m.op = "save_contribution" /\ m.job.wallet = w /\ m.job.entry = spent.entry
          /\ m.job.amount = spent.amount
      BY <2>2, <2>5, JobMoved DEF Request
    <2>7. QED
      BY <1>6, <2>1, <2>2, <2>4, <2>6
  <1>7. CASE job.amount = 0 \/ ~job.listed
    BY <1>1, <1>5, <1>7 DEF Process
  <1>8. CASE ~(job.amount = 0 \/ ~job.listed) /\ ~HaveEnoughFundsToContribute(job, total)
    BY <1>5, <1>8 DEF Process
  <1>9. CASE ~(job.amount = 0 \/ ~job.listed) /\ HaveEnoughFundsToContribute(job, total)
    BY <1>6, <1>9 DEF Process
  <1>10. QED
    BY <1>7, <1>8, <1>9

LEMMA BalanceForms ==
  ASSUME ShapeInv, NEW i, OnBalance(i)
  PROVE  \E m \in Requests(asked) : BalanceStep(i, m)
  <1>1. i \in DOMAIN fetches /\ fetches[i] \in Waiting(asked)
    BY ElementOfSeq DEF ShapeInv, OnBalance
  <1>2. fetches[i].entry \in Entries /\ asked[fetches[i].entry] \in Nat
    BY <1>1, WaitingAre, MadeType
  <1> DEFINE job == fetches[i]
  <1>3. PICK balance \in Balances : Process(job, balance)
    BY DEF OnBalance
  <1> HIDE DEF job
  <1>4. PICK m \in Requests(asked) :
           /\ requests' = Append(requests, m)
           /\ m.job.entry = job.entry
           /\ \/ /\ m.op = "mark" /\ m.job.amount = job.amount
                 /\ ~job.listed \/ job.entry \in refused'
              \/ /\ m.op = "save_contribution" /\ m.job.wallet \in Wallets
                 /\ m.job.amount <= job.amount
                 /\ job.entry \notin AutoContributions => m.job.amount = job.amount
           /\ refused' = refused \/ refused' = refused \cup {job.entry}
    BY <1>1, <1>2, <1>3, ProcessPosts DEF job
  <1>5. refused \subseteq refused' /\ refused' \subseteq Entries
    BY <1>2, <1>4 DEF ShapeInv, job
  <1>6. /\ fetches' = RemoveAt(fetches, i)
        /\ UNCHANGED <<rows, shares, paid, replies, inProgress, timer, crashes, dbErrors,
                       fetchErrors, asked, passes, overlapped>>
    BY DEF OnBalance, Answered, tables, bounds
  <1>7. BalanceStep(i, m)
    BY <1>1, <1>4, <1>5, <1>6 DEF BalanceStep, job
  <1>8. QED
    BY <1>7


(* What a transaction does: h is the request it runs, a its answer. *)
DbFrame(a) ==
  /\ requests # <<>> /\ requests' = Tail(requests) /\ replies' = Append(replies, a)
  /\ UNCHANGED <<fetches, inProgress, timer, crashes, fetchErrors, asked, passes, refused>>

NewRow(job) == [entry |-> job.entry, amount |-> job.amount, done |-> FALSE]

SaveRowStep(h, a) ==
  /\ DbFrame(a) /\ h.op = "save_row" /\ a = Reply("save_row", h.job, TRUE)
  /\ rows' = Append(OtherRows(h.job.entry), NewRow(h.job))
  /\ UNCHANGED <<shares, paid, dbErrors, overlapped>>
SaveListStep(h, a) ==
  /\ DbFrame(a) /\ h.op = "save_publishers" /\ a = Reply("save_publishers", h.job, TRUE)
  /\ shares' = shares \cup {h.job.entry}
  /\ UNCHANGED <<rows, paid, dbErrors, overlapped>>
FindNoneStep(h, a) ==
  /\ DbFrame(a) /\ h.op = "first" /\ a = NoRow
  /\ UNCHANGED <<rows, shares, paid, dbErrors, overlapped>>
FindStep(h, a, k) ==
  /\ DbFrame(a) /\ h.op = "first" /\ k \in DOMAIN rows /\ ~rows[k].done
  /\ a = Reply("first", NewJob(rows[k].entry, rows[k].amount, "Contribution"), TRUE)
  /\ overlapped' = (overlapped \/ Processing)
  /\ UNCHANGED <<rows, shares, paid, dbErrors>>
ReadListStep(h, a) ==
  /\ DbFrame(a) /\ h.op = "publishers"
  /\ a = Reply("publishers", h.job, h.job.entry \in shares)
  /\ UNCHANGED <<rows, shares, paid, dbErrors, overlapped>>
ContributeStep(h, a) ==
  /\ DbFrame(a) /\ h.op = "save_contribution" /\ a = Reply("save_contribution", h.job, TRUE)
  /\ paid' = [paid EXCEPT ![h.job.entry] = @ + (h.job.amount - Left(h.job))]
  /\ UNCHANGED <<rows, shares, dbErrors, overlapped>>
MarkStep(h, a) ==
  /\ DbFrame(a) /\ h.op = "mark" /\ a = Reply("mark", h.job, TRUE)
  /\ rows' = [i \in DOMAIN rows |->
               IF rows[i].entry = h.job.entry THEN [rows[i] EXCEPT !.done = TRUE] ELSE rows[i]]
  /\ UNCHANGED <<shares, paid, dbErrors, overlapped>>
FailStep(h, a) ==
  /\ DbFrame(a) /\ a = Reply(h.op, h.job, FALSE)
  /\ dbErrors < MaxDbErrors /\ dbErrors' = dbErrors + 1
  /\ UNCHANGED <<rows, shares, paid, overlapped>>

DbStep(h, a) ==
  \/ SaveRowStep(h, a) \/ SaveListStep(h, a) \/ FindNoneStep(h, a)
  \/ \E k \in DOMAIN rows : FindStep(h, a, k)
  \/ ReadListStep(h, a) \/ ContributeStep(h, a) \/ MarkStep(h, a) \/ FailStep(h, a)

LEMMA OldestIs ==
  ASSUME ShapeInv, Open # {}
  PROVE  \E k \in DOMAIN rows : Oldest = rows[k] /\ ~rows[k].done
  <1>1. Open \subseteq DOMAIN rows /\ DOMAIN rows = 1..Len(rows) /\ Len(rows) \in Nat
    BY DEF Open, ShapeInv
  <1>2. PICK n \in Open : TRUE
    OBVIOUS
  <1> DEFINE least == CHOOSE i \in Open : \A j \in Open : i <= j
  <1>3. \E i \in Open : \A j \in Open : i <= j
    <2>1. PICK i \in Open : \A j \in Open : ~(<<j, i>> \in {x \in Nat \X Nat : x[1] < x[2]})
      <3>1. Open \in SUBSET Nat /\ Open # {}
        BY <1>1
      <3>2. IsWellFoundedOn({x \in Nat \X Nat : x[1] < x[2]}, Nat)
        BY NatLessThanWellFounded, Zenon DEF OpToRel
      <3>3. QED
        BY <3>1, <3>2, WFMin
    <2>2. ASSUME NEW j \in Open
          PROVE  i <= j
      <3>1. i \in Nat /\ j \in Nat
        BY <1>1
      <3>2. j < i => <<j, i>> \in {x \in Nat \X Nat : x[1] < x[2]}
        BY <3>1
      <3>3. QED
        BY <2>1, <3>1, <3>2
    <2>3. QED
      BY <2>2
  <1>4. least \in Open
    BY <1>3
  <1>5. QED
    BY <1>1, <1>4 DEF Oldest, Open

LEMMA DbForms ==
  ASSUME ShapeInv, RunDBTransaction
  PROVE  \E a \in Replies(asked) : DbStep(Head(requests), a)
  <1> DEFINE h == Head(requests)
  <1>1. /\ requests # <<>> /\ requests' = Tail(requests) /\ h \in Requests(asked)
        /\ UNCHANGED <<fetches, inProgress, timer, crashes, fetchErrors, asked, passes, refused>>
    BY HeadsAre DEF RunDBTransaction
  <1>2. /\ h.op \in Operations /\ h = Request(h.op, h.job)
        /\ h.op = "first" <=> h = NoRequest
        /\ h.op # "first" => h.job \in Job /\ JobOk(h.op, h.job, asked)
    BY <1>1, RequestsAre
  <1>3. \/ /\ RunTransaction(h) /\ dbErrors' = dbErrors
           /\ overlapped' = (overlapped \/ (h.op = "first" /\ Open # {} /\ Processing))
        \/ FailTransaction(h) /\ overlapped' = overlapped
    BY DEF RunDBTransaction
  <1>4. overlapped \in BOOLEAN
    BY DEF ShapeInv
  <1> HIDE DEF h
  <1> SUFFICES \E a \in Replies(asked) : DbStep(h, a)
    BY DEF h
  <1>5. \A op \in Operations : op = h.op /\ op # "first" =>
          \A ok \in BOOLEAN : Reply(op, h.job, ok) \in Replies(asked)
    BY <1>2, ReplyIn
  <1>6. h.op # "first" => overlapped' = overlapped
    BY <1>3, <1>4
  <1>7. CASE FailTransaction(h) /\ overlapped' = overlapped
    <2> DEFINE a == Reply(h.op, h.job, FALSE)
    <2>1. a \in Replies(asked)
      <3>1. CASE h.op # "first"
        BY <1>2, <1>5, <3>1
      <3>2. CASE h.op = "first"
        <4>1. h.job = NoJob
          BY <1>2, <3>2 DEF NoRequest, Request
        <4>2. a = NoRow
          BY <3>2, <4>1 DEF NoRow
        <4>3. QED
          BY <4>2, NothingIn
      <3>3. QED
        BY <3>1, <3>2
    <2>2. FailStep(h, a)
      BY <1>1, <1>7 DEF FailTransaction, FailStep, DbFrame, tables
    <2> HIDE DEF a
    <2>3. QED
      BY <2>1, <2>2 DEF DbStep
  <1>8. CASE /\ RunTransaction(h) /\ dbErrors' = dbErrors
             /\ overlapped' = (overlapped \/ (h.op = "first" /\ Open # {} /\ Processing))
    <2>1. CASE h.op = "save_row" /\ InsertOrUpdate(h.job)
      <3> DEFINE a == Reply("save_row", h.job, TRUE)
      <3>1. a \in Replies(asked)
        BY <1>5, <2>1 DEF Operations
      <3>2. SaveRowStep(h, a)
        BY <1>1, <1>6, <1>8, <2>1 DEF InsertOrUpdate, SaveRowStep, DbFrame, NewRow
      <3> HIDE DEF a
      <3>3. QED
        BY <3>1, <3>2 DEF DbStep
    <2>2. CASE h.op = "save_publishers" /\ InsertPublishers(h.job)
      <3> DEFINE a == Reply("save_publishers", h.job, TRUE)
      <3>1. a \in Replies(asked)
        BY <1>5, <2>2 DEF Operations
      <3>2. SaveListStep(h, a)
        BY <1>1, <1>6, <1>8, <2>2 DEF InsertPublishers, SaveListStep, DbFrame
      <3> HIDE DEF a
      <3>3. QED
        BY <3>1, <3>2 DEF DbStep
    <2>3. CASE h.op = "first" /\ GetFirstRecord /\ Open = {}
      <3>1. FindNoneStep(h, NoRow)
        BY <1>1, <1>4, <1>8, <2>3 DEF GetFirstRecord, FindNoneStep, DbFrame, NoRow, tables
      <3>2. QED
        BY <3>1, NothingIn DEF DbStep
    <2>4. CASE h.op = "first" /\ GetFirstRecord /\ Open # {}
      <3>1. PICK k \in DOMAIN rows : Oldest = rows[k] /\ ~rows[k].done
        BY <2>4, OldestIs
      <3> DEFINE job == NewJob(rows[k].entry, rows[k].amount, "Contribution")
                 a == Reply("first", job, TRUE)
      <3>2. rows[k] \in Rows(asked)
        BY ElementOfSeq DEF ShapeInv
      <3>3. job \in Job /\ JobOk("first", job, asked)
        BY <3>2 DEF NewJob, Job, JobOk, Resaved, Rows, Callers
      <3>4. a \in Replies(asked)
        BY <3>3, ReplyIn DEF Operations
      <3>5. overlapped' = (overlapped \/ Processing)
        BY <1>8, <2>4
      <3>6. FindStep(h, a, k)
        BY <1>1, <1>8, <2>4, <3>1, <3>5 DEF GetFirstRecord, FindStep, DbFrame, tables
      <3> HIDE DEF a
      <3>7. QED
        BY <3>4, <3>6 DEF DbStep
    <2>5. CASE h.op = "publishers" /\ GetRecordsByQueueId(h.job)
      <3> DEFINE a == Reply("publishers", h.job, h.job.entry \in shares)
      <3>1. a \in Replies(asked)
        <4>1. "publishers" \in Operations
          BY DEF Operations
        <4>2. (h.job.entry \in shares) \in BOOLEAN
          OBVIOUS
        <4>3. QED
          BY <1>5, <2>5, <4>1, <4>2
      <3>2. ReadListStep(h, a)
        BY <1>1, <1>6, <1>8, <2>5 DEF GetRecordsByQueueId, ReadListStep, DbFrame, tables
      <3> HIDE DEF a
      <3>3. QED
        BY <3>1, <3>2 DEF DbStep
    <2>6. CASE h.op = "save_contribution" /\ SaveContributionInfo(h.job)
      <3> DEFINE a == Reply("save_contribution", h.job, TRUE)
      <3>1. a \in Replies(asked)
        BY <1>5, <2>6 DEF Operations
      <3>2. ContributeStep(h, a)
        BY <1>1, <1>6, <1>8, <2>6 DEF SaveContributionInfo, ContributeStep, DbFrame
      <3> HIDE DEF a
      <3>3. QED
        BY <3>1, <3>2 DEF DbStep
    <2>7. CASE h.op = "mark" /\ MarkRecordAsComplete(h.job)
      <3> DEFINE a == Reply("mark", h.job, TRUE)
      <3>1. a \in Replies(asked)
        BY <1>5, <2>7 DEF Operations
      <3>2. MarkStep(h, a)
        BY <1>1, <1>6, <1>8, <2>7 DEF MarkRecordAsComplete, MarkStep, DbFrame
      <3> HIDE DEF a
      <3>3. QED
        BY <3>1, <3>2 DEF DbStep
    <2>8. QED
      BY <1>8, <2>1, <2>2, <2>3, <2>4, <2>5, <2>6, <2>7 DEF RunTransaction
  <1>9. QED
    BY <1>3, <1>7, <1>8


(* The makers: the entries E, of which nothing was known, are posted. *)
MakeStep(E) ==
  /\ E \subseteq Entries /\ \A e \in E : asked[e] = 0
  /\ asked' \in [Entries -> Amounts \cup {0}]
  /\ \A e \in Entries \ E : asked'[e] = asked[e]
  /\ requests' \in Seq(Requests(asked'))
  /\ DOMAIN requests \subseteq DOMAIN requests'
  /\ \A i \in DOMAIN requests : requests'[i] = requests[i]
  /\ \A i \in DOMAIN requests' : i \notin DOMAIN requests =>
       /\ requests'[i].op = "save_row" /\ requests'[i].job.caller # "Contribution"
       /\ requests'[i].job.entry \in E
       /\ requests'[i].job.amount = asked'[requests'[i].job.entry]
  /\ \A i, j \in DOMAIN requests' :
       i \notin DOMAIN requests /\ j \notin DOMAIN requests
         /\ requests'[i].job.entry = requests'[j].job.entry => i = j
  /\ timer' \in BOOLEAN
  /\ UNCHANGED <<rows, shares, paid, replies, fetches, inProgress, crashes, dbErrors,
                 fetchErrors, passes, refused, overlapped>>

PokeStep ==
  /\ requests' = requests \/ requests' = Append(requests, NoRequest)
  /\ timer' \in BOOLEAN
  /\ UNCHANGED <<rows, shares, paid, replies, fetches, inProgress, crashes, dbErrors,
                 fetchErrors, asked, passes, refused, overlapped>>

FetchFailsStep(i) ==
  /\ i \in DOMAIN fetches /\ fetches' = RemoveAt(fetches, i)
  /\ fetchErrors < MaxFetchErrors /\ fetchErrors' = fetchErrors + 1 /\ inProgress' = FALSE
  /\ UNCHANGED <<rows, shares, paid, requests, replies, timer, crashes, dbErrors, asked,
                 passes, refused, overlapped>>

(* A request made under fewer entries stays well formed. *)
LEMMA MadeMore ==
  ASSUME NEW made \in [Entries -> Nat], NEW more \in [Entries -> Nat],
         \A e \in Entries : made[e] = 0 \/ more[e] = made[e]
  PROVE  /\ Requests(made) \subseteq Requests(more)
         /\ Replies(made) \subseteq Replies(more)
         /\ Waiting(made) \subseteq Waiting(more)
         /\ Rows(made) \subseteq Rows(more)
  <1>1. ASSUME NEW op, NEW job \in Job, JobOk(op, job, made)
        PROVE  JobOk(op, job, more)
    <2>1. job.entry \in Entries /\ job.amount \in Nat
      BY JobParts
    <2>2. 0 < job.amount /\ job.amount <= made[job.entry]
      BY <1>1 DEF JobOk
    <2>3. job.amount <= more[job.entry]
      BY <2>1, <2>2
    <2>4. QED
      BY <1>1, <2>3 DEF JobOk
  <1>2. ASSUME NEW m \in Requests(made)
        PROVE  m \in Requests(more)
    <2>1. m \in AllRequests /\ (m.op # "first" => m.job \in Job /\ JobOk(m.op, m.job, made))
      BY RequestsAre
    <2>2. m.op # "first" => JobOk(m.op, m.job, more)
      BY <1>1, <2>1
    <2>3. QED
      BY <2>1, <2>2 DEF Requests
  <1>3. ASSUME NEW m \in Replies(made)
        PROVE  m \in Replies(more)
    <2>1. /\ m \in AllReplies /\ m.ok \in BOOLEAN
          /\ m.op # "first" \/ m.ok => m.job \in Job /\ JobOk(m.op, m.job, made)
      BY RepliesAre
    <2>2. m.op # "first" \/ m.ok => JobOk(m.op, m.job, more)
      BY <1>1, <2>1
    <2>3. QED
      BY <2>1, <2>2 DEF Replies
  <1>4. ASSUME NEW j \in Waiting(made)
        PROVE  j \in Waiting(more)
    BY <1>1, WaitingAre DEF Waiting
  <1>5. ASSUME NEW r \in Rows(made)
        PROVE  r \in Rows(more)
    <2>1. /\ r \in [entry : Entries, amount : Nat, done : BOOLEAN]
          /\ r.entry \in Entries /\ r.amount \in Nat /\ 0 < r.amount /\ r.amount <= made[r.entry]
      BY DEF Rows
    <2>2. r.amount <= more[r.entry]
      BY <2>1
    <2>3. QED
      BY <2>1, <2>2 DEF Rows
  <1>6. QED
    BY <1>2, <1>3, <1>4, <1>5

LEMMA NewJobIn ==
  ASSUME NEW made, NEW e \in Entries, NEW a \in Nat, 0 < a, a <= made[e],
         NEW caller \in Callers, caller # "Contribution"
  PROVE  LET m == Request("save_row", NewJob(e, a, caller))
         IN /\ m \in Requests(made) /\ m.op = "save_row" /\ m.job.caller # "Contribution"
            /\ m.job.entry = e /\ m.job.amount = a
  <1> DEFINE job == NewJob(e, a, caller)
  <1>1. job \in Job /\ job.entry = e /\ job.amount = a /\ job.caller = caller
    BY DEF NewJob, Job
  <1> HIDE DEF job
  <1>2. JobOk("save_row", job, made)
    BY <1>1 DEF JobOk, Resaved
  <1>3. QED
    BY <1>1, <1>2, RequestIn DEF Operations, job


LEMMA MakeOne ==
  ASSUME ShapeInv, NEW e \in Entries, asked[e] = 0, NEW a \in Amounts,
         NEW caller \in Callers, caller # "Contribution",
         asked' = [asked EXCEPT ![e] = a], Post("save_row", NewJob(e, a, caller)),
         UNCHANGED <<rows, shares, paid, replies, fetches, inProgress, timer, crashes, dbErrors,
                     fetchErrors, passes, refused, overlapped>>
  PROVE  MakeStep({e})
  <1> DEFINE m == Request("save_row", NewJob(e, a, caller))
  <1>1. a \in Nat /\ 0 < a
    <2>1. \A x \in Amounts : x \in Nat /\ x # 0
      BY AmountsAssumption, Zenon
    <2>2. QED
      BY <2>1
  <1>2. asked \in [Entries -> Amounts \cup {0}] /\ requests \in Seq(Requests(asked)) /\ timer \in BOOLEAN
    BY DEF ShapeInv
  <1>3. asked \in [Entries -> Nat]
    <2>1. asked = [x \in Entries |-> asked[x]] /\ \A x \in Entries : asked[x] \in Nat
      BY <1>2, MadeType
    <2>2. QED
      BY <2>1
  <1>4. /\ asked' \in [Entries -> Nat] /\ asked' \in [Entries -> Amounts \cup {0}] /\ asked'[e] = a
        /\ \A x \in Entries \ {e} : asked'[x] = asked[x]
        /\ \A x \in Entries : asked[x] = 0 \/ asked'[x] = asked[x]
    BY <1>1, <1>2, <1>3
  <1>5. m \in Requests(asked') /\ m.op = "save_row" /\ m.job.caller # "Contribution"
        /\ m.job.entry = e /\ m.job.amount = a
    <2>1. a \in Nat /\ 0 < a /\ a <= asked'[e]
      BY <1>1, <1>4
    <2>2. /\ Request("save_row", NewJob(e, a, caller)) \in Requests(asked')
          /\ Request("save_row", NewJob(e, a, caller)).op = "save_row"
          /\ Request("save_row", NewJob(e, a, caller)).job.caller # "Contribution"
          /\ Request("save_row", NewJob(e, a, caller)).job.entry = e
          /\ Request("save_row", NewJob(e, a, caller)).job.amount = a
      <3> DEFINE made == asked'
      <3> HIDE DEF made
      <3>1. a \in Nat /\ 0 < a /\ a <= made[e]
        BY <2>1 DEF made
      <3>2. /\ Request("save_row", NewJob(e, a, caller)) \in Requests(made)
            /\ Request("save_row", NewJob(e, a, caller)).op = "save_row"
            /\ Request("save_row", NewJob(e, a, caller)).job.caller # "Contribution"
            /\ Request("save_row", NewJob(e, a, caller)).job.entry = e
            /\ Request("save_row", NewJob(e, a, caller)).job.amount = a
        BY <3>1, NewJobIn
      <3>3. QED
        BY <3>2 DEF made
    <2>3. QED
      BY <2>2
  <1>6. requests' = Append(requests, m)
    BY DEF Post
  <1>7. requests \in Seq(Requests(asked'))
    BY <1>2, <1>3, <1>4, MadeMore, SeqMonotonic
  <1> HIDE DEF m
  <1>8. /\ requests' \in Seq(Requests(asked')) /\ DOMAIN requests = 1..Len(requests)
        /\ Len(requests) \in Nat /\ DOMAIN requests' = 1..Len(requests) + 1
        /\ \A i \in DOMAIN requests : i \in DOMAIN requests' /\ requests'[i] = requests[i]
        /\ requests'[Len(requests) + 1] = m
        /\ \A i \in DOMAIN requests' : i \in DOMAIN requests \/ i = Len(requests) + 1
    BY <1>5, <1>6, <1>7, AppendedAt
  <1>9. \A i \in DOMAIN requests' : i \notin DOMAIN requests => i = Len(requests) + 1 /\ requests'[i] = m
    BY <1>8
  <1>10. QED
    BY <1>2, <1>4, <1>5, <1>8, <1>9 DEF MakeStep

LEMMA MakeList ==
  ASSUME ShapeInv, PrepareTipList
  PROVE  MakeStep(RecurringTips)
  <1>1. /\ \A e \in RecurringTips : asked[e] = 0
        /\ UNCHANGED <<rows, shares, paid, replies, fetches, inProgress, crashes, dbErrors,
                       fetchErrors, passes, refused, overlapped>>
        /\ timer' \in BOOLEAN
    BY DEF PrepareTipList, tables, bounds
  <1>2. PICK list \in [1..Cardinality(RecurringTips) -> RecurringTips],
             weight \in [RecurringTips -> Amounts] :
           /\ \A i, j \in DOMAIN list : i # j => list[i] # list[j]
           /\ asked' = [e \in Entries |-> IF e \in RecurringTips THEN weight[e] ELSE asked[e]]
           /\ requests' = requests \o
                [i \in DOMAIN list |->
                   Request("save_row", NewJob(list[i], weight[list[i]], "ContributionMonthly"))]
    BY DEF PrepareTipList
  <1> DEFINE n == Cardinality(RecurringTips)
             added == [i \in DOMAIN list |->
                        Request("save_row", NewJob(list[i], weight[list[i]], "ContributionMonthly"))]
  <1>3. n \in Nat
    BY EntriesAssumption, FS_CardinalityType
  <1> HIDE DEF n
  <1>4. list \in [1..n -> RecurringTips] /\ DOMAIN list = 1..n
    BY <1>2 DEF n
  <1>5. asked \in [Entries -> Amounts \cup {0}] /\ requests \in Seq(Requests(asked))
    BY DEF ShapeInv
  <1>6. asked \in [Entries -> Nat]
    <2>1. asked = [x \in Entries |-> asked[x]] /\ \A x \in Entries : asked[x] \in Nat
      BY <1>5, MadeType
    <2>2. QED
      BY <2>1
  <1>7. \A x \in Amounts : x \in Nat /\ 0 < x
    <2>1. \A x \in Amounts : x \in Nat /\ x # 0
      BY AmountsAssumption, Zenon
    <2>2. QED
      BY <2>1
  <1>8. RecurringTips \subseteq Entries
    BY DEF Entries
  <1>9. /\ asked' \in [Entries -> Nat] /\ asked' \in [Entries -> Amounts \cup {0}]
        /\ \A x \in RecurringTips : asked'[x] = weight[x] /\ weight[x] \in Amounts
        /\ \A x \in Entries \ RecurringTips : asked'[x] = asked[x]
        /\ \A x \in Entries : asked[x] = 0 \/ asked'[x] = asked[x]
    <2>1. \A x \in RecurringTips : asked'[x] = weight[x] /\ weight[x] \in Amounts
      BY <1>2, <1>8
    <2>2. \A x \in Entries \ RecurringTips : asked'[x] = asked[x]
      BY <1>2
    <2>3. asked' = [x \in Entries |-> asked'[x]]
      BY <1>2
    <2>4. \A x \in Entries : asked'[x] \in Nat /\ asked'[x] \in Amounts \cup {0}
      BY <1>5, <1>6, <1>7, <2>1, <2>2
    <2>5. asked' \in [Entries -> Nat] /\ asked' \in [Entries -> Amounts \cup {0}]
      BY <2>3, <2>4
    <2>6. QED
      BY <1>1, <2>1, <2>2, <2>5
  <1>10. ASSUME NEW i \in 1..n
         PROVE  /\ added[i] \in Requests(asked') /\ added[i].op = "save_row"
                /\ added[i].job.caller # "Contribution"
                /\ added[i].job.entry = list[i] /\ added[i].job.amount = asked'[list[i]]
    <2>1. list[i] \in RecurringTips
      BY <1>4
    <2>2. /\ list[i] \in Entries /\ asked'[list[i]] = weight[list[i]]
          /\ weight[list[i]] \in Nat /\ 0 < weight[list[i]] /\ weight[list[i]] <= asked'[list[i]]
      BY <1>7, <1>8, <1>9, <2>1
    <2>3. added[i] = Request("save_row", NewJob(list[i], weight[list[i]], "ContributionMonthly"))
      BY <1>4
    <2> HIDE DEF added
    <2>4. "ContributionMonthly" \in Callers /\ "ContributionMonthly" # "Contribution"
      BY DEF Callers
    <2>5. QED
      BY <2>2, <2>3, <2>4, NewJobIn
  <1>11. added \in [1..n -> Requests(asked')]
    <2>1. added = [i \in 1..n |-> added[i]]
      BY <1>4
    <2> HIDE DEF added
    <2>2. QED
      BY <1>10, <2>1
  <1>12. requests' = requests \o added
    BY <1>2
  <1> HIDE DEF added
  <1>13. added \in Seq(Requests(asked')) /\ Len(added) = n
    <2>1. added \in Seq(Requests(asked'))
      BY <1>3, <1>11, SeqDef
    <2>2. DOMAIN added = 1..n /\ DOMAIN added = 1..Len(added) /\ Len(added) \in Nat
      BY <1>11, <2>1, LenProperties
    <2>3. QED
      BY <1>3, <2>1, <2>2
  <1>14. requests \in Seq(Requests(asked'))
    BY <1>5, <1>6, <1>9, MadeMore, SeqMonotonic
  <1>15. /\ requests' \in Seq(Requests(asked'))
         /\ Len(requests') = Len(requests) + n /\ Len(requests) \in Nat
         /\ \A i \in 1..Len(requests) + n :
              requests'[i] = IF i <= Len(requests) THEN requests[i] ELSE added[i - Len(requests)]
    <2>1. /\ requests \o added \in Seq(Requests(asked'))
          /\ Len(requests \o added) = Len(requests) + Len(added)
          /\ \A i \in 1..Len(requests) + Len(added) :
               (requests \o added)[i] = IF i <= Len(requests) THEN requests[i]
                                        ELSE added[i - Len(requests)]
      BY <1>13, <1>14, ConcatProperties
    <2>2. Len(requests) \in Nat
      BY <1>14
    <2>3. QED
      BY <1>12, <1>13, <2>1, <2>2, Zenon
  <1>16. DOMAIN requests = 1..Len(requests) /\ DOMAIN requests' = 1..Len(requests) + n
    BY <1>14, <1>15
  <1>17. /\ DOMAIN requests \subseteq DOMAIN requests'
         /\ \A i \in DOMAIN requests : requests'[i] = requests[i]
         /\ \A i \in DOMAIN requests' : i \notin DOMAIN requests =>
              i - Len(requests) \in 1..n /\ requests'[i] = added[i - Len(requests)]
    BY <1>3, <1>15, <1>16
  <1>18. \A i \in DOMAIN requests' : i \notin DOMAIN requests =>
           /\ requests'[i].op = "save_row" /\ requests'[i].job.caller # "Contribution"
           /\ requests'[i].job.entry \in RecurringTips
           /\ requests'[i].job.amount = asked'[requests'[i].job.entry]
    <2>1. \A i \in 1..n : list[i] \in RecurringTips
      BY <1>4
    <2>2. QED
      BY <1>10, <1>17, <2>1
  <1>19. \A i, j \in DOMAIN requests' :
           i \notin DOMAIN requests /\ j \notin DOMAIN requests
             /\ requests'[i].job.entry = requests'[j].job.entry => i = j
    <2> SUFFICES ASSUME NEW i \in DOMAIN requests', NEW j \in DOMAIN requests',
                        i \notin DOMAIN requests, j \notin DOMAIN requests,
                        requests'[i].job.entry = requests'[j].job.entry
                 PROVE  i = j
      OBVIOUS
    <2>1. /\ i - Len(requests) \in 1..n /\ requests'[i] = added[i - Len(requests)]
          /\ j - Len(requests) \in 1..n /\ requests'[j] = added[j - Len(requests)]
      BY <1>17
    <2>2. list[i - Len(requests)] = list[j - Len(requests)]
      BY <1>10, <2>1
    <2>3. i - Len(requests) = j - Len(requests)
      BY <1>2, <1>4, <2>1, <2>2
    <2>4. i \in Nat /\ j \in Nat /\ Len(requests) \in Nat
      BY <1>3, <1>15, <1>16
    <2>5. QED
      BY <2>3, <2>4
  <1>20. QED
    BY <1>1, <1>8, <1>9, <1>15, <1>17, <1>18, <1>19 DEF MakeStep


(* The rows after one is saved, again or for the first time. *)
LEMMA RowReplaced ==
  ASSUME ShapeInv, NEW r \in Rows(asked), rows' = Append(OtherRows(r.entry), r)
  PROVE  /\ rows' \in Seq(Rows(asked))
         /\ \A i, j \in DOMAIN rows' : rows'[i].entry = rows'[j].entry => i = j
         /\ \A i \in DOMAIN rows' :
              \/ rows'[i] = r
              \/ \E j \in DOMAIN rows : rows'[i] = rows[j] /\ rows[j].entry # r.entry
         /\ \A j \in DOMAIN rows : rows[j].entry # r.entry => \E i \in DOMAIN rows' : rows'[i] = rows[j]
         /\ \E i \in DOMAIN rows' : rows'[i] = r
  <1> DEFINE e == r.entry
             others == OtherRows(e)
  <1>1. /\ rows \in Seq(Rows(asked)) /\ DOMAIN rows = 1..Len(rows) /\ Len(rows) \in Nat
        /\ \A i, j \in DOMAIN rows : rows[i].entry = rows[j].entry => i = j
    BY DEF ShapeInv
  <1>2. /\ others \in Seq(Rows(asked))
        /\ \A i \in DOMAIN others : \E j \in DOMAIN rows : others[i] = rows[j] /\ rows[j].entry # e
        /\ \A i, j \in DOMAIN others : others[i].entry = others[j].entry => i = j
        /\ \A j \in DOMAIN rows : rows[j].entry # e => \E i \in DOMAIN others : others[i] = rows[j]
    <2>1. CASE \E i \in DOMAIN rows : rows[i].entry = e
      <3> DEFINE k == CHOOSE i \in DOMAIN rows : rows[i].entry = e
      <3>1. k \in DOMAIN rows /\ rows[k].entry = e
        BY <2>1
      <3>2. others = RemoveAt(rows, k)
        BY <2>1 DEF OtherRows
      <3> HIDE DEF k, others
      <3>3. /\ others \in Seq(Rows(asked)) /\ DOMAIN others = 1..Len(rows) - 1
            /\ \A i \in DOMAIN others : i < k => others[i] = rows[i]
            /\ \A i \in DOMAIN others : i >= k => others[i] = rows[i + 1]
        <4>1. /\ RemoveAt(rows, k) \in Seq(Rows(asked)) /\ DOMAIN RemoveAt(rows, k) = 1..Len(rows) - 1
              /\ \A i \in DOMAIN RemoveAt(rows, k) : i < k => RemoveAt(rows, k)[i] = rows[i]
              /\ \A i \in DOMAIN RemoveAt(rows, k) : i >= k => RemoveAt(rows, k)[i] = rows[i + 1]
          <5> DEFINE T == Rows(asked)
          <5>1. rows \in Seq(T)
            BY <1>1
          <5> HIDE DEF T
          <5>2. /\ RemoveAt(rows, k) \in Seq(T) /\ DOMAIN RemoveAt(rows, k) = 1..Len(rows) - 1
                /\ \A i \in DOMAIN RemoveAt(rows, k) : i < k => RemoveAt(rows, k)[i] = rows[i]
                /\ \A i \in DOMAIN RemoveAt(rows, k) : i >= k => RemoveAt(rows, k)[i] = rows[i + 1]
            BY <3>1, <5>1, RemovedAt
          <5>3. QED
            BY <5>2 DEF T
        <4>2. QED
          BY <3>2, <4>1, Zenon
      <3> DEFINE At(i) == IF i < k THEN i ELSE i + 1
      <3>4. \A i \in DOMAIN others : At(i) \in DOMAIN rows /\ At(i) # k /\ others[i] = rows[At(i)]
        BY <1>1, <3>1, <3>3
      <3>5. \A i, j \in DOMAIN others : At(i) = At(j) => i = j
        BY <3>1, <3>3, <1>1
      <3>6. \A j \in DOMAIN rows : j # k => \E i \in DOMAIN others : At(i) = j
        <4> SUFFICES ASSUME NEW j \in DOMAIN rows, j # k
                     PROVE  \E i \in DOMAIN others : At(i) = j
          OBVIOUS
        <4>1. CASE j < k
          <5>1. j \in DOMAIN others /\ At(j) = j
            BY <1>1, <3>1, <3>3, <4>1
          <5>2. QED
            BY <5>1
        <4>2. CASE j > k
          <5>1. j - 1 \in DOMAIN others /\ At(j - 1) = j
            BY <1>1, <3>1, <3>3, <4>2
          <5>2. QED
            BY <5>1
        <4>3. QED
          BY <1>1, <3>1, <4>1, <4>2
      <3> HIDE DEF At
      <3>7. QED
        BY <1>1, <3>1, <3>3, <3>4, <3>5, <3>6
    <2>2. CASE ~\E i \in DOMAIN rows : rows[i].entry = e
      <3>1. others = rows
        BY <2>2 DEF OtherRows
      <3> HIDE DEF others
      <3>2. QED
        BY <1>1, <2>2, <3>1
    <2>3. QED
      BY <2>1, <2>2
  <1>3. rows' = Append(others, r)
    OBVIOUS
  <1> HIDE DEF others
  <1>4. /\ rows' \in Seq(Rows(asked)) /\ DOMAIN others = 1..Len(others) /\ Len(others) \in Nat
        /\ DOMAIN rows' = 1..Len(others) + 1
        /\ \A i \in DOMAIN others : i \in DOMAIN rows' /\ rows'[i] = others[i]
        /\ rows'[Len(others) + 1] = r
        /\ \A i \in DOMAIN rows' : i \in DOMAIN others \/ i = Len(others) + 1
    BY <1>2, <1>3, AppendedAt
  <1>5. \A i \in DOMAIN rows' : \/ rows'[i] = r /\ i = Len(others) + 1
                                \/ i \in DOMAIN others /\ rows'[i] = others[i]
    BY <1>4, Zenon
  <1>6. \A i \in DOMAIN others : others[i].entry # r.entry
    BY <1>2
  <1>7. \E i \in DOMAIN rows' : rows'[i] = r
    BY <1>4
  <1>8. QED
    BY <1>2, <1>4, <1>5, <1>6, <1>7

LEMMA RowsMarked ==
  ASSUME ShapeInv, NEW e,
         rows' = [i \in DOMAIN rows |->
                   IF rows[i].entry = e THEN [rows[i] EXCEPT !.done = TRUE] ELSE rows[i]]
  PROVE  /\ rows' \in Seq(Rows(asked)) /\ DOMAIN rows' = DOMAIN rows
         /\ \A i \in DOMAIN rows : rows'[i].entry = rows[i].entry /\ rows'[i].amount = rows[i].amount
         /\ \A i \in DOMAIN rows : rows[i].entry = e => rows'[i].done
         /\ \A i \in DOMAIN rows : rows[i].entry # e => rows'[i].done = rows[i].done
         /\ \A i \in DOMAIN rows : rows[i].done => rows'[i].done
  <1>1. rows \in Seq(Rows(asked)) /\ DOMAIN rows = 1..Len(rows) /\ Len(rows) \in Nat
    BY DEF ShapeInv
  <1>2. ASSUME NEW i \in DOMAIN rows
        PROVE  /\ rows'[i] \in Rows(asked)
               /\ rows'[i].entry = rows[i].entry /\ rows'[i].amount = rows[i].amount
               /\ rows[i].entry = e => rows'[i].done
               /\ rows[i].entry # e => rows'[i].done = rows[i].done
               /\ rows[i].done => rows'[i].done
    <2>1. rows[i] \in Rows(asked)
      BY <1>1, ElementOfSeq
    <2>2. rows'[i] = IF rows[i].entry = e THEN [rows[i] EXCEPT !.done = TRUE] ELSE rows[i]
      OBVIOUS
    <2>3. CASE rows[i].entry = e
      BY <2>1, <2>2, <2>3 DEF Rows
    <2>4. CASE rows[i].entry # e
      BY <2>1, <2>2, <2>4
    <2>5. QED
      BY <2>3, <2>4
  <1>3. rows' \in [1..Len(rows) -> Rows(asked)]
    <2>1. rows' = [i \in 1..Len(rows) |-> rows'[i]]
      BY <1>1
    <2>2. QED
      BY <1>1, <1>2, <2>1
  <1>4. rows' \in Seq(Rows(asked)) /\ DOMAIN rows' = DOMAIN rows
    BY <1>1, <1>3, SeqDef
  <1>5. QED
    BY <1>2, <1>4


QueueStep ==
  \/ \E E \in SUBSET Entries : MakeStep(E)
  \/ \E a \in Replies(asked) : DbStep(Head(requests), a)
  \/ \E m \in Requests(asked) : SendStep(m)
  \/ EndStep
  \/ FetchStep
  \/ \E i \in DOMAIN fetches, m \in Requests(asked) : BalanceStep(i, m)
  \/ \E i \in DOMAIN fetches : FetchFailsStep(i)
  \/ PokeStep
  \/ Restart
  \/ UNCHANGED vars

LEMMA NextForms ==
  ASSUME ShapeInv, [Next]_vars
  PROVE  QueueStep
  <1>1. ASSUME NEW e \in Entries, SaveTip(e)
        PROVE  QueueStep
    <2>1. PICK a \in Amounts : /\ asked' = [asked EXCEPT ![e] = a]
                               /\ Post("save_row", NewJob(e, a, "ContributionTip"))
      BY <1>1 DEF SaveTip, SaveContributionQueue
    <2>2. /\ asked[e] = 0
          /\ UNCHANGED <<rows, shares, paid, replies, fetches, inProgress, timer, crashes, dbErrors,
                         fetchErrors, passes, refused, overlapped>>
      BY <1>1 DEF SaveTip, tables, bounds
    <2>3. "ContributionTip" \in Callers /\ "ContributionTip" # "Contribution"
      BY DEF Callers
    <2>4. MakeStep({e})
      BY <2>1, <2>2, <2>3, MakeOne
    <2>5. QED
      BY <2>4 DEF QueueStep
  <1>2. ASSUME NEW e \in Entries, SaveAutoContribution(e)
        PROVE  QueueStep
    <2>1. PICK a \in Amounts : /\ asked' = [asked EXCEPT ![e] = a]
                               /\ Post("save_row", NewJob(e, a, "ContributionAC"))
      BY <1>2 DEF SaveAutoContribution, SaveContributionQueue
    <2>2. /\ asked[e] = 0
          /\ UNCHANGED <<rows, shares, paid, replies, fetches, inProgress, timer, crashes, dbErrors,
                         fetchErrors, passes, refused, overlapped>>
      BY <1>2 DEF SaveAutoContribution, tables, bounds
    <2>3. "ContributionAC" \in Callers /\ "ContributionAC" # "Contribution"
      BY DEF Callers
    <2>4. MakeStep({e})
      BY <2>1, <2>2, <2>3, MakeOne
    <2>5. QED
      BY <2>4 DEF QueueStep
  <1>3. CASE PrepareTipList
    <2>1. MakeStep(RecurringTips) /\ RecurringTips \in SUBSET Entries
      BY <1>3, MakeList DEF Entries
    <2>2. QED
      BY <2>1 DEF QueueStep
  <1>4. CASE RunDBTransaction
    BY <1>4, DbForms DEF QueueStep
  <1>5. CASE OnRunDBTransaction
    BY <1>5, HandlerForms DEF QueueStep
  <1>6. ASSUME NEW i \in DOMAIN fetches, OnBalance(i)
        PROVE  QueueStep
    <2>1. PICK m \in Requests(asked) : BalanceStep(i, m)
      BY <1>6, BalanceForms
    <2>2. QED
      BY <2>1 DEF QueueStep
  <1>7. ASSUME NEW i \in DOMAIN fetches, OnBalanceError(i)
        PROVE  QueueStep
    <2>1. FetchFailsStep(i)
      BY <1>7 DEF OnBalanceError, FetchFailsStep, Answered, tables, history
    <2>2. QED
      BY <2>1 DEF QueueStep
  <1>8. CASE QueueTimerFires
    <2>1. /\ timer' = FALSE
          /\ UNCHANGED <<rows, shares, paid, replies, fetches, inProgress, crashes, dbErrors,
                         fetchErrors, asked, passes, refused, overlapped>>
      BY <1>8 DEF QueueTimerFires, tables, bounds, history
    <2>2. requests' = requests \/ requests' = Append(requests, NoRequest)
      BY <1>8 DEF QueueTimerFires, ProcessContributionQueue, Post, NoRequest
    <2>3. PokeStep
      BY <2>1, <2>2 DEF PokeStep
    <2>4. QED
      BY <2>3 DEF QueueStep
  <1>9. CASE Restart
    BY <1>9 DEF QueueStep
  <1>10. CASE UNCHANGED vars
    BY <1>10 DEF QueueStep
  <1>11. QED
    BY <1>1, <1>2, <1>3, <1>4, <1>5, <1>6, <1>7, <1>8, <1>9, <1>10 DEF Next

LEMMA MovedOn ==
  ASSUME ShapeInv
  PROVE  /\ requests # <<>> => Tail(requests) \in Seq(Requests(asked))
         /\ replies # <<>> => Tail(replies) \in Seq(Replies(asked))
         /\ \A m \in Requests(asked) : Append(requests, m) \in Seq(Requests(asked))
         /\ \A m \in Replies(asked) : Append(replies, m) \in Seq(Replies(asked))
         /\ \A m \in Waiting(asked) : Append(fetches, m) \in Seq(Waiting(asked))
         /\ \A i \in DOMAIN fetches : RemoveAt(fetches, i) \in Seq(Waiting(asked))
  <1>1. /\ requests \in Seq(Requests(asked)) /\ replies \in Seq(Replies(asked))
        /\ fetches \in Seq(Waiting(asked))
    BY DEF ShapeInv
  <1>2. \A i \in DOMAIN fetches : RemoveAt(fetches, i) \in Seq(Waiting(asked))
    BY <1>1, RemovedAt
  <1>3. QED
    BY <1>1, <1>2, HeadTailProperties, AppendedAt

(* Shape of what a transaction leaves. *)
LEMMA DbShape ==
  ASSUME ShapeInv, NEW a \in Replies(asked), DbStep(Head(requests), a)
  PROVE  ShapeInv'
  <1> DEFINE h == Head(requests)
  <1>1. h \in Requests(asked) /\ DbFrame(a)
    BY HeadsAre DEF DbStep, SaveRowStep, SaveListStep, FindNoneStep, FindStep, ReadListStep,
                    ContributeStep, MarkStep, FailStep, DbFrame
  <1>2. h.op # "first" => h.job \in Job /\ JobOk(h.op, h.job, asked) /\ h.job.entry \in Entries
    BY <1>1, RequestsAre, JobParts
  <1>3. /\ requests' \in Seq(Requests(asked)) /\ replies' \in Seq(Replies(asked))
        /\ UNCHANGED <<fetches, inProgress, timer, crashes, fetchErrors, asked, passes, refused>>
    BY <1>1, MovedOn DEF DbFrame
  <1> HIDE DEF h
  <1>4. DbStep(h, a)
    BY DEF h
  <1>5. /\ rows' \in Seq(Rows(asked))
        /\ \A i, j \in DOMAIN rows' : rows'[i].entry = rows'[j].entry => i = j
    <2>1. CASE SaveRowStep(h, a)
      <3> DEFINE r == NewRow(h.job)
      <3>1. r \in Rows(asked) /\ r.entry = h.job.entry
        BY <1>2, <2>1, JobParts DEF SaveRowStep, JobOk, Rows, NewRow
      <3>2. rows' = Append(OtherRows(h.job.entry), r)
        BY <2>1 DEF SaveRowStep
      <3> HIDE DEF r
      <3>3. rows' = Append(OtherRows(r.entry), r)
        BY <3>1, <3>2
      <3>4. QED
        BY <3>1, <3>3, RowReplaced
    <2>2. CASE MarkStep(h, a)
      <3>1. /\ rows' \in Seq(Rows(asked)) /\ DOMAIN rows' = DOMAIN rows
            /\ \A i \in DOMAIN rows : rows'[i].entry = rows[i].entry
        BY <2>2, RowsMarked DEF MarkStep
      <3>2. QED
        BY <3>1 DEF ShapeInv
    <2>3. CASE UNCHANGED rows
      BY <2>3 DEF ShapeInv
    <2>4. QED
      BY <1>4, <2>1, <2>2, <2>3 DEF DbStep, SaveListStep, FindNoneStep, FindStep, ReadListStep,
                                    ContributeStep, FailStep
  <1>6. paid' \in [Entries -> Nat]
    <2>1. CASE ContributeStep(h, a)
      <3>1. h.job \in Job /\ h.job.wallet \in Wallets
        BY <1>2, <2>1 DEF ContributeStep, JobOk
      <3> DEFINE e == h.job.entry
                 d == h.job.amount - Left(h.job)
      <3>2. d \in Nat /\ e \in Entries
        BY <3>1, LeftIs, JobParts
      <3>3. paid' = [paid EXCEPT ![e] = @ + d] /\ paid \in [Entries -> Nat]
        BY <2>1 DEF ContributeStep, ShapeInv
      <3> HIDE DEF e, d
      <3>4. QED
        BY <3>2, <3>3
    <2>2. CASE UNCHANGED paid
      BY <2>2 DEF ShapeInv
    <2>3. QED
      BY <1>4, <2>1, <2>2 DEF DbStep, SaveRowStep, SaveListStep, FindNoneStep, FindStep,
                              ReadListStep, MarkStep, FailStep
  <1>7. shares' \subseteq Entries
    BY <1>2, <1>4 DEF DbStep, SaveRowStep, SaveListStep, FindNoneStep, FindStep, ReadListStep,
                      ContributeStep, MarkStep, FailStep, ShapeInv
  <1>8. dbErrors' \in 0..MaxDbErrors
    <2>1. CASE FailStep(h, a)
      BY <2>1, BoundsAssumption DEF FailStep, ShapeInv
    <2>2. CASE UNCHANGED dbErrors
      BY <2>2 DEF ShapeInv
    <2>3. QED
      BY <1>4, <2>1, <2>2 DEF DbStep, SaveRowStep, SaveListStep, FindNoneStep, FindStep,
                              ReadListStep, ContributeStep, MarkStep
  <1>9. overlapped' \in BOOLEAN
    <2>1. CASE UNCHANGED overlapped
      BY <2>1 DEF ShapeInv
    <2>2. CASE \E k \in DOMAIN rows : FindStep(h, a, k)
      BY <2>2 DEF FindStep
    <2>3. QED
      BY <1>4, <2>1, <2>2 DEF DbStep, SaveRowStep, SaveListStep, FindNoneStep, ReadListStep,
                              ContributeStep, MarkStep, FailStep
  <1>10. QED
    BY <1>3, <1>5, <1>6, <1>7, <1>8, <1>9 DEF ShapeInv


LEMMA ShapeKept ==
  ASSUME ShapeInv, QueueStep
  PROVE  ShapeInv'
  <1>1. /\ requests \in Seq(Requests(asked)) /\ replies \in Seq(Replies(asked))
        /\ fetches \in Seq(Waiting(asked)) /\ rows \in Seq(Rows(asked))
        /\ asked \in [Entries -> Amounts \cup {0}]
    BY DEF ShapeInv
  <1>2. ASSUME NEW E \in SUBSET Entries, MakeStep(E)
        PROVE  ShapeInv'
    <2>1. /\ asked' \in [Entries -> Amounts \cup {0}]
          /\ \A e \in Entries : asked[e] = 0 \/ asked'[e] = asked[e]
          /\ UNCHANGED <<rows, shares, paid, replies, fetches, inProgress, crashes, dbErrors,
                         fetchErrors, passes, refused, overlapped>>
          /\ requests' \in Seq(Requests(asked')) /\ timer' \in BOOLEAN
      BY <1>2 DEF MakeStep
    <2>2. \A x \in Amounts \cup {0} : x \in Nat
      <3>1. \A x \in Amounts : x \in Nat
        BY AmountsAssumption, Zenon
      <3>2. QED
        BY <3>1
    <2>3. asked \in [Entries -> Nat] /\ asked' \in [Entries -> Nat]
      BY <1>1, <2>1, <2>2
    <2>4. /\ Replies(asked) \subseteq Replies(asked') /\ Waiting(asked) \subseteq Waiting(asked')
          /\ Rows(asked) \subseteq Rows(asked')
      BY <2>1, <2>3, MadeMore
    <2>5. /\ replies \in Seq(Replies(asked')) /\ fetches \in Seq(Waiting(asked'))
          /\ rows \in Seq(Rows(asked'))
      BY <1>1, <2>4, SeqMonotonic
    <2>6. QED
      BY <2>1, <2>5 DEF ShapeInv
  <1>3. ASSUME NEW m \in Requests(asked), SendStep(m)
        PROVE  ShapeInv'
    <2>1. /\ replies' = Tail(replies) /\ requests' = Append(requests, m) /\ replies # <<>>
          /\ timer' \in BOOLEAN
          /\ UNCHANGED <<rows, shares, paid, crashes, dbErrors, fetchErrors, asked, refused,
                         overlapped, fetches, inProgress, passes>>
      BY <1>3 DEF SendStep, HandlerFrame
    <2>2. QED
      BY <2>1, MovedOn DEF ShapeInv
  <1>4. CASE EndStep
    <2>1. /\ replies' = Tail(replies) /\ replies # <<>> /\ timer' \in BOOLEAN
          /\ UNCHANGED <<rows, shares, paid, crashes, dbErrors, fetchErrors, asked, refused,
                         overlapped, requests, fetches, passes>>
          /\ inProgress' = FALSE \/ inProgress' = inProgress
      BY <1>4 DEF EndStep, HandlerFrame
    <2>2. QED
      BY <2>1, MovedOn DEF ShapeInv
  <1>5. CASE FetchStep
    <2> DEFINE h == Head(replies)
               j == [h.job EXCEPT !.listed = h.ok]
    <2>1. /\ replies' = Tail(replies) /\ replies # <<>> /\ timer' \in BOOLEAN
          /\ h.op = "publishers" /\ fetches' = Append(fetches, j) /\ inProgress' = TRUE
          /\ passes' = [passes EXCEPT ![h.job.entry] = @ + 1]
          /\ UNCHANGED <<rows, shares, paid, crashes, dbErrors, fetchErrors, asked, refused,
                         overlapped, requests>>
      BY <1>5 DEF FetchStep, HandlerFrame
    <2>2. h.job \in Job /\ JobOk("publishers", h.job, asked) /\ h.ok \in BOOLEAN
      BY <2>1, HeadsAre, RepliesAre
    <2>3. j \in Waiting(asked)
      BY <2>2 DEF Waiting, Job, JobOk, Resaved
    <2>4. passes' \in [Entries -> Nat]
      BY <2>1, <2>2, JobParts DEF ShapeInv
    <2> HIDE DEF j, h
    <2>5. QED
      BY <2>1, <2>3, <2>4, MovedOn DEF ShapeInv
  <1>6. ASSUME NEW i \in DOMAIN fetches, NEW m \in Requests(asked), BalanceStep(i, m)
        PROVE  ShapeInv'
    <2>1. /\ fetches' = RemoveAt(fetches, i) /\ requests' = Append(requests, m)
          /\ refused' \subseteq Entries
          /\ UNCHANGED <<rows, shares, paid, replies, inProgress, timer, crashes, dbErrors,
                         fetchErrors, asked, passes, overlapped>>
      BY <1>6 DEF BalanceStep
    <2>2. QED
      BY <2>1, MovedOn DEF ShapeInv
  <1>7. ASSUME NEW i \in DOMAIN fetches, FetchFailsStep(i)
        PROVE  ShapeInv'
    <2>1. /\ fetches' = RemoveAt(fetches, i)
          /\ fetchErrors < MaxFetchErrors /\ fetchErrors' = fetchErrors + 1 /\ inProgress' = FALSE
          /\ UNCHANGED <<rows, shares, paid, requests, replies, timer, crashes, dbErrors, asked,
                         passes, refused, overlapped>>
      BY <1>7 DEF FetchFailsStep
    <2>2. fetchErrors' \in 0..MaxFetchErrors
      BY <2>1, BoundsAssumption DEF ShapeInv
    <2>3. QED
      BY <2>1, <2>2, MovedOn DEF ShapeInv
  <1>8. CASE PokeStep
    <2>1. requests' \in Seq(Requests(asked))
      BY <1>1, <1>8, MovedOn, NothingIn DEF PokeStep
    <2>2. QED
      BY <1>8, <2>1 DEF PokeStep, ShapeInv
  <1>9. CASE Restart
    <2>1. <<>> \in Seq(Requests(asked)) /\ <<>> \in Seq(Replies(asked)) /\ <<>> \in Seq(Waiting(asked))
      BY EmptySeq
    <2>2. crashes' \in 0..MaxCrashes
      BY <1>9, BoundsAssumption DEF Restart, ShapeInv
    <2>3. QED
      BY <1>9, <2>1, <2>2 DEF Restart, ShapeInv, tables, history
  <1>10. CASE UNCHANGED vars
    BY <1>10 DEF vars, tables, bounds, history, ShapeInv
  <1>11. QED
    BY <1>2, <1>3, <1>4, <1>5, <1>6, <1>7, <1>8, <1>9, <1>10, DbShape DEF QueueStep

LEMMA ShapeInit ==
  ASSUME Init
  PROVE  ShapeInv
  <1>1. /\ <<>> \in Seq(Rows(asked)) /\ <<>> \in Seq(Requests(asked))
        /\ <<>> \in Seq(Replies(asked)) /\ <<>> \in Seq(Waiting(asked)) /\ DOMAIN <<>> = {}
    BY EmptySeq
  <1>2. /\ rows = <<>> /\ requests = <<>> /\ replies = <<>> /\ fetches = <<>>
        /\ shares = {} /\ refused = {} /\ inProgress = FALSE /\ timer = TRUE /\ overlapped = FALSE
        /\ crashes = 0 /\ dbErrors = 0 /\ fetchErrors = 0
    BY DEF Init
  <1>3. /\ asked \in [Entries -> Amounts \cup {0}] /\ paid \in [Entries -> Nat]
        /\ passes \in [Entries -> Nat]
    BY DEF Init
  <1>4. \A i, j \in DOMAIN rows : rows[i].entry = rows[j].entry => i = j
    BY <1>1, <1>2
  <1>5. crashes \in 0..MaxCrashes /\ dbErrors \in 0..MaxDbErrors /\ fetchErrors \in 0..MaxFetchErrors
    BY <1>2, BoundsAssumption
  <1>6. /\ rows \in Seq(Rows(asked)) /\ requests \in Seq(Requests(asked))
        /\ replies \in Seq(Replies(asked)) /\ fetches \in Seq(Waiting(asked))
    BY <1>1, <1>2
  <1>7. QED
    BY <1>2, <1>3, <1>4, <1>5, <1>6 DEF ShapeInv

LEMMA ShapeTypes ==
  ASSUME ShapeInv
  PROVE  TypeOK
  <1>1. Requests(asked) \subseteq [op : Operations, job : Job \cup {NoJob}]
    <2>1. NoRequest \in [op : Operations, job : Job \cup {NoJob}]
      BY DEF NoRequest, Request, Operations
    <2>2. QED
      BY <2>1 DEF Requests, AllRequests
  <1>2. Replies(asked) \subseteq [op : Operations, job : Job \cup {NoJob}, ok : BOOLEAN]
    <2>1. NoRow \in [op : Operations, job : Job \cup {NoJob}, ok : BOOLEAN]
      BY DEF NoRow, Reply, Operations
    <2>2. QED
      BY <2>1 DEF Replies, AllReplies
  <1>3. Waiting(asked) \subseteq Job
    BY DEF Waiting
  <1>4. Rows(asked) \subseteq [entry : Entries, amount : Nat, done : BOOLEAN]
    BY DEF Rows
  <1>5. /\ rows \in Seq([entry : Entries, amount : Nat, done : BOOLEAN])
        /\ requests \in Seq([op : Operations, job : Job \cup {NoJob}])
        /\ replies \in Seq([op : Operations, job : Job \cup {NoJob}, ok : BOOLEAN])
        /\ fetches \in Seq(Job)
    BY <1>1, <1>2, <1>3, <1>4, SeqMonotonic DEF ShapeInv
  <1>6. QED
    BY <1>5 DEF ShapeInv, TypeOK


-----------------------------------------------------------------------------
(* The worth of the messages: what a step takes out of one channel it puts *)
(* into the next.                                                          *)

LEMMA RequestWorth ==
  ASSUME NEW made \in [Entries -> Nat], NEW m \in Requests(made), NEW e \in Entries
  PROVE  /\ m \in AllRequests
         /\ RequestOwes(e)[m] \in Nat /\ RequestOwes(e)[m] <= made[e]
         /\ RequestOwes(e)[m] = IF m.op # "first" /\ Commits(m.op, m.job, e) THEN m.job.amount ELSE 0
         /\ RequestFlows[m] = IF InFlow(m) THEN 1 ELSE 0
         /\ RequestFlows[m] \in Nat /\ RequestFlows[m] <= 1
  <1>1. m \in AllRequests /\ (m.op # "first" => m.job \in Job /\ JobOk(m.op, m.job, made))
    BY RequestsAre
  <1>2. m.op # "first" => m.job.amount \in Nat /\ m.job.amount <= made[m.job.entry]
    BY <1>1, JobParts DEF JobOk
  <1>3. RequestOwes(e)[m] = IF m.op # "first" /\ Commits(m.op, m.job, e) THEN m.job.amount ELSE 0
    BY <1>1 DEF RequestOwes
  <1>4. Commits(m.op, m.job, e) => m.job.entry = e
    BY DEF Commits
  <1>5. RequestOwes(e)[m] \in Nat /\ RequestOwes(e)[m] <= made[e]
    <2>1. CASE m.op # "first" /\ Commits(m.op, m.job, e)
      BY <1>2, <1>3, <1>4, <2>1
    <2>2. CASE ~(m.op # "first" /\ Commits(m.op, m.job, e))
      <3>1. RequestOwes(e)[m] = 0 /\ made[e] \in Nat
        BY <1>3, <2>2
      <3>2. QED
        BY <3>1
    <2>3. QED
      BY <2>1, <2>2
  <1>6. RequestFlows[m] = IF InFlow(m) THEN 1 ELSE 0
    BY <1>1 DEF RequestFlows
  <1>7. QED
    BY <1>1, <1>3, <1>5, <1>6

LEMMA ReplyWorth ==
  ASSUME NEW made \in [Entries -> Nat], NEW m \in Replies(made), NEW e \in Entries
  PROVE  /\ m \in AllReplies
         /\ ReplyOwes(e)[m] \in Nat /\ ReplyOwes(e)[m] <= made[e]
         /\ ReplyOwes(e)[m] = IF m.op # "first" /\ m.ok /\ Commits(m.op, m.job, e)
                              THEN IF m.op = "save_contribution" THEN Left(m.job) ELSE m.job.amount
                              ELSE 0
         /\ ReplyFlows[m] = IF InFlowReply(m) THEN 1 ELSE 0
         /\ ReplyFlows[m] \in Nat /\ ReplyFlows[m] <= 1
  <1>1. /\ m \in AllReplies /\ m.ok \in BOOLEAN
        /\ m.op # "first" => m.job \in Job /\ JobOk(m.op, m.job, made)
    BY RepliesAre
  <1>2. m.op # "first" => m.job.amount \in Nat /\ m.job.amount <= made[m.job.entry]
    BY <1>1, JobParts DEF JobOk
  <1>3. ReplyOwes(e)[m] = IF m.op # "first" /\ m.ok /\ Commits(m.op, m.job, e)
                          THEN IF m.op = "save_contribution" THEN Left(m.job) ELSE m.job.amount
                          ELSE 0
    BY <1>1 DEF ReplyOwes
  <1>4. Commits(m.op, m.job, e) => m.job.entry = e
    BY DEF Commits
  <1>5. m.op = "save_contribution" => Left(m.job) \in Nat /\ Left(m.job) <= m.job.amount
    BY <1>1, LeftIs DEF JobOk
  <1>6. made[e] \in Nat
    OBVIOUS
  <1>7. ReplyOwes(e)[m] \in Nat /\ ReplyOwes(e)[m] <= made[e]
    <2>1. CASE m.op # "first" /\ m.ok /\ Commits(m.op, m.job, e)
      <3>1. m.job.amount \in Nat /\ m.job.amount <= made[e]
        BY <1>2, <1>4, <2>1
      <3>2. CASE m.op = "save_contribution"
        <4>1. ReplyOwes(e)[m] = Left(m.job)
          BY <1>3, <2>1, <3>2
        <4>2. QED
          BY <1>5, <1>6, <3>1, <3>2, <4>1
      <3>3. CASE m.op # "save_contribution"
        <4>1. ReplyOwes(e)[m] = m.job.amount
          BY <1>3, <2>1, <3>3
        <4>2. QED
          BY <3>1, <4>1
      <3>4. QED
        BY <3>2, <3>3
    <2>2. CASE ~(m.op # "first" /\ m.ok /\ Commits(m.op, m.job, e))
      <3>1. ReplyOwes(e)[m] = 0
        BY <1>3, <2>2
      <3>2. QED
        BY <1>6, <3>1
    <2>3. QED
      BY <2>1, <2>2
  <1>8. ReplyFlows[m] = IF InFlowReply(m) THEN 1 ELSE 0
    BY <1>1 DEF ReplyFlows
  <1>9. QED
    BY <1>1, <1>3, <1>7, <1>8

LEMMA FetchWorth ==
  ASSUME NEW made \in [Entries -> Nat], NEW j \in Waiting(made), NEW e \in Entries
  PROVE  /\ j \in Job
         /\ FetchOwes(e)[j] \in Nat /\ FetchOwes(e)[j] <= made[e]
         /\ FetchOwes(e)[j] = IF j.entry = e THEN j.amount ELSE 0
  <1>1. j \in Job /\ j.amount \in Nat /\ j.amount <= made[j.entry]
    BY WaitingAre
  <1>2. FetchOwes(e)[j] = IF j.entry = e THEN j.amount ELSE 0
    BY <1>1 DEF FetchOwes
  <1>3. QED
    BY <1>1, <1>2

LEMMA WeightTypes ==
  ASSUME NEW e \in Entries
  PROVE  /\ RequestOwes(e) \in [AllRequests -> Nat] /\ ReplyOwes(e) \in [AllReplies -> Nat]
         /\ FetchOwes(e) \in [Job -> Nat]
         /\ RequestFlows \in [AllRequests -> Nat] /\ ReplyFlows \in [AllReplies -> Nat]
  <1>1. ASSUME NEW m \in AllRequests, m.op # "first"
        PROVE  m.job \in Job /\ m.job.amount \in Nat
    <2>1. m.job \in Job
      BY <1>1, NothingIn DEF AllRequests
    <2>2. QED
      BY <2>1, JobParts
  <1>2. ASSUME NEW m \in AllReplies, m.op # "first"
        PROVE  m.job \in Job /\ m.job.amount \in Nat
    <2>1. m.job \in Job
      BY <1>2, NothingIn DEF AllReplies
    <2>2. QED
      BY <2>1, JobParts
  <1>3. ASSUME NEW op, NEW job \in Job, Commits(op, job, e)
        PROVE  Left(job) \in Nat
    <2>1. job.wallet \in Wallets
      BY <1>3 DEF Commits, Job
    <2>2. QED
      BY <2>1, LeftIs
  <1>4. RequestOwes(e) \in [AllRequests -> Nat]
    <2>1. ASSUME NEW m \in AllRequests
          PROVE  (IF m.op # "first" /\ Commits(m.op, m.job, e) THEN m.job.amount ELSE 0) \in Nat
      BY <1>1
    <2>2. QED
      BY <2>1 DEF RequestOwes
  <1>5. ReplyOwes(e) \in [AllReplies -> Nat]
    <2>1. ASSUME NEW m \in AllReplies
          PROVE  (IF m.op # "first" /\ m.ok /\ Commits(m.op, m.job, e)
                  THEN IF m.op = "save_contribution" THEN Left(m.job) ELSE m.job.amount
                  ELSE 0) \in Nat
      BY <1>2, <1>3
    <2>2. QED
      BY <2>1 DEF ReplyOwes
  <1>6. FetchOwes(e) \in [Job -> Nat]
    <2>1. \A j \in Job : (IF j.entry = e THEN j.amount ELSE 0) \in Nat
      BY JobParts
    <2>2. QED
      BY <2>1 DEF FetchOwes
  <1>7. RequestFlows \in [AllRequests -> Nat]
    BY DEF RequestFlows
  <1>8. ReplyFlows \in [AllReplies -> Nat]
    BY DEF ReplyFlows
  <1>9. QED
    BY <1>4, <1>5, <1>6, <1>7, <1>8



-----------------------------------------------------------------------------
(* What each step does to the sums.                                        *)

LEMMA ChannelTypes ==
  ASSUME ShapeInv
  PROVE  /\ requests \in Seq(AllRequests) /\ replies \in Seq(AllReplies) /\ fetches \in Seq(Job)
         /\ asked \in [Entries -> Nat]
  <1>1. /\ Requests(asked) \subseteq AllRequests /\ Replies(asked) \subseteq AllReplies
        /\ Waiting(asked) \subseteq Job
    BY DEF Requests, Replies, Waiting
  <1>2. requests \in Seq(AllRequests) /\ replies \in Seq(AllReplies) /\ fetches \in Seq(Job)
    BY <1>1, SeqMonotonic DEF ShapeInv
  <1>3. \A e \in Entries : asked[e] \in Nat
    BY MadeType
  <1>4. asked \in [Entries -> Nat]
    BY <1>3 DEF ShapeInv
  <1>5. QED
    BY <1>2, <1>4

LEMMA SumsTypes ==
  ASSUME ShapeInv, NEW e \in Entries
  PROVE  /\ Owed(requests, replies, e, asked[e]) \in Nat
         /\ Awaited(fetches, e, asked[e]) \in Nat
         /\ Flows(requests, replies, fetches) \in Nat
         /\ Committed(e) \in Nat
         /\ Committed(e) = paid[e] + Owed(requests, replies, e, asked[e])
  <1>1. /\ requests \in Seq(AllRequests) /\ replies \in Seq(AllReplies) /\ fetches \in Seq(Job)
        /\ asked[e] \in Nat /\ paid[e] \in Nat /\ 1 \in Nat
    BY ChannelTypes, MadeType
  <1>2. Owed(requests, replies, e, asked[e]) \in Nat
    BY <1>1, BothType DEF Owed
  <1>3. Awaited(fetches, e, asked[e]) \in Nat
    BY <1>1, SumType DEF Awaited
  <1>4. Both(requests, replies, RequestFlows, ReplyFlows, 1) \in Nat /\ Len(fetches) \in Nat
    BY <1>1, BothType, LenProperties
  <1>5. QED
    BY <1>1, <1>2, <1>3, <1>4 DEF Flows, Committed

(* The first of one channel goes, a message comes into the other. *)
LEMMA BothAnswered ==
  ASSUME NEW q \in Seq(AllRequests), NEW r \in Seq(AllReplies), NEW b \in Nat,
         NEW V \in [AllRequests -> Nat], NEW W \in [AllReplies -> Nat],
         q # <<>>, NEW a \in AllReplies, V[Head(q)] <= b, W[a] <= b
  PROVE  Both(Tail(q), Append(r, a), V, W, b) + V[Head(q)] = Both(q, r, V, W, b) + W[a]
  <1>1. Head(q) \in AllRequests
    BY TailRemovesFirst
  <1>2. SumOf(q, V, b) = SumOf(Tail(q), V, b) + V[Head(q)]
    BY SumHeadGone
  <1>3. SumOf(Append(r, a), W, b) = SumOf(r, W, b) + W[a]
    BY SumAppended
  <1>4. Tail(q) \in Seq(AllRequests)
    BY HeadTailProperties
  <1>5. SumOf(Tail(q), V, b) \in Nat /\ SumOf(r, W, b) \in Nat /\ V[Head(q)] \in Nat /\ W[a] \in Nat
    BY <1>1, <1>4, SumType
  <1>6. QED
    BY <1>2, <1>3, <1>5 DEF Both

LEMMA BothSent ==
  ASSUME NEW q \in Seq(AllRequests), NEW r \in Seq(AllReplies), NEW b \in Nat,
         NEW V \in [AllRequests -> Nat], NEW W \in [AllReplies -> Nat],
         r # <<>>, NEW m \in AllRequests, W[Head(r)] <= b, V[m] <= b
  PROVE  Both(Append(q, m), Tail(r), V, W, b) + W[Head(r)] = Both(q, r, V, W, b) + V[m]
  <1>1. Head(r) \in AllReplies
    BY TailRemovesFirst
  <1>2. SumOf(r, W, b) = SumOf(Tail(r), W, b) + W[Head(r)]
    BY SumHeadGone
  <1>3. SumOf(Append(q, m), V, b) = SumOf(q, V, b) + V[m]
    BY SumAppended
  <1>4. Tail(r) \in Seq(AllReplies)
    BY HeadTailProperties
  <1>5. SumOf(Tail(r), W, b) \in Nat /\ SumOf(q, V, b) \in Nat /\ W[Head(r)] \in Nat /\ V[m] \in Nat
    BY <1>1, <1>4, SumType
  <1>6. QED
    BY <1>2, <1>3, <1>5 DEF Both

LEMMA BothEnded ==
  ASSUME NEW q \in Seq(AllRequests), NEW r \in Seq(AllReplies), NEW b \in Nat,
         NEW V \in [AllRequests -> Nat], NEW W \in [AllReplies -> Nat],
         r # <<>>, W[Head(r)] <= b
  PROVE  Both(q, Tail(r), V, W, b) + W[Head(r)] = Both(q, r, V, W, b)
  <1>1. Head(r) \in AllReplies
    BY TailRemovesFirst
  <1>2. SumOf(r, W, b) = SumOf(Tail(r), W, b) + W[Head(r)]
    BY SumHeadGone
  <1>3. Tail(r) \in Seq(AllReplies)
    BY HeadTailProperties
  <1>4. SumOf(Tail(r), W, b) \in Nat /\ SumOf(q, V, b) \in Nat /\ W[Head(r)] \in Nat
    BY <1>1, <1>3, SumType
  <1>5. QED
    BY <1>2, <1>4 DEF Both

LEMMA BothPosted ==
  ASSUME NEW q \in Seq(AllRequests), NEW r \in Seq(AllReplies), NEW b \in Nat,
         NEW V \in [AllRequests -> Nat], NEW W \in [AllReplies -> Nat],
         NEW m \in AllRequests, V[m] <= b
  PROVE  Both(Append(q, m), r, V, W, b) = Both(q, r, V, W, b) + V[m]
  <1>1. SumOf(Append(q, m), V, b) = SumOf(q, V, b) + V[m]
    BY SumAppended
  <1>2. SumOf(q, V, b) \in Nat /\ SumOf(r, W, b) \in Nat /\ V[m] \in Nat
    BY SumType
  <1>3. QED
    BY <1>1, <1>2 DEF Both


(* A transaction turns what its request owes into what is paid and what is *)
(* still owed; only a failure forgets some of it.                          *)
LEMMA DbWorth ==
  ASSUME ShapeInv, NEW a \in Replies(asked), requests # <<>>,
         NEW h, h = Head(requests), DbStep(h, a), NEW e \in Entries
  PROVE  /\ paid'[e] \in Nat /\ paid[e] <= paid'[e]
         /\ paid'[e] + ReplyOwes(e)[a] <= paid[e] + RequestOwes(e)[h]
         /\ dbErrors' = dbErrors => paid'[e] + ReplyOwes(e)[a] = paid[e] + RequestOwes(e)[h]
         /\ \/ ReplyFlows[a] = RequestFlows[h]
            \/ ReplyFlows[a] = 1 /\ RequestFlows[h] = 0 /\ \E k \in DOMAIN rows : FindStep(h, a, k)
  <1>1. h \in Requests(asked) /\ asked \in [Entries -> Nat] /\ dbErrors \in Nat /\ paid \in [Entries -> Nat]
    BY HeadsAre, ChannelTypes, BoundsAssumption DEF ShapeInv
  <1>2. /\ RequestOwes(e)[h] \in Nat
        /\ RequestOwes(e)[h] = IF h.op # "first" /\ Commits(h.op, h.job, e) THEN h.job.amount ELSE 0
        /\ RequestFlows[h] = IF InFlow(h) THEN 1 ELSE 0
    BY <1>1, RequestWorth
  <1>3. /\ ReplyOwes(e)[a] \in Nat
        /\ ReplyOwes(e)[a] = IF a.op # "first" /\ a.ok /\ Commits(a.op, a.job, e)
                             THEN IF a.op = "save_contribution" THEN Left(a.job) ELSE a.job.amount
                             ELSE 0
        /\ ReplyFlows[a] = IF InFlowReply(a) THEN 1 ELSE 0
    BY <1>1, ReplyWorth
  <1>4. paid[e] \in Nat
    BY MadeType
  <1> DEFINE Goal ==
         /\ paid'[e] \in Nat /\ paid[e] <= paid'[e]
         /\ paid'[e] + ReplyOwes(e)[a] <= paid[e] + RequestOwes(e)[h]
         /\ dbErrors' = dbErrors => paid'[e] + ReplyOwes(e)[a] = paid[e] + RequestOwes(e)[h]
         /\ \/ ReplyFlows[a] = RequestFlows[h]
            \/ ReplyFlows[a] = 1 /\ RequestFlows[h] = 0 /\ \E k \in DOMAIN rows : FindStep(h, a, k)
  <1> SUFFICES Goal
    OBVIOUS
  <1>5. ASSUME paid' = paid, ReplyOwes(e)[a] = RequestOwes(e)[h], ReplyFlows[a] = RequestFlows[h]
        PROVE  Goal
    BY <1>2, <1>4, <1>5
  <1>6. CASE SaveRowStep(h, a)
    <2>1. a.op = h.op /\ h.op = "save_row" /\ a.job = h.job /\ a.ok /\ paid' = paid
      BY <1>6 DEF SaveRowStep, Reply
    <2>2. QED
      BY <1>2, <1>3, <1>5, <2>1 DEF InFlowReply, InFlow
  <1>7. CASE SaveListStep(h, a)
    <2>1. a.op = h.op /\ h.op = "save_publishers" /\ a.job = h.job /\ a.ok /\ paid' = paid
      BY <1>7 DEF SaveListStep, Reply
    <2>2. QED
      BY <1>2, <1>3, <1>5, <2>1 DEF InFlowReply, InFlow
  <1>8. CASE FindNoneStep(h, a)
    <2>1. a.op = "first" /\ h.op = "first" /\ ~a.ok /\ paid' = paid
      BY <1>8, NothingIn DEF FindNoneStep
    <2>2. QED
      BY <1>2, <1>3, <1>5, <2>1 DEF InFlowReply, InFlow
  <1>9. ASSUME NEW k \in DOMAIN rows, FindStep(h, a, k)
        PROVE  Goal
    <2>1. a.op = "first" /\ h.op = "first" /\ a.ok /\ paid' = paid
      BY <1>9 DEF FindStep, Reply
    <2>2. ReplyOwes(e)[a] = 0 /\ RequestOwes(e)[h] = 0
      BY <1>2, <1>3, <2>1
    <2>3. ReplyFlows[a] = 1 /\ RequestFlows[h] = 0
      BY <1>2, <1>3, <2>1 DEF InFlowReply, InFlow
    <2>4. QED
      BY <1>4, <1>9, <2>1, <2>2, <2>3
  <1>10. CASE ReadListStep(h, a)
    <2>1. a.op = h.op /\ h.op = "publishers" /\ a.job = h.job /\ paid' = paid
      BY <1>10 DEF ReadListStep, Reply
    <2>2. ReplyOwes(e)[a] = 0 /\ RequestOwes(e)[h] = 0
      BY <1>2, <1>3, <2>1 DEF Commits, Resaved
    <2>3. ReplyFlows[a] = 1 /\ RequestFlows[h] = 1
      BY <1>2, <1>3, <2>1 DEF InFlowReply, InFlow
    <2>4. QED
      BY <1>5, <2>1, <2>2, <2>3
  <1>11. CASE ContributeStep(h, a)
    <2>1. /\ a.op = h.op /\ h.op = "save_contribution" /\ a.job = h.job /\ a.ok = TRUE
          /\ paid' = [paid EXCEPT ![h.job.entry] = @ + (h.job.amount - Left(h.job))]
      BY <1>11 DEF ContributeStep, Reply
    <2>2. h.job \in Job /\ h.job.wallet \in Wallets /\ h.job.amount \in Nat /\ h.job.entry \in Entries
      BY <1>1, <2>1, RequestsAre, JobParts DEF JobOk
    <2>3. Left(h.job) \in Nat /\ Left(h.job) <= h.job.amount
      BY <2>2, LeftIs
    <2>4. h.job.wallet # NoWallet
      BY <2>2 DEF Wallets, NoWallet
    <2>5. ReplyFlows[a] = RequestFlows[h]
      BY <1>2, <1>3, <2>1 DEF InFlowReply, InFlow
    <2>6. CASE h.job.entry = e
      <3>1. RequestOwes(e)[h] = h.job.amount /\ ReplyOwes(e)[a] = Left(h.job)
        BY <1>2, <1>3, <2>1, <2>4, <2>6 DEF Commits
      <3>2. paid'[e] = paid[e] + (h.job.amount - Left(h.job))
        BY <1>1, <2>1, <2>6
      <3>3. QED
        BY <1>4, <2>2, <2>3, <2>5, <3>1, <3>2
    <2>7. CASE h.job.entry # e
      <3>1. RequestOwes(e)[h] = 0 /\ ReplyOwes(e)[a] = 0
        BY <1>2, <1>3, <2>1, <2>7 DEF Commits
      <3>2. paid'[e] = paid[e]
        BY <1>1, <2>1, <2>7
      <3>3. QED
        BY <1>4, <2>5, <3>1, <3>2
    <2>8. QED
      BY <2>6, <2>7
  <1>12. CASE MarkStep(h, a)
    <2>1. a.op = h.op /\ h.op = "mark" /\ a.job = h.job /\ paid' = paid
      BY <1>12 DEF MarkStep, Reply
    <2>2. ReplyOwes(e)[a] = 0 /\ RequestOwes(e)[h] = 0
      BY <1>2, <1>3, <2>1 DEF Commits, Resaved
    <2>3. ReplyFlows[a] = 1 /\ RequestFlows[h] = 1
      BY <1>2, <1>3, <2>1 DEF InFlowReply, InFlow
    <2>4. QED
      BY <1>5, <2>1, <2>2, <2>3
  <1>13. CASE FailStep(h, a)
    <2>1. /\ a.op = h.op /\ a.job = h.job /\ a.ok = FALSE /\ paid' = paid
          /\ dbErrors' = dbErrors + 1
      BY <1>13 DEF FailStep, Reply
    <2>2. ReplyOwes(e)[a] = 0
      BY <1>3, <2>1
    <2>3. ReplyFlows[a] = RequestFlows[h]
      BY <1>2, <1>3, <2>1 DEF InFlowReply, InFlow
    <2>4. dbErrors' # dbErrors
      BY <1>1, <2>1
    <2>5. QED
      BY <1>2, <1>4, <2>1, <2>2, <2>3, <2>4
  <1>14. QED
    BY <1>6, <1>7, <1>8, <1>9, <1>10, <1>11, <1>12, <1>13 DEF DbStep


LEMMA DbMoves ==
  ASSUME ShapeInv, NEW a \in Replies(asked), NEW h, h = Head(requests), DbStep(h, a),
         NEW e \in Entries
  PROVE  /\ paid'[e] \in Nat /\ paid[e] <= paid'[e]
         /\ Owed(requests', replies', e, asked[e]) \in Nat
         /\ paid'[e] + Owed(requests', replies', e, asked[e]) <= Committed(e)
         /\ dbErrors' = dbErrors => paid'[e] + Owed(requests', replies', e, asked[e]) = Committed(e)
         /\ Flows(requests', replies', fetches') \in Nat
         /\ \/ Flows(requests', replies', fetches') = Flows(requests, replies, fetches)
            \/ /\ Flows(requests', replies', fetches') = Flows(requests, replies, fetches) + 1
               /\ \E k \in DOMAIN rows : FindStep(h, a, k)
  <1>1. DbFrame(a)
    BY DEF DbStep, SaveRowStep, SaveListStep, FindNoneStep, FindStep, ReadListStep,
           ContributeStep, MarkStep, FailStep
  <1>2. /\ requests # <<>> /\ requests' = Tail(requests) /\ replies' = Append(replies, a)
        /\ fetches' = fetches
    BY <1>1 DEF DbFrame
  <1>3. /\ requests \in Seq(AllRequests) /\ replies \in Seq(AllReplies) /\ fetches \in Seq(Job)
        /\ asked \in [Entries -> Nat] /\ asked[e] \in Nat
    BY ChannelTypes
  <1>4. h \in Requests(asked)
    BY <1>2, HeadsAre
  <1>5. /\ h \in AllRequests /\ RequestOwes(e)[h] \in Nat /\ RequestOwes(e)[h] <= asked[e]
        /\ RequestFlows[h] \in Nat /\ RequestFlows[h] <= 1
    BY <1>3, <1>4, RequestWorth
  <1>6. /\ a \in AllReplies /\ ReplyOwes(e)[a] \in Nat /\ ReplyOwes(e)[a] <= asked[e]
        /\ ReplyFlows[a] \in Nat /\ ReplyFlows[a] <= 1
    BY <1>3, ReplyWorth
  <1>7. /\ RequestOwes(e) \in [AllRequests -> Nat] /\ ReplyOwes(e) \in [AllReplies -> Nat]
        /\ RequestFlows \in [AllRequests -> Nat] /\ ReplyFlows \in [AllReplies -> Nat]
    BY WeightTypes
  <1>8. Owed(Tail(requests), Append(replies, a), e, asked[e]) + RequestOwes(e)[h]
          = Owed(requests, replies, e, asked[e]) + ReplyOwes(e)[a]
    <2> DEFINE V == RequestOwes(e)
               W == ReplyOwes(e)
               b == asked[e]
    <2>1. /\ V \in [AllRequests -> Nat] /\ W \in [AllReplies -> Nat] /\ b \in Nat
          /\ V[Head(requests)] <= b /\ a \in AllReplies /\ W[a] <= b
      BY <1>3, <1>5, <1>6, <1>7
    <2> HIDE DEF V, W, b
    <2>2. Both(Tail(requests), Append(replies, a), V, W, b) + V[Head(requests)]
            = Both(requests, replies, V, W, b) + W[a]
      BY <1>2, <1>3, <2>1, BothAnswered
    <2>3. QED
      BY <2>2 DEF Owed, V, W, b
  <1>9. Both(Tail(requests), Append(replies, a), RequestFlows, ReplyFlows, 1) + RequestFlows[h]
          = Both(requests, replies, RequestFlows, ReplyFlows, 1) + ReplyFlows[a]
    <2> DEFINE V == RequestFlows
               W == ReplyFlows
    <2>1. /\ V \in [AllRequests -> Nat] /\ W \in [AllReplies -> Nat] /\ 1 \in Nat
          /\ V[Head(requests)] <= 1 /\ a \in AllReplies /\ W[a] <= 1
      BY <1>3, <1>5, <1>6, <1>7
    <2> HIDE DEF V, W
    <2>2. Both(Tail(requests), Append(replies, a), V, W, 1) + V[Head(requests)]
            = Both(requests, replies, V, W, 1) + W[a]
      BY <1>2, <1>3, <2>1, BothAnswered
    <2>3. QED
      BY <2>2 DEF V, W
  <1>10. Tail(requests) \in Seq(AllRequests) /\ Append(replies, a) \in Seq(AllReplies)
    BY <1>2, <1>3, <1>6, HeadTailProperties, AppendProperties
  <1>11. /\ Owed(Tail(requests), Append(replies, a), e, asked[e]) \in Nat
         /\ Both(Tail(requests), Append(replies, a), RequestFlows, ReplyFlows, 1) \in Nat
         /\ Both(requests, replies, RequestFlows, ReplyFlows, 1) \in Nat
    BY <1>3, <1>10, BothType DEF Owed
  <1>12. /\ Owed(requests, replies, e, asked[e]) \in Nat
         /\ Committed(e) = paid[e] + Owed(requests, replies, e, asked[e])
         /\ paid[e] \in Nat /\ Len(fetches) \in Nat
    BY <1>3, SumsTypes, MadeType, LenProperties
  <1>13. /\ paid'[e] \in Nat /\ paid[e] <= paid'[e]
         /\ paid'[e] + ReplyOwes(e)[a] <= paid[e] + RequestOwes(e)[h]
         /\ dbErrors' = dbErrors => paid'[e] + ReplyOwes(e)[a] = paid[e] + RequestOwes(e)[h]
         /\ \/ ReplyFlows[a] = RequestFlows[h]
            \/ ReplyFlows[a] = 1 /\ RequestFlows[h] = 0 /\ \E k \in DOMAIN rows : FindStep(h, a, k)
    BY <1>2, DbWorth
  <1> DEFINE O == Owed(Tail(requests), Append(replies, a), e, asked[e])
             F == Both(Tail(requests), Append(replies, a), RequestFlows, ReplyFlows, 1)
             G == Both(requests, replies, RequestFlows, ReplyFlows, 1)
             x == RequestOwes(e)[h]
             y == ReplyOwes(e)[a]
             u == RequestFlows[h]
             v == ReplyFlows[a]
  <1>14. /\ Owed(requests', replies', e, asked[e]) = O
         /\ Flows(requests', replies', fetches') = F + Len(fetches)
         /\ Flows(requests, replies, fetches) = G + Len(fetches)
    BY <1>2 DEF Flows
  <1> HIDE DEF O, F, G, x, y, u, v
  <1>15. O + x = Owed(requests, replies, e, asked[e]) + y /\ O \in Nat /\ x \in Nat /\ y \in Nat
    BY <1>5, <1>6, <1>8, <1>11 DEF O, x, y
  <1>16. F + u = G + v /\ F \in Nat /\ G \in Nat /\ u \in Nat /\ v \in Nat
    BY <1>5, <1>6, <1>9, <1>11 DEF F, G, u, v
  <1>17. /\ paid'[e] + y <= paid[e] + x
         /\ dbErrors' = dbErrors => paid'[e] + y = paid[e] + x
         /\ v = u \/ (v = 1 /\ u = 0 /\ \E k \in DOMAIN rows : FindStep(h, a, k))
    BY <1>13 DEF x, y, u, v
  <1>18. /\ paid'[e] + O <= Committed(e)
         /\ dbErrors' = dbErrors => paid'[e] + O = Committed(e)
    BY <1>12, <1>13, <1>15, <1>17, SMTT(30)
  <1>19. \/ F + Len(fetches) = G + Len(fetches)
         \/ F + Len(fetches) = G + Len(fetches) + 1 /\ \E k \in DOMAIN rows : FindStep(h, a, k)
    BY <1>12, <1>16, <1>17
  <1>20. QED
    BY <1>12, <1>13, <1>14, <1>15, <1>16, <1>18, <1>19

(* A handler passes on what its reply owes, or ends a flow that owes       *)
(* nothing.                                                                *)
LEMMA SendWorth ==
  ASSUME ShapeInv, NEW m \in Requests(asked), replies # <<>>, NEW h, h = Head(replies),
         Sends(h, m), NEW e \in Entries
  PROVE  RequestOwes(e)[m] = ReplyOwes(e)[h] /\ RequestFlows[m] = ReplyFlows[h]
  <1>1. h \in Replies(asked) /\ asked \in [Entries -> Nat]
    BY HeadsAre, ChannelTypes
  <1>2. /\ RequestOwes(e)[m] = IF m.op # "first" /\ Commits(m.op, m.job, e) THEN m.job.amount ELSE 0
        /\ RequestFlows[m] = IF InFlow(m) THEN 1 ELSE 0
    BY <1>1, RequestWorth
  <1>3. /\ ReplyOwes(e)[h] = IF h.op # "first" /\ h.ok /\ Commits(h.op, h.job, e)
                             THEN IF h.op = "save_contribution" THEN Left(h.job) ELSE h.job.amount
                             ELSE 0
        /\ ReplyFlows[h] = IF InFlowReply(h) THEN 1 ELSE 0
    BY <1>1, ReplyWorth
  <1>4. h.op # "first" \/ h.ok => h.job \in Job /\ JobOk(h.op, h.job, asked)
    BY <1>1, RepliesAre
  <1>5. CASE h.op = "save_row" /\ h.ok /\ m = Request("save_publishers", h.job)
    <2>1. m.op = "save_publishers" /\ m.job = h.job
      BY <1>5 DEF Request
    <2>2. QED
      BY <1>2, <1>3, <1>5, <2>1 DEF InFlowReply, InFlow, Commits, Resaved
  <1>6. CASE h.op = "save_publishers" /\ h.ok /\ h.job.caller = "ContributionTip" /\ m = NoRequest
    <2>1. m.op = "first"
      BY <1>6, NothingIn
    <2>2. QED
      BY <1>2, <1>3, <1>6, <2>1 DEF InFlowReply, InFlow, Commits, Resaved
  <1>7. CASE h.op = "save_publishers" /\ h.ok /\ h.job.caller = "Contribution" /\ Continues(h.job, m)
    <2>1. PICK w \in Wallets : m = Request("save_contribution", [h.job EXCEPT !.wallet = w])
      BY <1>7 DEF Continues
    <2> DEFINE moved == [h.job EXCEPT !.wallet = w]
    <2>2. /\ moved.wallet = w /\ moved.entry = h.job.entry /\ moved.amount = h.job.amount
      BY <1>4, <1>7, JobMoved
    <2>3. m.op = "save_contribution" /\ m.job = moved
      BY <2>1 DEF Request
    <2> HIDE DEF moved
    <2>4. h.job.wallet \in Wallets
      BY <1>4, <1>7 DEF JobOk, Resaved
    <2>5. h.job.wallet # NoWallet /\ m.job.wallet # NoWallet
      BY <2>2, <2>3, <2>4 DEF Wallets, NoWallet
    <2>6. Commits(m.op, m.job, e) <=> Commits(h.op, h.job, e)
      BY <1>7, <2>2, <2>3, <2>5 DEF Commits, Resaved
    <2>7. RequestOwes(e)[m] = ReplyOwes(e)[h]
      BY <1>2, <1>3, <1>7, <2>2, <2>3, <2>6
    <2>8. RequestFlows[m] = ReplyFlows[h]
      BY <1>2, <1>3, <1>7, <2>3 DEF InFlowReply, InFlow
    <2>9. QED
      BY <2>7, <2>8
  <1>8. CASE h.op = "first" /\ h.ok /\ m = Request("publishers", h.job)
    <2>1. m.op = "publishers" /\ m.job = h.job
      BY <1>8 DEF Request
    <2>2. QED
      BY <1>2, <1>3, <1>8, <2>1 DEF InFlowReply, InFlow, Commits, Resaved
  <1>9. CASE /\ h.op = "save_contribution" /\ h.ok /\ Left(h.job) > 0
             /\ m = Request("save_row", [h.job EXCEPT !.amount = Left(h.job)])
    <2>1. h.job \in Job /\ h.job.wallet \in Wallets /\ h.job.caller = "Contribution"
      BY <1>4, <1>9 DEF JobOk
    <2> DEFINE lowered == [h.job EXCEPT !.amount = Left(h.job)]
    <2>2. /\ lowered.amount = Left(h.job) /\ lowered.entry = h.job.entry
          /\ lowered.wallet = h.job.wallet /\ lowered.caller = h.job.caller
      BY <2>1, LeftIs, JobLowered
    <2>3. m.op = "save_row" /\ m.job = lowered
      BY <1>9 DEF Request
    <2> HIDE DEF lowered
    <2>4. Commits(m.op, m.job, e) <=> Commits(h.op, h.job, e)
      BY <1>9, <2>1, <2>2, <2>3 DEF Commits, Resaved
    <2>5. RequestOwes(e)[m] = ReplyOwes(e)[h]
      BY <1>2, <1>3, <1>9, <2>2, <2>3, <2>4
    <2>6. RequestFlows[m] = ReplyFlows[h]
      BY <1>2, <1>3, <1>9, <2>1, <2>2, <2>3 DEF InFlowReply, InFlow
    <2>7. QED
      BY <2>5, <2>6
  <1>10. CASE h.op = "save_contribution" /\ h.ok /\ Left(h.job) = 0 /\ m = Request("mark", h.job)
    <2>1. m.op = "mark" /\ m.job = h.job
      BY <1>10 DEF Request
    <2>2. QED
      BY <1>2, <1>3, <1>10, <2>1 DEF InFlowReply, InFlow, Commits, Resaved
  <1>11. QED
    BY <1>5, <1>6, <1>7, <1>8, <1>9, <1>10 DEF Sends

LEMMA EndWorth ==
  ASSUME ShapeInv, replies # <<>>, NEW h, h = Head(replies), Ends(h) \/ h.op = "publishers",
         NEW e \in Entries
  PROVE  ReplyOwes(e)[h] = 0
  <1>1. h \in Replies(asked) /\ asked \in [Entries -> Nat]
    BY HeadsAre, ChannelTypes
  <1>2. /\ ReplyOwes(e)[h] = IF h.op # "first" /\ h.ok /\ Commits(h.op, h.job, e)
                             THEN IF h.op = "save_contribution" THEN Left(h.job) ELSE h.job.amount
                             ELSE 0
    BY <1>1, ReplyWorth
  <1>3. QED
    BY <1>2 DEF Ends, Commits, Resaved


LEMMA SendMoves ==
  ASSUME ShapeInv, NEW m \in Requests(asked), SendStep(m), NEW e \in Entries
  PROVE  /\ Owed(requests', replies', e, asked[e]) = Owed(requests, replies, e, asked[e])
         /\ Flows(requests', replies', fetches') = Flows(requests, replies, fetches)
         /\ RequestFlows[m] = ReplyFlows[Head(replies)]
  <1> DEFINE h == Head(replies)
  <1>1. /\ replies # <<>> /\ requests' = Append(requests, m) /\ replies' = Tail(replies)
        /\ fetches' = fetches /\ Sends(h, m)
    BY DEF SendStep, HandlerFrame
  <1>2. /\ requests \in Seq(AllRequests) /\ replies \in Seq(AllReplies) /\ fetches \in Seq(Job)
        /\ asked \in [Entries -> Nat] /\ asked[e] \in Nat
    BY ChannelTypes
  <1>3. /\ m \in AllRequests /\ RequestOwes(e)[m] \in Nat /\ RequestOwes(e)[m] <= asked[e]
        /\ RequestFlows[m] \in Nat /\ RequestFlows[m] <= 1
    BY <1>2, RequestWorth
  <1>4. h \in Replies(asked)
    BY <1>1, HeadsAre
  <1>5. /\ ReplyOwes(e)[h] \in Nat /\ ReplyOwes(e)[h] <= asked[e]
        /\ ReplyFlows[h] \in Nat /\ ReplyFlows[h] <= 1
    BY <1>2, <1>4, ReplyWorth
  <1>6. /\ RequestOwes(e) \in [AllRequests -> Nat] /\ ReplyOwes(e) \in [AllReplies -> Nat]
        /\ RequestFlows \in [AllRequests -> Nat] /\ ReplyFlows \in [AllReplies -> Nat]
    BY WeightTypes
  <1>7. RequestOwes(e)[m] = ReplyOwes(e)[h] /\ RequestFlows[m] = ReplyFlows[h]
    BY <1>1, SendWorth
  <1>8. Owed(Append(requests, m), Tail(replies), e, asked[e]) + ReplyOwes(e)[h]
          = Owed(requests, replies, e, asked[e]) + RequestOwes(e)[m]
    BY <1>1, <1>2, <1>3, <1>5, <1>6, BothSent, ZenonT(30) DEF Owed
  <1>9. Both(Append(requests, m), Tail(replies), RequestFlows, ReplyFlows, 1) + ReplyFlows[h]
          = Both(requests, replies, RequestFlows, ReplyFlows, 1) + RequestFlows[m]
    <2>1. /\ 1 \in Nat /\ ReplyFlows[Head(replies)] <= 1 /\ RequestFlows[m] <= 1
          /\ replies # <<>> /\ m \in AllRequests
      BY <1>1, <1>3, <1>5
    <2>2. QED
      BY <1>2, <1>6, <2>1, BothSent
  <1>10. Append(requests, m) \in Seq(AllRequests) /\ Tail(replies) \in Seq(AllReplies)
    BY <1>1, <1>2, <1>3, HeadTailProperties, AppendProperties
  <1>11. /\ Owed(Append(requests, m), Tail(replies), e, asked[e]) \in Nat
         /\ Owed(requests, replies, e, asked[e]) \in Nat
         /\ Both(Append(requests, m), Tail(replies), RequestFlows, ReplyFlows, 1) \in Nat
         /\ Both(requests, replies, RequestFlows, ReplyFlows, 1) \in Nat
    BY <1>2, <1>10, BothType DEF Owed
  <1> DEFINE O == Owed(Append(requests, m), Tail(replies), e, asked[e])
             F == Both(Append(requests, m), Tail(replies), RequestFlows, ReplyFlows, 1)
             G == Both(requests, replies, RequestFlows, ReplyFlows, 1)
             x == RequestOwes(e)[m]
             u == RequestFlows[m]
  <1>12. /\ Owed(requests', replies', e, asked[e]) = O
         /\ Flows(requests', replies', fetches') = F + Len(fetches)
         /\ Flows(requests, replies, fetches) = G + Len(fetches)
    BY <1>1 DEF Flows
  <1>13. ReplyOwes(e)[h] = x /\ ReplyFlows[h] = u
    BY <1>7
  <1> HIDE DEF O, F, G, x, u, h
  <1>14. O + x = Owed(requests, replies, e, asked[e]) + x /\ O \in Nat /\ x \in Nat
    BY <1>3, <1>8, <1>11, <1>13 DEF O, x
  <1>15. F + u = G + u /\ F \in Nat /\ G \in Nat /\ u \in Nat
    BY <1>3, <1>9, <1>11, <1>13 DEF F, G, u
  <1>16. O = Owed(requests, replies, e, asked[e]) /\ F = G
    BY <1>11, <1>14, <1>15
  <1>17. QED
    BY <1>12, <1>13, <1>16 DEF u, h

LEMMA EndMoves ==
  ASSUME ShapeInv, EndStep, NEW e \in Entries
  PROVE  /\ Owed(requests', replies', e, asked[e]) = Owed(requests, replies, e, asked[e])
         /\ Flows(requests', replies', fetches') + ReplyFlows[Head(replies)]
              = Flows(requests, replies, fetches)
         /\ Flows(requests', replies', fetches') \in Nat
         /\ ReplyFlows[Head(replies)] \in Nat
  <1> DEFINE h == Head(replies)
  <1>1. /\ replies # <<>> /\ requests' = requests /\ replies' = Tail(replies)
        /\ fetches' = fetches /\ Ends(h)
    BY DEF EndStep, HandlerFrame
  <1>2. /\ requests \in Seq(AllRequests) /\ replies \in Seq(AllReplies) /\ fetches \in Seq(Job)
        /\ asked \in [Entries -> Nat] /\ asked[e] \in Nat
    BY ChannelTypes
  <1>3. h \in Replies(asked)
    BY <1>1, HeadsAre
  <1>4. /\ ReplyOwes(e)[h] \in Nat /\ ReplyOwes(e)[h] <= asked[e]
        /\ ReplyFlows[h] \in Nat /\ ReplyFlows[h] <= 1
    BY <1>2, <1>3, ReplyWorth
  <1>5. /\ RequestOwes(e) \in [AllRequests -> Nat] /\ ReplyOwes(e) \in [AllReplies -> Nat]
        /\ RequestFlows \in [AllRequests -> Nat] /\ ReplyFlows \in [AllReplies -> Nat]
    BY WeightTypes
  <1>6. ReplyOwes(e)[h] = 0
    BY <1>1, EndWorth
  <1>7. Owed(requests, Tail(replies), e, asked[e]) + ReplyOwes(e)[h]
          = Owed(requests, replies, e, asked[e])
    BY <1>1, <1>2, <1>4, <1>5, BothEnded DEF Owed
  <1>8. Both(requests, Tail(replies), RequestFlows, ReplyFlows, 1) + ReplyFlows[h]
          = Both(requests, replies, RequestFlows, ReplyFlows, 1)
    BY <1>1, <1>2, <1>4, <1>5, BothEnded
  <1>9. Tail(replies) \in Seq(AllReplies)
    BY <1>1, <1>2, HeadTailProperties
  <1>10. /\ Owed(requests, Tail(replies), e, asked[e]) \in Nat
         /\ Both(requests, Tail(replies), RequestFlows, ReplyFlows, 1) \in Nat
         /\ Len(fetches) \in Nat
    BY <1>2, <1>9, BothType, LenProperties DEF Owed
  <1> DEFINE F == Both(requests, Tail(replies), RequestFlows, ReplyFlows, 1)
             G == Both(requests, replies, RequestFlows, ReplyFlows, 1)
             u == ReplyFlows[h]
  <1>11. /\ Flows(requests', replies', fetches') = F + Len(fetches)
         /\ Flows(requests, replies, fetches) = G + Len(fetches)
    BY <1>1 DEF Flows
  <1>12. Owed(requests', replies', e, asked[e]) = Owed(requests, replies, e, asked[e])
    BY <1>1, <1>6, <1>7, <1>10
  <1> HIDE DEF F, G, u, h
  <1>13. F + u = G /\ F \in Nat /\ u \in Nat
    BY <1>4, <1>8, <1>10 DEF F, G, u
  <1>14. QED
    BY <1>10, <1>11, <1>12, <1>13 DEF u, h

(* The answer of the publishers query becomes a job that waits.            *)
LEMMA FetchMoves ==
  ASSUME ShapeInv, FetchStep, NEW e \in Entries
  PROVE  LET j == [Head(replies).job EXCEPT !.listed = Head(replies).ok]
         IN /\ j \in Waiting(asked) /\ j.entry = Head(replies).job.entry
            /\ j.amount = Head(replies).job.amount /\ j.listed = Head(replies).ok
            /\ Owed(requests', replies', e, asked[e]) = Owed(requests, replies, e, asked[e])
            /\ Awaited(fetches', e, asked[e]) = Awaited(fetches, e, asked[e]) + FetchOwes(e)[j]
            /\ Flows(requests', replies', fetches') = Flows(requests, replies, fetches)
            /\ Flows(requests', replies', fetches') > 0
  <1> DEFINE h == Head(replies)
             j == [h.job EXCEPT !.listed = h.ok]
  <1>1. /\ replies # <<>> /\ requests' = requests /\ replies' = Tail(replies)
        /\ fetches' = Append(fetches, j) /\ h.op = "publishers"
    BY DEF FetchStep, HandlerFrame
  <1>2. /\ requests \in Seq(AllRequests) /\ replies \in Seq(AllReplies) /\ fetches \in Seq(Job)
        /\ asked \in [Entries -> Nat] /\ asked[e] \in Nat
    BY ChannelTypes
  <1>3. h \in Replies(asked)
    BY <1>1, HeadsAre
  <1>4. h.job \in Job /\ JobOk("publishers", h.job, asked) /\ h.ok \in BOOLEAN
    BY <1>1, <1>3, RepliesAre
  <1>5. j \in Waiting(asked) /\ j.entry = h.job.entry /\ j.amount = h.job.amount /\ j.listed = h.ok
    BY <1>4 DEF Waiting, Job, JobOk, Resaved
  <1>6. /\ ReplyOwes(e)[h] \in Nat /\ ReplyOwes(e)[h] <= asked[e]
        /\ ReplyFlows[h] = IF InFlowReply(h) THEN 1 ELSE 0
    BY <1>2, <1>3, ReplyWorth
  <1>7. ReplyFlows[h] = 1
    BY <1>1, <1>6 DEF InFlowReply, InFlow
  <1>8. ReplyOwes(e)[h] = 0
    BY <1>1, EndWorth
  <1>9. /\ RequestOwes(e) \in [AllRequests -> Nat] /\ ReplyOwes(e) \in [AllReplies -> Nat]
        /\ RequestFlows \in [AllRequests -> Nat] /\ ReplyFlows \in [AllReplies -> Nat]
        /\ FetchOwes(e) \in [Job -> Nat]
    BY WeightTypes
  <1>10. j \in Job /\ FetchOwes(e)[j] <= asked[e]
    BY <1>2, <1>5, FetchWorth
  <1> HIDE DEF j, h
  <1>11. Owed(requests, Tail(replies), e, asked[e]) + ReplyOwes(e)[h]
          = Owed(requests, replies, e, asked[e])
    BY <1>1, <1>2, <1>6, <1>9, BothEnded DEF Owed, h
  <1>12. Both(requests, Tail(replies), RequestFlows, ReplyFlows, 1) + ReplyFlows[h]
          = Both(requests, replies, RequestFlows, ReplyFlows, 1)
    <2>1. ReplyFlows[h] <= 1
      BY <1>7
    <2>2. QED
      BY <1>1, <1>2, <1>9, <2>1, BothEnded DEF h
  <1>13. Tail(replies) \in Seq(AllReplies)
    BY <1>1, <1>2, HeadTailProperties
  <1>14. /\ Owed(requests, Tail(replies), e, asked[e]) \in Nat
         /\ Both(requests, Tail(replies), RequestFlows, ReplyFlows, 1) \in Nat
         /\ Len(fetches) \in Nat
    BY <1>2, <1>13, BothType, LenProperties DEF Owed
  <1>15. Awaited(Append(fetches, j), e, asked[e]) = Awaited(fetches, e, asked[e]) + FetchOwes(e)[j]
    BY <1>2, <1>9, <1>10, SumAppended DEF Awaited
  <1>16. Len(Append(fetches, j)) = Len(fetches) + 1
    BY <1>2, <1>10, AppendProperties
  <1> DEFINE F == Both(requests, Tail(replies), RequestFlows, ReplyFlows, 1)
             G == Both(requests, replies, RequestFlows, ReplyFlows, 1)
  <1>17. /\ Flows(requests', replies', fetches') = F + (Len(fetches) + 1)
         /\ Flows(requests, replies, fetches) = G + Len(fetches)
    BY <1>1, <1>16 DEF Flows
  <1>18. Owed(requests', replies', e, asked[e]) = Owed(requests, replies, e, asked[e])
    BY <1>1, <1>8, <1>11, <1>14
  <1>19. Awaited(fetches', e, asked[e]) = Awaited(fetches, e, asked[e]) + FetchOwes(e)[j]
    BY <1>1, <1>15
  <1> HIDE DEF F, G
  <1>20. F + 1 = G /\ F \in Nat
    BY <1>7, <1>12, <1>14 DEF F, G
  <1>21. /\ Flows(requests', replies', fetches') = Flows(requests, replies, fetches)
         /\ Flows(requests', replies', fetches') > 0
    BY <1>14, <1>17, <1>20
  <1>22. QED
    BY <1>5, <1>18, <1>19, <1>21 DEF j, h


LEMMA BalanceMoves ==
  ASSUME ShapeInv, NEW i \in DOMAIN fetches, NEW m \in Requests(asked), BalanceStep(i, m),
         NEW e \in Entries
  PROVE  /\ Owed(requests', replies', e, asked[e])
              = Owed(requests, replies, e, asked[e]) + RequestOwes(e)[m]
         /\ Awaited(fetches', e, asked[e]) + FetchOwes(e)[fetches[i]] = Awaited(fetches, e, asked[e])
         /\ RequestOwes(e)[m] <= FetchOwes(e)[fetches[i]]
         /\ RequestOwes(e)[m] = IF m.op = "save_contribution" /\ m.job.entry = e
                                THEN m.job.amount ELSE 0
         /\ RequestOwes(e)[m] \in Nat /\ FetchOwes(e)[fetches[i]] \in Nat
         /\ Awaited(fetches', e, asked[e]) \in Nat
         /\ Flows(requests', replies', fetches') = Flows(requests, replies, fetches)
         /\ Flows(requests', replies', fetches') > 0
  <1> DEFINE j == fetches[i]
  <1>1. /\ replies' = replies /\ requests' = Append(requests, m) /\ fetches' = RemoveAt(fetches, i)
        /\ m.job.entry = j.entry
        /\ \/ m.op = "mark"
           \/ m.op = "save_contribution" /\ m.job.wallet \in Wallets /\ m.job.amount <= j.amount
    BY DEF BalanceStep
  <1>2. /\ requests \in Seq(AllRequests) /\ replies \in Seq(AllReplies) /\ fetches \in Seq(Job)
        /\ asked \in [Entries -> Nat] /\ asked[e] \in Nat
    BY ChannelTypes
  <1>3. j \in Waiting(asked)
    BY ElementOfSeq DEF ShapeInv
  <1>4. /\ m \in AllRequests /\ RequestOwes(e)[m] \in Nat /\ RequestOwes(e)[m] <= asked[e]
        /\ RequestOwes(e)[m] = IF m.op # "first" /\ Commits(m.op, m.job, e) THEN m.job.amount ELSE 0
        /\ RequestFlows[m] = IF InFlow(m) THEN 1 ELSE 0
    BY <1>2, RequestWorth
  <1>5. /\ FetchOwes(e)[j] \in Nat /\ FetchOwes(e)[j] <= asked[e]
        /\ FetchOwes(e)[j] = IF j.entry = e THEN j.amount ELSE 0
    BY <1>2, <1>3, FetchWorth
  <1>6. RequestFlows[m] = 1
    BY <1>1, <1>4 DEF InFlow
  <1>7. RequestOwes(e)[m] = IF m.op = "save_contribution" /\ m.job.entry = e THEN m.job.amount ELSE 0
    BY <1>1, <1>4 DEF Commits, Resaved, Wallets, NoWallet
  <1>8. RequestOwes(e)[m] <= FetchOwes(e)[j]
    <2>1. CASE m.op = "save_contribution" /\ m.job.entry = e
      BY <1>1, <1>5, <1>7, <2>1
    <2>2. CASE ~(m.op = "save_contribution" /\ m.job.entry = e)
      <3>1. RequestOwes(e)[m] = 0
        BY <1>7, <2>2
      <3>2. QED
        BY <1>5, <3>1
    <2>3. QED
      BY <2>1, <2>2
  <1>9. /\ RequestOwes(e) \in [AllRequests -> Nat] /\ ReplyOwes(e) \in [AllReplies -> Nat]
        /\ RequestFlows \in [AllRequests -> Nat] /\ ReplyFlows \in [AllReplies -> Nat]
        /\ FetchOwes(e) \in [Job -> Nat]
    BY WeightTypes
  <1>10. Owed(Append(requests, m), replies, e, asked[e])
           = Owed(requests, replies, e, asked[e]) + RequestOwes(e)[m]
    BY <1>2, <1>4, <1>9, BothPosted DEF Owed
  <1>11. Both(Append(requests, m), replies, RequestFlows, ReplyFlows, 1)
           = Both(requests, replies, RequestFlows, ReplyFlows, 1) + RequestFlows[m]
    <2>1. RequestFlows[m] <= 1 /\ 1 \in Nat
      BY <1>6
    <2>2. QED
      BY <1>2, <1>4, <1>9, <2>1, BothPosted
  <1>12. Awaited(fetches, e, asked[e]) = Awaited(RemoveAt(fetches, i), e, asked[e]) + FetchOwes(e)[j]
    BY <1>2, <1>5, <1>9, SumRemoved DEF Awaited
  <1>13. RemoveAt(fetches, i) \in Seq(Job) /\ Len(RemoveAt(fetches, i)) = Len(fetches) - 1
    BY <1>2, RemovedAt
  <1>14. /\ Awaited(RemoveAt(fetches, i), e, asked[e]) \in Nat
         /\ Both(requests, replies, RequestFlows, ReplyFlows, 1) \in Nat /\ Len(fetches) \in Nat
         /\ Len(fetches) > 0
    BY <1>2, <1>13, SumType, BothType, LenProperties DEF Awaited
  <1> HIDE DEF j
  <1> DEFINE F == Both(Append(requests, m), replies, RequestFlows, ReplyFlows, 1)
             G == Both(requests, replies, RequestFlows, ReplyFlows, 1)
  <1>15. /\ Flows(requests', replies', fetches') = F + (Len(fetches) - 1)
         /\ Flows(requests, replies, fetches) = G + Len(fetches)
    BY <1>1, <1>13 DEF Flows
  <1> HIDE DEF F, G
  <1>16. F = G + 1 /\ G \in Nat
    BY <1>6, <1>11, <1>14 DEF F, G
  <1>17. /\ Flows(requests', replies', fetches') = Flows(requests, replies, fetches)
         /\ Flows(requests', replies', fetches') > 0
    BY <1>14, <1>15, <1>16
  <1>18. /\ Owed(requests', replies', e, asked[e])
              = Owed(requests, replies, e, asked[e]) + RequestOwes(e)[m]
         /\ Awaited(fetches', e, asked[e]) + FetchOwes(e)[j] = Awaited(fetches, e, asked[e])
         /\ Awaited(fetches', e, asked[e]) \in Nat
    BY <1>1, <1>10, <1>12, <1>14
  <1>19. QED
    BY <1>4, <1>5, <1>7, <1>8, <1>17, <1>18 DEF j

LEMMA FetchFailsMoves ==
  ASSUME ShapeInv, NEW i \in DOMAIN fetches, FetchFailsStep(i), NEW e \in Entries
  PROVE  /\ Owed(requests', replies', e, asked[e]) = Owed(requests, replies, e, asked[e])
         /\ Awaited(fetches', e, asked[e]) <= Awaited(fetches, e, asked[e])
         /\ Awaited(fetches', e, asked[e]) \in Nat
         /\ Flows(requests', replies', fetches') + 1 = Flows(requests, replies, fetches)
         /\ Flows(requests', replies', fetches') \in Nat
  <1> DEFINE j == fetches[i]
  <1>1. replies' = replies /\ requests' = requests /\ fetches' = RemoveAt(fetches, i)
    BY DEF FetchFailsStep
  <1>2. /\ requests \in Seq(AllRequests) /\ replies \in Seq(AllReplies) /\ fetches \in Seq(Job)
        /\ asked \in [Entries -> Nat] /\ asked[e] \in Nat
    BY ChannelTypes
  <1>3. j \in Waiting(asked)
    BY ElementOfSeq DEF ShapeInv
  <1>4. /\ FetchOwes(e)[j] \in Nat /\ FetchOwes(e)[j] <= asked[e] /\ FetchOwes(e) \in [Job -> Nat]
    BY <1>2, <1>3, FetchWorth, WeightTypes
  <1>5. Awaited(fetches, e, asked[e]) = Awaited(RemoveAt(fetches, i), e, asked[e]) + FetchOwes(e)[j]
    BY <1>2, <1>4, SumRemoved DEF Awaited
  <1>6. RemoveAt(fetches, i) \in Seq(Job) /\ Len(RemoveAt(fetches, i)) = Len(fetches) - 1
    BY <1>2, RemovedAt
  <1>7. /\ Awaited(RemoveAt(fetches, i), e, asked[e]) \in Nat
        /\ Both(requests, replies, RequestFlows, ReplyFlows, 1) \in Nat /\ Len(fetches) \in Nat
        /\ Len(fetches) > 0
    BY <1>2, <1>6, SumType, BothType, LenProperties DEF Awaited
  <1> HIDE DEF j
  <1> DEFINE G == Both(requests, replies, RequestFlows, ReplyFlows, 1)
  <1>8. /\ Flows(requests', replies', fetches') = G + (Len(fetches) - 1)
        /\ Flows(requests, replies, fetches) = G + Len(fetches)
    BY <1>1, <1>6 DEF Flows
  <1> HIDE DEF G
  <1>9. /\ Flows(requests', replies', fetches') + 1 = Flows(requests, replies, fetches)
        /\ Flows(requests', replies', fetches') \in Nat
    BY <1>7, <1>8 DEF G
  <1>10. /\ Awaited(fetches', e, asked[e]) <= Awaited(fetches, e, asked[e])
         /\ Awaited(fetches', e, asked[e]) \in Nat
    BY <1>1, <1>4, <1>5, <1>7
  <1>11. QED
    BY <1>1, <1>9, <1>10

LEMMA PokeMoves ==
  ASSUME ShapeInv, PokeStep, NEW e \in Entries
  PROVE  /\ Owed(requests', replies', e, asked[e]) = Owed(requests, replies, e, asked[e])
         /\ Flows(requests', replies', fetches') = Flows(requests, replies, fetches)
  <1>1. CASE requests' = requests
    BY <1>1 DEF PokeStep
  <1>2. CASE requests' = Append(requests, NoRequest)
    <2>1. /\ requests \in Seq(AllRequests) /\ replies \in Seq(AllReplies) /\ fetches \in Seq(Job)
          /\ asked \in [Entries -> Nat] /\ asked[e] \in Nat
      BY ChannelTypes
    <2>2. NoRequest \in Requests(asked) /\ NoRequest.op = "first"
      BY NothingIn
    <2>3. /\ NoRequest \in AllRequests /\ RequestOwes(e)[NoRequest] = 0
          /\ RequestFlows[NoRequest] = 0
      BY <2>1, <2>2, RequestWorth DEF InFlow
    <2>4. RequestOwes(e) \in [AllRequests -> Nat] /\ RequestFlows \in [AllRequests -> Nat]
      BY WeightTypes
    <2>5. SumOf(Append(requests, NoRequest), RequestOwes(e), asked[e])
            = SumOf(requests, RequestOwes(e), asked[e]) + RequestOwes(e)[NoRequest]
      <3>1. RequestOwes(e)[NoRequest] <= asked[e]
        BY <2>1, <2>3
      <3>2. QED
        BY <2>1, <2>3, <2>4, <3>1, SumAppended
    <2>6. SumOf(Append(requests, NoRequest), RequestFlows, 1)
            = SumOf(requests, RequestFlows, 1) + RequestFlows[NoRequest]
      <3>1. RequestFlows[NoRequest] <= 1 /\ 1 \in Nat /\ NoRequest \in AllRequests
        BY <2>3
      <3>2. QED
        BY <2>1, <2>4, <3>1, SumAppended
    <2>7. /\ SumOf(requests, RequestOwes(e), asked[e]) \in Nat
          /\ SumOf(requests, RequestFlows, 1) \in Nat
      BY <2>1, SumType
    <2>8. /\ SumOf(requests', RequestOwes(e), asked[e]) = SumOf(requests, RequestOwes(e), asked[e])
          /\ SumOf(requests', RequestFlows, 1) = SumOf(requests, RequestFlows, 1)
      BY <1>2, <2>3, <2>5, <2>6, <2>7
    <2>9. replies' = replies /\ fetches' = fetches
      BY DEF PokeStep
    <2>10. QED
      BY <2>8, <2>9 DEF Owed, Flows, Both
  <1>3. QED
    BY <1>1, <1>2 DEF PokeStep

(* An entry that was not made is not in any channel. *)
LEMMA NothingUnmade ==
  ASSUME ShapeInv, NEW e \in Entries, asked[e] = 0
  PROVE  /\ \A i \in DOMAIN requests : ~RequestAbout(requests[i], e)
         /\ \A i \in DOMAIN replies : ~ReplyAbout(replies[i], e)
         /\ \A i \in DOMAIN fetches : fetches[i].entry # e
         /\ \A i \in DOMAIN rows : rows[i].entry # e
  <1>1. ASSUME NEW i \in DOMAIN requests, RequestAbout(requests[i], e)
        PROVE  FALSE
    <2>1. requests[i] \in Requests(asked)
      BY ElementOfSeq DEF ShapeInv
    <2>2. requests[i].job \in Job /\ JobOk(requests[i].op, requests[i].job, asked)
      BY <1>1, <2>1, RequestsAre DEF RequestAbout
    <2>3. requests[i].job.amount \in Nat
      BY <2>2, JobParts
    <2>4. QED
      BY <1>1, <2>2, <2>3 DEF JobOk, RequestAbout
  <1>2. ASSUME NEW i \in DOMAIN replies, ReplyAbout(replies[i], e)
        PROVE  FALSE
    <2>1. replies[i] \in Replies(asked)
      BY ElementOfSeq DEF ShapeInv
    <2>2. replies[i].job \in Job /\ JobOk(replies[i].op, replies[i].job, asked)
      BY <1>2, <2>1, RepliesAre DEF ReplyAbout
    <2>3. replies[i].job.amount \in Nat
      BY <2>2, JobParts
    <2>4. QED
      BY <1>2, <2>2, <2>3 DEF JobOk, ReplyAbout
  <1>3. ASSUME NEW i \in DOMAIN fetches, fetches[i].entry = e
        PROVE  FALSE
    <2>1. fetches[i] \in Waiting(asked)
      BY ElementOfSeq DEF ShapeInv
    <2>2. 0 < fetches[i].amount /\ fetches[i].amount \in Nat /\ fetches[i].amount <= asked[e]
      BY <1>3, <2>1, WaitingAre
    <2>3. QED
      BY <2>2
  <1>4. ASSUME NEW i \in DOMAIN rows, rows[i].entry = e
        PROVE  FALSE
    <2>1. rows[i] \in Rows(asked)
      BY ElementOfSeq DEF ShapeInv
    <2>2. 0 < rows[i].amount /\ rows[i].amount \in Nat /\ rows[i].amount <= asked[e]
      BY <1>4, <2>1 DEF Rows
    <2>3. QED
      BY <2>2
  <1>5. QED
    BY <1>1, <1>2, <1>3, <1>4


(* Whatever bound is taken, messages that owe nothing sum to nothing.      *)
LEMMA NothingOwed ==
  ASSUME NEW e \in Entries, NEW q \in Seq(AllRequests), NEW r \in Seq(AllReplies),
         NEW f \in Seq(Job), NEW b \in Nat,
         \A i \in DOMAIN q : RequestOwes(e)[q[i]] = 0,
         \A i \in DOMAIN r : ReplyOwes(e)[r[i]] = 0,
         \A i \in DOMAIN f : f[i].entry # e
  PROVE  Owed(q, r, e, b) = 0 /\ Awaited(f, e, b) = 0
  <1>1. /\ RequestOwes(e) \in [AllRequests -> Nat] /\ ReplyOwes(e) \in [AllReplies -> Nat]
        /\ FetchOwes(e) \in [Job -> Nat]
    BY WeightTypes
  <1>2. \A i \in DOMAIN f : FetchOwes(e)[f[i]] = 0
    <2> TAKE i \in DOMAIN f
    <2>1. f[i] \in Job /\ f[i].entry # e
      BY ElementOfSeq
    <2>2. QED
      BY <2>1 DEF FetchOwes
  <1>3. SumOf(q, RequestOwes(e), b) = 0
    <2>1. \A i \in DOMAIN q : RequestOwes(e)[q[i]] <= b
      OBVIOUS
    <2>2. QED
      BY <1>1, <2>1, SumIsZero
  <1>4. SumOf(r, ReplyOwes(e), b) = 0
    <2>1. \A i \in DOMAIN r : ReplyOwes(e)[r[i]] <= b
      OBVIOUS
    <2>2. QED
      BY <1>1, <2>1, SumIsZero
  <1>5. SumOf(f, FetchOwes(e), b) = 0
    <2>1. \A i \in DOMAIN f : FetchOwes(e)[f[i]] <= b
      BY <1>2
    <2>2. QED
      BY <1>1, <1>2, <2>1, SumIsZero
  <1>6. QED
    BY <1>3, <1>4, <1>5 DEF Owed, Awaited, Both

LEMMA MakeMoves ==
  ASSUME ShapeInv, NEW E \in SUBSET Entries, MakeStep(E), NEW e \in Entries,
         NEW made, made = asked'
  PROVE  /\ Owed(requests', replies', e, made[e]) = Owed(requests, replies, e, asked[e])
         /\ Awaited(fetches', e, made[e]) = Awaited(fetches, e, asked[e])
         /\ Flows(requests', replies', fetches') = Flows(requests, replies, fetches)
         /\ made[e] \in Nat /\ asked[e] <= made[e]
  <1> DEFINE q == requests'
  <1>1. /\ replies' = replies /\ fetches' = fetches
        /\ made \in [Entries -> Amounts \cup {0}]
        /\ e \in E => asked[e] = 0
        /\ e \notin E => made[e] = asked[e]
        /\ q \in Seq(Requests(made))
        /\ DOMAIN requests \subseteq DOMAIN q
        /\ \A i \in DOMAIN requests : q[i] = requests[i]
        /\ \A i \in DOMAIN q : i \notin DOMAIN requests =>
             q[i].op = "save_row" /\ q[i].job.caller # "Contribution"
    BY DEF MakeStep
  <1> HIDE DEF q
  <1>2. /\ requests \in Seq(AllRequests) /\ replies \in Seq(AllReplies) /\ fetches \in Seq(Job)
        /\ asked[e] \in Nat
    BY ChannelTypes
  <1>3. made \in [Entries -> Nat] /\ made[e] \in Nat
    <2>1. \A a \in Amounts : a \in Nat
      BY AmountsAssumption, Zenon
    <2>2. \A x \in Entries : made[x] \in Nat
      BY <1>1, <2>1
    <2>3. QED
      BY <1>1, <2>2
  <1>4. asked[e] <= made[e]
    BY <1>1, <1>2, <1>3
  <1>5. q \in Seq(AllRequests)
    BY <1>1, SeqMonotonic DEF Requests
  <1>6. /\ RequestOwes(e) \in [AllRequests -> Nat] /\ RequestFlows \in [AllRequests -> Nat]
        /\ ReplyOwes(e) \in [AllReplies -> Nat]
    BY WeightTypes
  <1>7. ASSUME NEW i \in DOMAIN q, i \notin DOMAIN requests
        PROVE  RequestOwes(e)[q[i]] = 0 /\ RequestFlows[q[i]] = 0
    <2>1. q[i] \in Requests(made)
      BY <1>1, ElementOfSeq
    <2>2. q[i].op = "save_row" /\ q[i].job.caller # "Contribution"
      BY <1>1, <1>7
    <2>3. QED
      BY <1>3, <2>1, <2>2, RequestWorth DEF Commits, Resaved, InFlow
  <1>8. ASSUME NEW W \in [AllRequests -> Nat], NEW b \in Nat,
               \A i \in DOMAIN q : i \notin DOMAIN requests => W[q[i]] = 0
        PROVE  SumOf(q, W, b) = SumOf(requests, W, b)
    <2>1. /\ DOMAIN requests \subseteq DOMAIN q /\ \A i \in DOMAIN requests : q[i] = requests[i]
          /\ q \in Seq(AllRequests) /\ requests \in Seq(AllRequests)
      BY <1>1, <1>2, <1>5
    <2>2. QED
      BY <1>8, <2>1, SumPadded, SMTT(60)
  <1>9. Flows(requests', replies', fetches') = Flows(requests, replies, fetches)
    <2>1. SumOf(q, RequestFlows, 1) = SumOf(requests, RequestFlows, 1)
      BY <1>6, <1>7, <1>8
    <2>2. QED
      BY <1>1, <2>1 DEF Flows, Both, q
  <1>10. CASE e \notin E
    <2>1. SumOf(q, RequestOwes(e), asked[e]) = SumOf(requests, RequestOwes(e), asked[e])
      BY <1>2, <1>6, <1>7, <1>8
    <2>2. made[e] = asked[e]
      BY <1>1, <1>10
    <2>3. Owed(q, replies, e, made[e]) = Owed(requests, replies, e, asked[e])
      BY <2>1, <2>2 DEF Owed, Both
    <2>4. Awaited(fetches', e, made[e]) = Awaited(fetches, e, asked[e])
      BY <1>1, <2>2
    <2>5. QED
      BY <1>1, <1>3, <1>4, <1>9, <2>3, <2>4 DEF q
  <1>11. CASE e \in E
    <2>1. asked[e] = 0
      BY <1>1, <1>11
    <2>2. /\ \A i \in DOMAIN requests : ~RequestAbout(requests[i], e)
          /\ \A i \in DOMAIN replies : ~ReplyAbout(replies[i], e)
          /\ \A i \in DOMAIN fetches : fetches[i].entry # e
      BY <2>1, NothingUnmade
    <2>3. \A i \in DOMAIN requests : RequestOwes(e)[requests[i]] = 0
      <3> TAKE i \in DOMAIN requests
      <3>1. requests[i] \in AllRequests /\ ~RequestAbout(requests[i], e)
        BY <1>2, <2>2, ElementOfSeq
      <3>2. QED
        BY <3>1 DEF RequestOwes, RequestAbout, Commits
    <2>4. \A i \in DOMAIN replies : ReplyOwes(e)[replies[i]] = 0
      <3> TAKE i \in DOMAIN replies
      <3>1. replies[i] \in AllReplies /\ ~ReplyAbout(replies[i], e)
        BY <1>2, <2>2, ElementOfSeq
      <3>2. QED
        BY <3>1 DEF ReplyOwes, ReplyAbout, Commits
    <2>5. \A i \in DOMAIN q : RequestOwes(e)[q[i]] = 0
      BY <1>1, <1>7, <2>3
    <2>6. Owed(requests, replies, e, asked[e]) = 0 /\ Awaited(fetches, e, asked[e]) = 0
      BY <1>2, <2>2, <2>3, <2>4, NothingOwed
    <2>7. Owed(q, replies, e, made[e]) = 0 /\ Awaited(fetches, e, made[e]) = 0
      BY <1>2, <1>3, <1>5, <2>2, <2>4, <2>5, NothingOwed
    <2>8. QED
      BY <1>1, <1>3, <1>4, <1>9, <2>6, <2>7 DEF q
  <1>12. QED
    BY <1>10, <1>11

LEMMA RestartMoves ==
  ASSUME ShapeInv, Restart, NEW e \in Entries
  PROVE  /\ Owed(requests', replies', e, asked[e]) = 0
         /\ Awaited(fetches', e, asked[e]) = 0
         /\ Flows(requests', replies', fetches') = 0
  <1>1. requests' = <<>> /\ replies' = <<>> /\ fetches' = <<>>
    BY DEF Restart
  <1>2. Len(<<>>) = 0
    OBVIOUS
  <1>3. QED
    BY <1>1, <1>2, SumOfNone DEF Owed, Awaited, Flows, Both



-----------------------------------------------------------------------------
(* What is paid, owed and waited for is within what the passes allow.      *)

LEMMA ProductGrows ==
  ASSUME NEW a \in Nat, NEW b \in Nat, NEW p \in Nat, a <= b
  PROVE  a * p <= b * p /\ a * (p + 1) = a * p + a /\ a * p \in Nat /\ a * (p + 1) \in Nat
  <1>1. PICK d \in Nat : b = a + d
    <2>1. b - a \in Nat /\ b = a + (b - a)
      OBVIOUS
    <2>2. QED
      BY <2>1
  <1>2. b * p = a * p + d * p
    BY <1>1
  <1>3. a * p \in Nat /\ d * p \in Nat
    OBVIOUS
  <1>4. QED
    BY <1>2, <1>3

LEMMA PassKept ==
  ASSUME ShapeInv, PassInv, QueueStep
  PROVE  PassInv'
  <1> SUFFICES ASSUME NEW e \in Entries
               PROVE  (Committed(e) + Awaited(fetches, e, asked[e]) <= asked[e] * passes[e])'
    BY DEF PassInv
  <1> DEFINE O == Owed(requests, replies, e, asked[e])
             A == Awaited(fetches, e, asked[e])
             P == asked[e] * passes[e]
             made == asked'
             now == passes'
             O2 == Owed(requests', replies', e, made[e])
             A2 == Awaited(fetches', e, made[e])
             P2 == made[e] * now[e]
             pay == paid'[e]
  <1>1. /\ O \in Nat /\ A \in Nat /\ paid[e] \in Nat /\ asked[e] \in Nat /\ passes[e] \in Nat
        /\ paid[e] + O + A <= P
    <2>1. O \in Nat /\ A \in Nat /\ Committed(e) = paid[e] + O
      BY SumsTypes
    <2>2. Committed(e) + A <= P
      BY DEF PassInv
    <2>3. QED
      BY <2>1, <2>2, MadeType
  <1>2. P \in Nat
    BY <1>1, ProductGrows
  <1>3. ShapeInv'
    BY ShapeKept
  <1>4. (Committed(e) + Awaited(fetches, e, asked[e]) <= asked[e] * passes[e])'
          <=> pay + O2 + A2 <= P2
    BY DEF Committed
  <1> DEFINE Goal == pay + O2 + A2 <= P2
  <1> SUFFICES Goal
    BY <1>4
  <1>5. ASSUME pay + O2 + A2 <= paid[e] + O + A, P2 = P,
               pay \in Nat, O2 \in Nat, A2 \in Nat
        PROVE  Goal
    <2> HIDE DEF O, A, P, O2, A2, P2, pay
    <2>1. QED
      BY <1>1, <1>2, <1>5
  <1>6. asked' = asked => O2 = Owed(requests', replies', e, asked[e])
                          /\ A2 = Awaited(fetches', e, asked[e])
    OBVIOUS
  <1>7. asked' = asked /\ passes' = passes => P2 = P
    OBVIOUS
  <1> HIDE DEF P, P2, O2, A2, made, now, Goal
  <1>8. ASSUME NEW E \in SUBSET Entries, MakeStep(E)
        PROVE  Goal
    <2>1. O2 = O /\ A2 = A /\ made[e] \in Nat /\ asked[e] <= made[e]
      BY <1>8, MakeMoves DEF made, O2, A2
    <2>2. pay = paid[e] /\ now = passes
      BY <1>8 DEF MakeStep, now
    <2>3. P <= P2 /\ P2 \in Nat
      <3>1. asked[e] * passes[e] <= made[e] * passes[e] /\ made[e] * passes[e] \in Nat
        BY <1>1, <2>1, ProductGrows
      <3>2. QED
        BY <2>2, <3>1 DEF P, P2
    <2> HIDE DEF O, A, pay
    <2>4. QED
      BY <1>1, <1>2, <2>1, <2>2, <2>3 DEF Goal
  <1>9. ASSUME NEW a \in Replies(asked), DbStep(Head(requests), a)
        PROVE  Goal
    <2>1. /\ pay \in Nat /\ Owed(requests', replies', e, asked[e]) \in Nat
          /\ pay + Owed(requests', replies', e, asked[e]) <= Committed(e)
      BY <1>9, DbMoves
    <2>2. asked' = asked /\ passes' = passes /\ fetches' = fetches
      BY <1>9 DEF DbStep, SaveRowStep, SaveListStep, FindNoneStep, FindStep, ReadListStep,
                  ContributeStep, MarkStep, FailStep, DbFrame
    <2>3. O2 \in Nat /\ pay + O2 <= paid[e] + O /\ A2 = A /\ P2 = P
      BY <1>6, <1>7, <2>1, <2>2, SumsTypes
    <2> HIDE DEF O, A, pay
    <2>4. QED
      BY <1>1, <1>5, <2>1, <2>3
  <1>10. ASSUME NEW m \in Requests(asked), SendStep(m)
        PROVE  Goal
    <2>1. Owed(requests', replies', e, asked[e]) = O
      BY <1>10, SendMoves
    <2>2. asked' = asked /\ passes' = passes /\ fetches' = fetches /\ paid' = paid
      BY <1>10 DEF SendStep, HandlerFrame
    <2>3. O2 = O /\ A2 = A /\ P2 = P /\ pay = paid[e]
      BY <1>6, <1>7, <2>1, <2>2
    <2> HIDE DEF O, A, pay
    <2>4. QED
      BY <1>1, <1>5, <2>3
  <1>11. CASE EndStep
    <2>1. Owed(requests', replies', e, asked[e]) = O
      BY <1>11, EndMoves
    <2>2. asked' = asked /\ passes' = passes /\ fetches' = fetches /\ paid' = paid
      BY <1>11 DEF EndStep, HandlerFrame
    <2>3. O2 = O /\ A2 = A /\ P2 = P /\ pay = paid[e]
      BY <1>6, <1>7, <2>1, <2>2
    <2> HIDE DEF O, A, pay
    <2>4. QED
      BY <1>1, <1>5, <2>3
  <1>12. CASE FetchStep
    <2> DEFINE j == [Head(replies).job EXCEPT !.listed = Head(replies).ok]
    <2>1. /\ j \in Waiting(asked) /\ j.entry = Head(replies).job.entry
          /\ Owed(requests', replies', e, asked[e]) = O
          /\ Awaited(fetches', e, asked[e]) = A + FetchOwes(e)[j]
      BY <1>12, FetchMoves
    <2>2. /\ asked' = asked /\ paid' = paid
          /\ passes' = [passes EXCEPT ![Head(replies).job.entry] = @ + 1]
      BY <1>12 DEF FetchStep, HandlerFrame
    <2> HIDE DEF j
    <2>3. O2 = O /\ A2 = A + FetchOwes(e)[j] /\ pay = paid[e] /\ made = asked
      BY <1>6, <2>1, <2>2 DEF made
    <2>4. asked \in [Entries -> Nat] /\ passes \in [Entries -> Nat]
      BY ChannelTypes DEF ShapeInv
    <2>5. /\ FetchOwes(e)[j] \in Nat /\ FetchOwes(e)[j] <= asked[e]
          /\ FetchOwes(e)[j] = IF j.entry = e THEN j.amount ELSE 0
      BY <2>1, <2>4, FetchWorth
    <2>6. CASE j.entry = e
      <3>1. now[e] = passes[e] + 1
        BY <2>1, <2>2, <2>4, <2>6 DEF now
      <3>2. P2 = P + asked[e]
        <4>1. asked[e] * (passes[e] + 1) = asked[e] * passes[e] + asked[e]
          BY <1>1, ProductGrows
        <4>2. P2 = asked[e] * (passes[e] + 1)
          BY <2>3, <3>1 DEF P2
        <4>3. QED
          BY <4>1, <4>2 DEF P
      <3> HIDE DEF O, A, pay
      <3>3. QED
        BY <1>1, <1>2, <2>3, <2>5, <3>2 DEF Goal
    <2>7. CASE j.entry # e
      <3>1. now[e] = passes[e]
        BY <2>1, <2>2, <2>4, <2>7 DEF now
      <3>2. P2 = P /\ FetchOwes(e)[j] = 0
        BY <2>3, <2>5, <2>7, <3>1 DEF P, P2
      <3> HIDE DEF O, A, pay
      <3>3. QED
        BY <1>1, <1>2, <2>3, <3>2 DEF Goal
    <2>8. QED
      BY <2>6, <2>7
  <1>13. ASSUME NEW i \in DOMAIN fetches, NEW m \in Requests(asked), BalanceStep(i, m)
         PROVE  Goal
    <2>1. /\ Owed(requests', replies', e, asked[e]) = O + RequestOwes(e)[m]
          /\ Awaited(fetches', e, asked[e]) + FetchOwes(e)[fetches[i]] = A
          /\ RequestOwes(e)[m] <= FetchOwes(e)[fetches[i]]
          /\ RequestOwes(e)[m] \in Nat /\ FetchOwes(e)[fetches[i]] \in Nat
          /\ Awaited(fetches', e, asked[e]) \in Nat
      BY <1>13, BalanceMoves
    <2>2. asked' = asked /\ passes' = passes /\ paid' = paid
      BY <1>13 DEF BalanceStep
    <2>3. P2 = P /\ pay = paid[e]
      BY <1>7, <2>2
    <2>4. /\ O2 = O + RequestOwes(e)[m] /\ A2 + FetchOwes(e)[fetches[i]] = A /\ A2 \in Nat
      BY <1>6, <2>1, <2>2
    <2> HIDE DEF O, A, pay
    <2>5. QED
      BY <1>1, <1>5, <2>1, <2>3, <2>4
  <1>14. ASSUME NEW i \in DOMAIN fetches, FetchFailsStep(i)
         PROVE  Goal
    <2>1. /\ Owed(requests', replies', e, asked[e]) = O
          /\ Awaited(fetches', e, asked[e]) <= A /\ Awaited(fetches', e, asked[e]) \in Nat
      BY <1>14, FetchFailsMoves
    <2>2. asked' = asked /\ passes' = passes /\ paid' = paid
      BY <1>14 DEF FetchFailsStep
    <2>3. O2 = O /\ A2 <= A /\ A2 \in Nat /\ P2 = P /\ pay = paid[e]
      BY <1>6, <1>7, <2>1, <2>2
    <2> HIDE DEF O, A, pay
    <2>4. QED
      BY <1>1, <1>5, <2>3
  <1>15. CASE PokeStep
    <2>1. Owed(requests', replies', e, asked[e]) = O
      BY <1>15, PokeMoves
    <2>2. asked' = asked /\ passes' = passes /\ fetches' = fetches /\ paid' = paid
      BY <1>15 DEF PokeStep
    <2>3. O2 = O /\ A2 = A /\ P2 = P /\ pay = paid[e]
      BY <1>6, <1>7, <2>1, <2>2
    <2> HIDE DEF O, A, pay
    <2>4. QED
      BY <1>1, <1>5, <2>3
  <1>16. CASE Restart
    <2>1. Owed(requests', replies', e, asked[e]) = 0 /\ Awaited(fetches', e, asked[e]) = 0
      BY <1>16, RestartMoves
    <2>2. asked' = asked /\ passes' = passes /\ paid' = paid
      BY <1>16 DEF Restart, tables, history
    <2>3. O2 = 0 /\ A2 = 0 /\ P2 = P /\ pay = paid[e]
      BY <1>6, <1>7, <2>1, <2>2
    <2> HIDE DEF O, A, pay
    <2>4. QED
      BY <1>1, <1>5, <2>3
  <1>17. CASE UNCHANGED vars
    <2>1. /\ asked' = asked /\ passes' = passes /\ fetches' = fetches /\ paid' = paid
          /\ requests' = requests /\ replies' = replies
      BY <1>17 DEF vars, tables, history
    <2>2. O2 = O /\ A2 = A /\ P2 = P /\ pay = paid[e]
      BY <1>6, <1>7, <2>1
    <2> HIDE DEF O, A, pay
    <2>3. QED
      BY <1>1, <1>5, <2>2
  <1>18. QED
    BY <1>8, <1>9, <1>10, <1>11, <1>12, <1>13, <1>14, <1>15, <1>16, <1>17 DEF QueueStep



-----------------------------------------------------------------------------
(* Channels, message by message.                                           *)

LEMMA TailAt ==
  ASSUME NEW S, NEW q \in Seq(S), q # <<>>
  PROVE  /\ DOMAIN q = 1..Len(q) /\ Len(q) \in Nat /\ DOMAIN Tail(q) = 1..Len(q) - 1
         /\ 1 \in DOMAIN q /\ Head(q) = q[1] /\ Len(Tail(q)) = Len(q) - 1
         /\ \A i \in DOMAIN Tail(q) : i + 1 \in DOMAIN q /\ i + 1 # 1 /\ Tail(q)[i] = q[i + 1]
         /\ \A i \in DOMAIN q : i # 1 => i - 1 \in DOMAIN Tail(q) /\ Tail(q)[i - 1] = q[i]
  <1>1. DOMAIN q = 1..Len(q) /\ Len(q) \in Nat /\ 1 \in DOMAIN q /\ Head(q) = q[1]
    BY TailRemovesFirst
  <1>2. /\ Tail(q) \in Seq(S) /\ Len(Tail(q)) = Len(q) - 1
        /\ \A i \in 1..Len(Tail(q)) : Tail(q)[i] = q[i + 1]
    BY HeadTailProperties
  <1>3. DOMAIN Tail(q) = 1..Len(q) - 1
    BY <1>2
  <1>4. QED
    BY <1>1, <1>2, <1>3

LEMMA RemovedFrom ==
  ASSUME NEW S, NEW q \in Seq(S), NEW k \in DOMAIN q
  PROVE  /\ \A i \in DOMAIN RemoveAt(q, k) : \E j \in DOMAIN q : j # k /\ RemoveAt(q, k)[i] = q[j]
         /\ \A j \in DOMAIN q : j # k => \E i \in DOMAIN RemoveAt(q, k) : RemoveAt(q, k)[i] = q[j]
  <1>1. /\ DOMAIN q = 1..Len(q) /\ Len(q) \in Nat
        /\ DOMAIN RemoveAt(q, k) = 1..Len(q) - 1
        /\ \A i \in DOMAIN RemoveAt(q, k) : i < k => RemoveAt(q, k)[i] = q[i]
        /\ \A i \in DOMAIN RemoveAt(q, k) : i >= k => RemoveAt(q, k)[i] = q[i + 1]
    BY RemovedAt
  <1>2. ASSUME NEW i \in DOMAIN RemoveAt(q, k)
        PROVE  \E j \in DOMAIN q : j # k /\ RemoveAt(q, k)[i] = q[j]
    <2>1. CASE i < k
      BY <1>1, <2>1
    <2>2. CASE i >= k
      <3>1. i + 1 \in DOMAIN q /\ i + 1 # k /\ RemoveAt(q, k)[i] = q[i + 1]
        BY <1>1, <2>2
      <3>2. QED
        BY <3>1
    <2>3. QED
      BY <1>1, <2>1, <2>2
  <1>3. ASSUME NEW j \in DOMAIN q, j # k
        PROVE  \E i \in DOMAIN RemoveAt(q, k) : RemoveAt(q, k)[i] = q[j]
    <2>1. CASE j < k
      BY <1>1, <2>1
    <2>2. CASE j > k
      <3>1. j - 1 \in DOMAIN RemoveAt(q, k) /\ j - 1 >= k /\ (j - 1) + 1 = j
        BY <1>1, <2>2
      <3>2. QED
        BY <1>1, <3>1
    <2>3. QED
      BY <1>1, <1>3, <2>1, <2>2
  <1>4. QED
    BY <1>2, <1>3

LEMMA AnsweredAt ==
  ASSUME ShapeInv, NEW a \in Replies(asked), DbFrame(a)
  PROVE  /\ 1 \in DOMAIN requests /\ requests[1] = Head(requests)
         /\ \A i \in DOMAIN requests' :
              i + 1 \in DOMAIN requests /\ i + 1 # 1 /\ requests'[i] = requests[i + 1]
         /\ \A i \in DOMAIN requests :
              i # 1 => i - 1 \in DOMAIN requests' /\ requests'[i - 1] = requests[i]
         /\ \A i \in DOMAIN replies : i \in DOMAIN replies' /\ replies'[i] = replies[i]
         /\ \A i \in DOMAIN replies' :
              (i \in DOMAIN replies /\ replies'[i] = replies[i]) \/ replies'[i] = a
         /\ Len(replies) + 1 \in DOMAIN replies' /\ replies'[Len(replies) + 1] = a
  <1>1. /\ requests # <<>> /\ requests' = Tail(requests) /\ replies' = Append(replies, a)
        /\ requests \in Seq(Requests(asked)) /\ replies \in Seq(Replies(asked))
    BY DEF DbFrame, ShapeInv
  <1>2. /\ \A i \in DOMAIN replies : i \in DOMAIN Append(replies, a) /\ Append(replies, a)[i] = replies[i]
        /\ Append(replies, a)[Len(replies) + 1] = a
        /\ DOMAIN Append(replies, a) = 1..Len(replies) + 1 /\ Len(replies) \in Nat
        /\ \A i \in DOMAIN Append(replies, a) : i \in DOMAIN replies \/ i = Len(replies) + 1
    BY <1>1, AppendedAt
  <1>3. /\ 1 \in DOMAIN requests /\ Head(requests) = requests[1]
        /\ \A i \in DOMAIN Tail(requests) :
             i + 1 \in DOMAIN requests /\ i + 1 # 1 /\ Tail(requests)[i] = requests[i + 1]
        /\ \A i \in DOMAIN requests :
             i # 1 => i - 1 \in DOMAIN Tail(requests) /\ Tail(requests)[i - 1] = requests[i]
    BY <1>1, TailAt
  <1>4. QED
    BY <1>1, <1>2, <1>3

LEMMA HandledAt ==
  ASSUME ShapeInv, HandlerFrame
  PROVE  /\ 1 \in DOMAIN replies /\ replies[1] = Head(replies)
         /\ \A i \in DOMAIN replies' :
              i + 1 \in DOMAIN replies /\ i + 1 # 1 /\ replies'[i] = replies[i + 1]
         /\ \A i \in DOMAIN replies :
              i # 1 => i - 1 \in DOMAIN replies' /\ replies'[i - 1] = replies[i]
  <1>1. replies # <<>> /\ replies' = Tail(replies) /\ replies \in Seq(Replies(asked))
    BY DEF HandlerFrame, ShapeInv
  <1>2. QED
    BY <1>1, TailAt

LEMMA PostedAt ==
  ASSUME ShapeInv, NEW m \in Requests(asked), requests' = Append(requests, m)
  PROVE  /\ \A i \in DOMAIN requests : i \in DOMAIN requests' /\ requests'[i] = requests[i]
         /\ \A i \in DOMAIN requests' :
              \/ i \in DOMAIN requests /\ requests'[i] = requests[i]
              \/ i = Len(requests) + 1 /\ requests'[i] = m
         /\ Len(requests) + 1 \in DOMAIN requests' /\ requests'[Len(requests) + 1] = m
         /\ Len(requests) + 1 \notin DOMAIN requests
         /\ \A i \in DOMAIN requests : i < Len(requests) + 1
  <1>1. requests \in Seq(Requests(asked))
    BY DEF ShapeInv
  <1>2. /\ \A i \in DOMAIN requests : i \in DOMAIN Append(requests, m) /\ Append(requests, m)[i] = requests[i]
        /\ Append(requests, m)[Len(requests) + 1] = m
        /\ DOMAIN Append(requests, m) = 1..Len(requests) + 1 /\ Len(requests) \in Nat
        /\ DOMAIN requests = 1..Len(requests)
        /\ \A i \in DOMAIN Append(requests, m) : i \in DOMAIN requests \/ i = Len(requests) + 1
    BY <1>1, AppendedAt
  <1>3. QED
    BY <1>2

LEMMA WaitsAt ==
  ASSUME ShapeInv, NEW j \in Waiting(asked), fetches' = Append(fetches, j)
  PROVE  /\ \A i \in DOMAIN fetches : i \in DOMAIN fetches' /\ fetches'[i] = fetches[i]
         /\ \A i \in DOMAIN fetches' :
              (i \in DOMAIN fetches /\ fetches'[i] = fetches[i]) \/ fetches'[i] = j
         /\ \E i \in DOMAIN fetches' : fetches'[i] = j
  <1>1. fetches \in Seq(Waiting(asked))
    BY DEF ShapeInv
  <1>2. /\ \A i \in DOMAIN fetches : i \in DOMAIN Append(fetches, j) /\ Append(fetches, j)[i] = fetches[i]
        /\ Append(fetches, j)[Len(fetches) + 1] = j
        /\ DOMAIN Append(fetches, j) = 1..Len(fetches) + 1 /\ Len(fetches) \in Nat
        /\ \A i \in DOMAIN Append(fetches, j) : i \in DOMAIN fetches \/ i = Len(fetches) + 1
    BY <1>1, AppendedAt
  <1>3. QED
    BY <1>2

LEMMA FetchedAt ==
  ASSUME ShapeInv, NEW k \in DOMAIN fetches, fetches' = RemoveAt(fetches, k)
  PROVE  /\ \A i \in DOMAIN fetches' : \E j \in DOMAIN fetches : j # k /\ fetches'[i] = fetches[j]
         /\ \A j \in DOMAIN fetches : j # k => \E i \in DOMAIN fetches' : fetches'[i] = fetches[j]
  BY RemovedFrom DEF ShapeInv


(* A message leads to a message about the same entry.                      *)
LEMMA AnswerAbout ==
  ASSUME NEW a, NEW h, DbStep(h, a), NEW e, ReplyAbout(a, e)
  PROVE  \/ RequestAbout(h, e) /\ a.op = h.op /\ a.job = h.job
         \/ \E k \in DOMAIN rows : FindStep(h, a, k) /\ rows[k].entry = e
  <1>1. CASE FindNoneStep(h, a)
    BY <1>1, NothingIn DEF FindNoneStep, ReplyAbout
  <1>2. ASSUME NEW k \in DOMAIN rows, FindStep(h, a, k)
        PROVE  rows[k].entry = e
    <2>1. a.job = NewJob(rows[k].entry, rows[k].amount, "Contribution")
      BY <1>2 DEF FindStep, Reply
    <2>2. QED
      BY <2>1 DEF NewJob, ReplyAbout
  <1>3. CASE a.op = h.op /\ a.job = h.job /\ h.op # "first"
    BY <1>3 DEF ReplyAbout, RequestAbout
  <1>4. CASE FailStep(h, a)
    <2>1. a.op = h.op /\ a.job = h.job /\ a.ok = FALSE
      BY <1>4 DEF FailStep, Reply
    <2>2. QED
      BY <2>1 DEF ReplyAbout, RequestAbout
  <1>5. QED
    <2>1. CASE SaveRowStep(h, a)
      BY <1>3, <2>1 DEF SaveRowStep, Reply
    <2>2. CASE SaveListStep(h, a)
      BY <1>3, <2>2 DEF SaveListStep, Reply
    <2>3. CASE ReadListStep(h, a)
      BY <1>3, <2>3 DEF ReadListStep, Reply
    <2>4. CASE ContributeStep(h, a)
      BY <1>3, <2>4 DEF ContributeStep, Reply
    <2>5. CASE MarkStep(h, a)
      BY <1>3, <2>5 DEF MarkStep, Reply
    <2>6. QED
      BY <1>1, <1>2, <1>4, <2>1, <2>2, <2>3, <2>4, <2>5 DEF DbStep

LEMMA SentAbout ==
  ASSUME NEW made, NEW h \in Replies(made), NEW m, Sends(h, m)
  PROVE  /\ \A e : RequestAbout(m, e) => ReplyAbout(h, e)
         /\ ~Makes(m)
         /\ m.op # "first" => m.job.entry = h.job.entry
         /\ m.op = "save_publishers" <=> h.op = "save_row"
         /\ m.op = "publishers" <=> h.op = "first"
         /\ m.op \in {"save_contribution", "save_row", "mark", "first"}
              <=> h.op \in {"save_publishers", "save_contribution"}
  <1>1. h.op # "first" \/ h.ok => h.job \in Job /\ JobOk(h.op, h.job, made)
    BY RepliesAre
  <1>2. CASE h.op = "save_row" /\ h.ok /\ m = Request("save_publishers", h.job)
    BY <1>2 DEF Request, RequestAbout, ReplyAbout, Makes
  <1>3. CASE h.op = "save_publishers" /\ h.ok /\ h.job.caller = "ContributionTip" /\ m = NoRequest
    BY <1>3, NothingIn DEF RequestAbout, ReplyAbout, Makes
  <1>4. CASE h.op = "save_publishers" /\ h.ok /\ h.job.caller = "Contribution" /\ Continues(h.job, m)
    <2>1. PICK w \in Wallets : m = Request("save_contribution", [h.job EXCEPT !.wallet = w])
      BY <1>4 DEF Continues
    <2> DEFINE moved == [h.job EXCEPT !.wallet = w]
    <2>2. moved.entry = h.job.entry
      BY <1>1, <1>4, JobMoved
    <2>3. m.op = "save_contribution" /\ m.job = moved
      BY <2>1 DEF Request
    <2> HIDE DEF moved
    <2>4. QED
      BY <1>4, <2>2, <2>3 DEF RequestAbout, ReplyAbout, Makes
  <1>5. CASE h.op = "first" /\ h.ok /\ m = Request("publishers", h.job)
    BY <1>5 DEF Request, RequestAbout, ReplyAbout, Makes
  <1>6. CASE /\ h.op = "save_contribution" /\ h.ok /\ Left(h.job) > 0
             /\ m = Request("save_row", [h.job EXCEPT !.amount = Left(h.job)])
    <2>1. h.job \in Job /\ h.job.wallet \in Wallets /\ h.job.caller = "Contribution"
      BY <1>1, <1>6 DEF JobOk
    <2> DEFINE lowered == [h.job EXCEPT !.amount = Left(h.job)]
    <2>2. lowered.entry = h.job.entry /\ lowered.caller = h.job.caller
      BY <2>1, LeftIs, JobLowered
    <2>3. m.op = "save_row" /\ m.job = lowered
      BY <1>6 DEF Request
    <2> HIDE DEF lowered
    <2>4. QED
      BY <1>6, <2>1, <2>2, <2>3 DEF RequestAbout, ReplyAbout, Makes
  <1>7. CASE h.op = "save_contribution" /\ h.ok /\ Left(h.job) = 0 /\ m = Request("mark", h.job)
    BY <1>7 DEF Request, RequestAbout, ReplyAbout, Makes
  <1>8. QED
    BY <1>2, <1>3, <1>4, <1>5, <1>6, <1>7 DEF Sends

(* The entries of the rows, after a transaction.                           *)
LEMMA RowEntries ==
  ASSUME ShapeInv, NEW a \in Replies(asked), NEW h, h = Head(requests), DbStep(h, a)
  PROVE  \A i \in DOMAIN rows' :
           \/ \E j \in DOMAIN rows : rows'[i].entry = rows[j].entry
           \/ h.op = "save_row" /\ rows'[i].entry = h.job.entry
  <1>1. CASE SaveRowStep(h, a)
    <2> DEFINE r == NewRow(h.job)
    <2>1. h \in Requests(asked)
      BY <1>1, HeadsAre DEF SaveRowStep, DbFrame
    <2>2. h.job \in Job /\ JobOk(h.op, h.job, asked)
      BY <1>1, <2>1, RequestsAre DEF SaveRowStep
    <2>3. r \in Rows(asked) /\ r.entry = h.job.entry
      BY <2>2, JobParts DEF JobOk, Rows, NewRow
    <2>4. rows' = Append(OtherRows(r.entry), r)
      BY <1>1, <2>3 DEF SaveRowStep
    <2> HIDE DEF r
    <2>5. \A i \in DOMAIN rows' : rows'[i] = r \/ \E j \in DOMAIN rows : rows'[i] = rows[j]
      BY <2>3, <2>4, RowReplaced
    <2>6. QED
      BY <1>1, <2>3, <2>5 DEF SaveRowStep
  <1>2. CASE MarkStep(h, a)
    <2>1. /\ DOMAIN rows' = DOMAIN rows
          /\ \A i \in DOMAIN rows : rows'[i].entry = rows[i].entry
      BY <1>2, RowsMarked DEF MarkStep
    <2>2. QED
      BY <2>1
  <1>3. CASE rows' = rows
    BY <1>3
  <1>4. QED
    BY <1>1, <1>2, <1>3 DEF DbStep, SaveListStep, FindNoneStep, FindStep, ReadListStep,
                            ContributeStep, FailStep

LEMMA MakerKept ==
  ASSUME ShapeInv, PassInv, MakerInv, QueueStep
  PROVE  MakerInv'
  <1> SUFFICES ASSUME NEW i \in DOMAIN requests', Makes(requests'[i])
               PROVE  /\ \A j \in DOMAIN requests' :
                            RequestAbout(requests'[j], requests'[i].job.entry) => i = j
                      /\ \A j \in DOMAIN replies' : ~ReplyAbout(replies'[j], requests'[i].job.entry)
                      /\ \A j \in DOMAIN fetches' : fetches'[j].entry # requests'[i].job.entry
                      /\ \A j \in DOMAIN rows' : rows'[j].entry # requests'[i].job.entry
                      /\ paid'[requests'[i].job.entry] = 0
    BY DEF MakerInv
  <1> DEFINE e == requests'[i].job.entry
             Goal == /\ \A j \in DOMAIN requests' : RequestAbout(requests'[j], e) => i = j
                     /\ \A j \in DOMAIN replies' : ~ReplyAbout(replies'[j], e)
                     /\ \A j \in DOMAIN fetches' : fetches'[j].entry # e
                     /\ \A j \in DOMAIN rows' : rows'[j].entry # e
                     /\ paid'[e] = 0
  <1> SUFFICES Goal
    OBVIOUS
  <1> DEFINE Alone(k) ==
               /\ \A j \in DOMAIN requests : RequestAbout(requests[j], e) => k = j
               /\ \A j \in DOMAIN replies : ~ReplyAbout(replies[j], e)
               /\ \A j \in DOMAIN fetches : fetches[j].entry # e
               /\ \A j \in DOMAIN rows : rows[j].entry # e
               /\ paid[e] = 0
  <1>1. ASSUME NEW k \in DOMAIN requests, requests'[i] = requests[k]
        PROVE  /\ Alone(k) /\ requests[k] \in Requests(asked) /\ requests[k].job.entry = e
               /\ e \in Entries /\ asked[e] # 0 /\ RequestAbout(requests[k], e)
    <2>1. requests[k] \in Requests(asked) /\ Makes(requests[k]) /\ requests[k].job.entry = e
      BY <1>1, ElementOfSeq DEF ShapeInv
    <2>2. requests[k].op # "first"
      BY <2>1 DEF Makes
    <2>3. requests[k].job \in Job /\ JobOk(requests[k].op, requests[k].job, asked)
      BY <2>1, <2>2, RequestsAre
    <2>4. e \in Entries /\ requests[k].job.amount \in Nat
      BY <2>1, <2>3, JobParts
    <2>5. asked[e] # 0
      BY <2>1, <2>3, <2>4, MadeType DEF JobOk
    <2>6. Alone(k)
      BY <2>1 DEF MakerInv
    <2>7. QED
      BY <2>1, <2>2, <2>4, <2>5, <2>6 DEF RequestAbout
  <1> HIDE DEF e
  <1>2. ASSUME NEW E \in SUBSET Entries, MakeStep(E)
        PROVE  Goal
    <2>1. /\ UNCHANGED <<rows, paid, replies, fetches>>
          /\ \A x \in E : asked[x] = 0
          /\ \A j \in DOMAIN requests : j \in DOMAIN requests' /\ requests'[j] = requests[j]
          /\ \A j \in DOMAIN requests' : j \notin DOMAIN requests =>
               requests'[j].op = "save_row" /\ requests'[j].job.entry \in E
          /\ \A j, k \in DOMAIN requests' :
               j \notin DOMAIN requests /\ k \notin DOMAIN requests
                 /\ requests'[j].job.entry = requests'[k].job.entry => j = k
      BY <1>2 DEF MakeStep
    <2>2. CASE i \in DOMAIN requests
      <3>1. Alone(i) /\ asked[e] # 0
        BY <1>1, <2>1, <2>2
      <3>2. \A j \in DOMAIN requests' : RequestAbout(requests'[j], e) => j \in DOMAIN requests
        BY <2>1, <3>1 DEF RequestAbout
      <3>3. QED
        BY <2>1, <3>1, <3>2
    <2>3. CASE i \notin DOMAIN requests
      <3>1. e \in E /\ e \in Entries /\ asked[e] = 0
        BY <2>1, <2>3 DEF e
      <3>2. /\ \A j \in DOMAIN requests : ~RequestAbout(requests[j], e)
            /\ \A j \in DOMAIN replies : ~ReplyAbout(replies[j], e)
            /\ \A j \in DOMAIN fetches : fetches[j].entry # e
            /\ \A j \in DOMAIN rows : rows[j].entry # e
        BY <3>1, NothingUnmade
      <3>3. paid[e] = 0
        <4>1. Committed(e) + Awaited(fetches, e, asked[e]) <= asked[e] * passes[e]
          BY <3>1 DEF PassInv
        <4>2. asked[e] * passes[e] = 0
          BY <3>1, MadeType
        <4>3. /\ Committed(e) = paid[e] + Owed(requests, replies, e, asked[e])
              /\ Owed(requests, replies, e, asked[e]) \in Nat /\ Awaited(fetches, e, asked[e]) \in Nat
          BY <3>1, SumsTypes
        <4>4. paid[e] \in Nat
          BY <3>1, MadeType
        <4>5. QED
          BY <4>1, <4>2, <4>3, <4>4
      <3>4. \A j \in DOMAIN requests' : RequestAbout(requests'[j], e) => j = i
        <4>1. ASSUME NEW j \in DOMAIN requests', RequestAbout(requests'[j], e)
              PROVE  j = i
          <5>1. j \notin DOMAIN requests /\ requests'[j].job.entry = requests'[i].job.entry
            BY <2>1, <3>2, <4>1 DEF RequestAbout, e
          <5>2. QED
            BY <2>1, <2>3, <5>1
        <4>2. QED
          BY <4>1
      <3>5. QED
        BY <2>1, <3>2, <3>3, <3>4
    <2>4. QED
      BY <2>2, <2>3
  <1>3. ASSUME NEW a \in Replies(asked), DbStep(Head(requests), a)
        PROVE  Goal
    <2> DEFINE h == Head(requests)
    <2>1. DbFrame(a)
      BY <1>3 DEF DbStep, SaveRowStep, SaveListStep, FindNoneStep, FindStep, ReadListStep,
                  ContributeStep, MarkStep, FailStep
    <2>2. /\ 1 \in DOMAIN requests /\ requests[1] = h
          /\ i + 1 \in DOMAIN requests /\ i + 1 # 1 /\ requests'[i] = requests[i + 1]
          /\ \A j \in DOMAIN requests' : j + 1 \in DOMAIN requests /\ requests'[j] = requests[j + 1]
          /\ \A j \in DOMAIN replies' :
               (j \in DOMAIN replies /\ replies'[j] = replies[j]) \/ replies'[j] = a
      BY <2>1, AnsweredAt
    <2>3. Alone(i + 1) /\ e \in Entries
      BY <1>1, <2>2
    <2>4. ~RequestAbout(h, e)
      BY <2>2, <2>3
    <2>5. DOMAIN requests' \subseteq Int
      <3>1. requests' = Tail(requests) /\ requests # <<>> /\ requests \in Seq(Requests(asked))
        BY <2>1 DEF DbFrame, ShapeInv
      <3>2. DOMAIN Tail(requests) = 1..Len(requests) - 1 /\ Len(requests) \in Nat
        BY <3>1, TailAt
      <3>3. QED
        BY <3>1, <3>2
    <2>6. \A j \in DOMAIN requests' : RequestAbout(requests'[j], e) => i = j
      BY <2>2, <2>3, <2>5
    <2>7. ~ReplyAbout(a, e)
      BY <1>3, <2>3, <2>4, AnswerAbout
    <2>8. \A j \in DOMAIN rows' : rows'[j].entry # e
      <3>1. \A j \in DOMAIN rows' :
              \/ \E k \in DOMAIN rows : rows'[j].entry = rows[k].entry
              \/ h.op = "save_row" /\ rows'[j].entry = h.job.entry
        BY <1>3, RowEntries
      <3>2. QED
        BY <2>3, <2>4, <3>1 DEF RequestAbout
    <2>9. paid'[e] = 0
      <3>1. CASE ContributeStep(h, a)
        <4>1. /\ paid' = [paid EXCEPT ![h.job.entry] = @ + (h.job.amount - Left(h.job))]
              /\ h.op = "save_contribution"
          BY <3>1 DEF ContributeStep
        <4>2. h.job.entry # e
          BY <2>4, <4>1 DEF RequestAbout
        <4>3. paid'[e] = paid[e]
          BY <2>3, <4>1, <4>2 DEF ShapeInv
        <4>4. QED
          BY <2>3, <4>3
      <3>2. CASE paid' = paid
        BY <2>3, <3>2
      <3>3. QED
        BY <1>3, <3>1, <3>2 DEF DbStep, SaveRowStep, SaveListStep, FindNoneStep, FindStep,
                                ReadListStep, MarkStep, FailStep
    <2>10. fetches' = fetches
      BY <2>1 DEF DbFrame
    <2>11. QED
      BY <2>2, <2>3, <2>6, <2>7, <2>8, <2>9, <2>10
  <1>4. ASSUME NEW m \in Requests(asked), SendStep(m)
        PROVE  Goal
    <2> DEFINE h == Head(replies)
    <2>1. /\ HandlerFrame /\ Sends(h, m) /\ replies # <<>> /\ requests' = Append(requests, m)
          /\ UNCHANGED <<rows, paid, fetches>>
      BY <1>4 DEF SendStep, HandlerFrame
    <2>2. /\ 1 \in DOMAIN replies /\ replies[1] = h
          /\ \A j \in DOMAIN replies' : j + 1 \in DOMAIN replies /\ replies'[j] = replies[j + 1]
      BY <2>1, HandledAt
    <2>3. \A j \in DOMAIN requests' :
            \/ j \in DOMAIN requests /\ requests'[j] = requests[j]
            \/ j = Len(requests) + 1 /\ requests'[j] = m
      BY <2>1, PostedAt
    <2>4. h \in Replies(asked)
      BY <2>1, HeadsAre
    <2>5. ~Makes(m) /\ (RequestAbout(m, e) => ReplyAbout(h, e))
      BY <2>1, <2>4, SentAbout
    <2>6. i \in DOMAIN requests /\ requests'[i] = requests[i]
      BY <2>3, <2>5
    <2>7. Alone(i)
      BY <1>1, <2>6
    <2>8. ~RequestAbout(m, e)
      BY <2>2, <2>5, <2>7
    <2>9. \A j \in DOMAIN requests' : RequestAbout(requests'[j], e) => i = j
      BY <2>3, <2>7, <2>8
    <2>10. \A j \in DOMAIN replies' : ~ReplyAbout(replies'[j], e)
      BY <2>2, <2>7
    <2>11. QED
      BY <2>1, <2>7, <2>9, <2>10
  <1>5. CASE EndStep
    <2>1. HandlerFrame /\ UNCHANGED <<rows, paid, fetches, requests>>
      BY <1>5 DEF EndStep, HandlerFrame
    <2>2. \A j \in DOMAIN replies' : j + 1 \in DOMAIN replies /\ replies'[j] = replies[j + 1]
      BY <2>1, HandledAt
    <2>3. Alone(i)
      BY <1>1, <2>1
    <2>4. \A j \in DOMAIN replies' : ~ReplyAbout(replies'[j], e)
      BY <2>2, <2>3
    <2>5. QED
      BY <2>1, <2>3, <2>4
  <1>6. CASE FetchStep
    <2> DEFINE h == Head(replies)
               j0 == [h.job EXCEPT !.listed = h.ok]
    <2>1. /\ HandlerFrame /\ UNCHANGED <<rows, paid, requests>> /\ h.op = "publishers"
          /\ fetches' = Append(fetches, j0)
      BY <1>6 DEF FetchStep, HandlerFrame
    <2>2. /\ 1 \in DOMAIN replies /\ replies[1] = h
          /\ \A j \in DOMAIN replies' : j + 1 \in DOMAIN replies /\ replies'[j] = replies[j + 1]
      BY <2>1, HandledAt
    <2>3. Alone(i) /\ e \in Entries
      BY <1>1, <2>1
    <2>4. \A j \in DOMAIN replies' : ~ReplyAbout(replies'[j], e)
      BY <2>2, <2>3
    <2>5. j0 \in Waiting(asked) /\ j0.entry = h.job.entry
      BY <1>6, <2>3, FetchMoves
    <2> HIDE DEF j0
    <2>6. j0.entry # e
      BY <2>1, <2>2, <2>3, <2>5 DEF ReplyAbout
    <2>7. \A j \in DOMAIN fetches' : (j \in DOMAIN fetches /\ fetches'[j] = fetches[j]) \/ fetches'[j] = j0
      BY <2>1, <2>5, WaitsAt
    <2>8. QED
      BY <2>1, <2>3, <2>4, <2>6, <2>7
  <1>7. ASSUME NEW k \in DOMAIN fetches, NEW m \in Requests(asked), BalanceStep(k, m)
        PROVE  Goal
    <2>1. /\ fetches' = RemoveAt(fetches, k) /\ requests' = Append(requests, m)
          /\ UNCHANGED <<rows, paid, replies>>
          /\ m.job.entry = fetches[k].entry /\ m.op \in {"mark", "save_contribution"}
      BY <1>7 DEF BalanceStep
    <2>2. \A j \in DOMAIN requests' :
            \/ j \in DOMAIN requests /\ requests'[j] = requests[j]
            \/ j = Len(requests) + 1 /\ requests'[j] = m
      BY <2>1, PostedAt
    <2>3. \A j \in DOMAIN fetches' : \E l \in DOMAIN fetches : fetches'[j] = fetches[l]
      BY <2>1, FetchedAt
    <2>4. i \in DOMAIN requests /\ requests'[i] = requests[i]
      BY <2>1, <2>2 DEF Makes
    <2>5. Alone(i)
      BY <1>1, <2>4
    <2>6. ~RequestAbout(m, e)
      BY <2>1, <2>5 DEF RequestAbout
    <2>7. \A j \in DOMAIN requests' : RequestAbout(requests'[j], e) => i = j
      BY <2>2, <2>5, <2>6
    <2>8. QED
      BY <2>1, <2>3, <2>5, <2>7
  <1>8. ASSUME NEW k \in DOMAIN fetches, FetchFailsStep(k)
        PROVE  Goal
    <2>1. /\ fetches' = RemoveAt(fetches, k) /\ UNCHANGED <<rows, paid, replies, requests>>
      BY <1>8 DEF FetchFailsStep
    <2>2. \A j \in DOMAIN fetches' : \E l \in DOMAIN fetches : fetches'[j] = fetches[l]
      BY <2>1, FetchedAt
    <2>3. Alone(i)
      BY <1>1, <2>1
    <2>4. QED
      BY <2>1, <2>2, <2>3
  <1>9. CASE PokeStep
    <2>1. UNCHANGED <<rows, paid, replies, fetches>>
      BY <1>9 DEF PokeStep
    <2>2. CASE requests' = requests
      <3>1. Alone(i)
        BY <1>1, <2>2
      <3>2. QED
        BY <2>1, <2>2, <3>1
    <2>3. CASE requests' = Append(requests, NoRequest)
      <3>1. NoRequest \in Requests(asked) /\ NoRequest.op = "first"
        BY NothingIn
      <3>2. \A j \in DOMAIN requests' :
              \/ j \in DOMAIN requests /\ requests'[j] = requests[j]
              \/ j = Len(requests) + 1 /\ requests'[j] = NoRequest
        BY <2>3, <3>1, PostedAt
      <3>3. i \in DOMAIN requests /\ requests'[i] = requests[i]
        BY <3>1, <3>2 DEF Makes
      <3>4. Alone(i)
        BY <1>1, <3>3
      <3>5. \A j \in DOMAIN requests' : RequestAbout(requests'[j], e) => i = j
        BY <3>1, <3>2, <3>4 DEF RequestAbout
      <3>6. QED
        BY <2>1, <3>4, <3>5
    <2>4. QED
      BY <1>9, <2>2, <2>3 DEF PokeStep
  <1>10. CASE Restart
    <2>1. requests' = <<>>
      BY <1>10 DEF Restart
    <2>2. i \in DOMAIN <<>>
      BY <2>1
    <2>3. QED
      BY <2>2
  <1>11. CASE UNCHANGED vars
    <2>1. UNCHANGED <<rows, paid, replies, fetches, requests>>
      BY <1>11 DEF vars, tables
    <2>2. Alone(i)
      BY <1>1, <2>1
    <2>3. QED
      BY <2>1, <2>2
  <1>12. QED
    BY <1>2, <1>3, <1>4, <1>5, <1>6, <1>7, <1>8, <1>9, <1>10, <1>11 DEF QueueStep



-----------------------------------------------------------------------------
(* The flows: one for each message that carries an entry being processed.  *)

LEMMA FlowTypes ==
  /\ RequestFlows \in [AllRequests -> Nat] /\ ReplyFlows \in [AllReplies -> Nat]
  /\ \A m \in AllRequests : RequestFlows[m] = IF InFlow(m) THEN 1 ELSE 0
  /\ \A m \in AllReplies : ReplyFlows[m] = IF InFlowReply(m) THEN 1 ELSE 0
  BY DEF RequestFlows, ReplyFlows

LEMMA ProcessingIs ==
  ASSUME ShapeInv
  PROVE  /\ Processing <=> Flows(requests, replies, fetches) # 0
         /\ Flows(requests, replies, fetches) \in Nat
  <1> DEFINE V == RequestFlows
             W == ReplyFlows
             x == SumOf(requests, V, 1)
             y == SumOf(replies, W, 1)
  <1>1. requests \in Seq(AllRequests) /\ replies \in Seq(AllReplies) /\ fetches \in Seq(Job)
    BY ChannelTypes
  <1>2. /\ \A i \in DOMAIN requests : V[requests[i]] = IF InFlow(requests[i]) THEN 1 ELSE 0
        /\ \A i \in DOMAIN replies : W[replies[i]] = IF InFlowReply(replies[i]) THEN 1 ELSE 0
    BY <1>1, ElementOfSeq, FlowTypes
  <1>3. V \in [AllRequests -> Nat] /\ W \in [AllReplies -> Nat] /\ 1 \in Nat
    BY FlowTypes
  <1> HIDE DEF V, W
  <1>4. x = 0 <=> \A i \in DOMAIN requests : ~InFlow(requests[i])
    <2>1. \A i \in DOMAIN requests : V[requests[i]] <= 1
      BY <1>2
    <2>2. x = 0 <=> \A i \in DOMAIN requests : V[requests[i]] = 0
      BY <1>1, <1>3, <2>1, SumIsZero
    <2>3. QED
      BY <1>2, <2>2
  <1>5. y = 0 <=> \A i \in DOMAIN replies : ~InFlowReply(replies[i])
    <2>1. \A i \in DOMAIN replies : W[replies[i]] <= 1
      BY <1>2
    <2>2. y = 0 <=> \A i \in DOMAIN replies : W[replies[i]] = 0
      BY <1>1, <1>3, <2>1, SumIsZero
    <2>3. QED
      BY <1>2, <2>2
  <1>6. x \in Nat /\ y \in Nat /\ Len(fetches) \in Nat
    BY <1>1, <1>3, SumType, LenProperties
  <1>7. fetches = <<>> <=> Len(fetches) = 0
    BY <1>1, EmptySeq
  <1>8. Flows(requests, replies, fetches) = x + y + Len(fetches)
    BY DEF Flows, Both, V, W
  <1> HIDE DEF x, y
  <1>9. Flows(requests, replies, fetches) # 0 <=> x # 0 \/ y # 0 \/ Len(fetches) # 0
    BY <1>6, <1>8
  <1>10. QED
    BY <1>4, <1>5, <1>6, <1>7, <1>8, <1>9 DEF Processing, InFlowReply

LEMMA NoEntries ==
  ASSUME ShapeInv, Entries = {}
  PROVE  ~Processing
  <1>1. Job = {}
    BY DEF Job
  <1>2. \A i \in DOMAIN requests : ~InFlow(requests[i])
    <2> TAKE i \in DOMAIN requests
    <2>1. requests[i] \in Requests(asked)
      BY ElementOfSeq DEF ShapeInv
    <2>2. requests[i].op = "first"
      BY <1>1, <2>1, RequestsAre
    <2>3. QED
      BY <2>2 DEF InFlow
  <1>3. \A i \in DOMAIN replies : ~InFlowReply(replies[i])
    <2> TAKE i \in DOMAIN replies
    <2>1. replies[i] \in Replies(asked)
      BY ElementOfSeq DEF ShapeInv
    <2>2. replies[i].op = "first" /\ ~replies[i].ok
      BY <1>1, <2>1, RepliesAre
    <2>3. QED
      BY <2>2 DEF InFlow, InFlowReply
  <1>4. fetches = <<>>
    <2>1. fetches \in Seq(Job)
      BY ChannelTypes
    <2>2. fetches # <<>> => Head(fetches) \in Job
      BY <2>1
    <2>3. QED
      BY <1>1, <2>2
  <1>5. QED
    BY <1>2, <1>3, <1>4 DEF Processing, InFlowReply

LEMMA FlowsNext ==
  (ShapeInv => /\ Processing <=> Flows(requests, replies, fetches) # 0
               /\ Flows(requests, replies, fetches) \in Nat)'
  <1>1. ShapeInv => /\ Processing <=> Flows(requests, replies, fetches) # 0
                    /\ Flows(requests, replies, fetches) \in Nat
    BY ProcessingIs
  <1>2. QED
    BY <1>1, PTL

LEMMA NoEntriesNext ==
  (ShapeInv /\ Entries = {} => ~Processing)'
  <1>1. ShapeInv /\ Entries = {} => ~Processing
    BY NoEntries
  <1>2. QED
    BY <1>1, PTL

(* No flow appears but by finding an entry, and the flag is lowered by the *)
(* one that ends.                                                          *)
LEMMA FlowsMove ==
  ASSUME ShapeInv, QueueStep
  PROVE  LET F == Flows(requests, replies, fetches)
             F2 == Flows(requests', replies', fetches')
         IN /\ F \in Nat /\ F2 \in Nat
            /\ \/ F2 <= F
               \/ F2 = F + 1 /\ \E a \in Replies(asked), k \in DOMAIN rows :
                                   FindStep(Head(requests), a, k)
            /\ SavesAnswered /\ inProgress' => F2 > 0 \/ (inProgress /\ F2 >= F)
  <1> DEFINE F == Flows(requests, replies, fetches)
             F2 == Flows(requests', replies', fetches')
             Found == \E a \in Replies(asked), k \in DOMAIN rows : FindStep(Head(requests), a, k)
             Goal == /\ F \in Nat /\ F2 \in Nat
                     /\ F2 <= F \/ (F2 = F + 1 /\ Found)
                     /\ SavesAnswered /\ inProgress' => F2 > 0 \/ (inProgress /\ F2 >= F)
  <1> SUFFICES Goal
    OBVIOUS
  <1>1. F \in Nat
    BY ProcessingIs
  <1>2. F2 \in Nat
    <2>1. ShapeInv'
      BY ShapeKept
    <2>2. QED
      BY <2>1, FlowsNext
  <1>3. ASSUME F2 = F, inProgress' = inProgress
        PROVE  Goal
    <2> HIDE DEF F, F2, Found
    <2>1. QED
      BY <1>1, <1>2, <1>3
  <1>4. CASE Entries = {}
    <2>1. F = 0
      BY <1>4, NoEntries, ProcessingIs
    <2>2. F2 = 0
      <3>1. ShapeInv'
        BY ShapeKept
      <3>2. QED
        BY <1>4, <3>1, NoEntriesNext, FlowsNext
    <2>3. inProgress' => inProgress
      <3>1. ~FetchStep
        <4>1. SUFFICES ASSUME FetchStep
                       PROVE  FALSE
          OBVIOUS
        <4>2. Head(replies) \in Replies(asked) /\ Head(replies).op = "publishers"
          BY <4>1, HeadsAre DEF FetchStep, HandlerFrame
        <4>3. Head(replies).job.entry \in Entries
          BY <4>2, RepliesAre, JobParts
        <4>4. QED
          BY <1>4, <4>3
      <3>2. QED
        BY <3>1 DEF QueueStep, MakeStep, DbStep, SaveRowStep, SaveListStep, FindNoneStep,
             FindStep, ReadListStep, ContributeStep, MarkStep, FailStep, DbFrame, SendStep,
             HandlerFrame, EndStep, BalanceStep, FetchFailsStep, PokeStep, Restart, vars
    <2> HIDE DEF F, F2, Found
    <2>4. QED
      BY <1>1, <1>2, <2>1, <2>2, <2>3
  <1>5. ASSUME NEW e \in Entries
        PROVE  Goal
    <2>1. ASSUME NEW E \in SUBSET Entries, MakeStep(E)
          PROVE  Goal
      <3> DEFINE made == asked'
      <3> HIDE DEF made
      <3>1. F2 = F
        <4>1. made = asked'
          BY DEF made
        <4>2. QED
          BY <1>5, <2>1, <4>1, MakeMoves
      <3>2. inProgress' = inProgress
        BY <2>1 DEF MakeStep
      <3>3. QED
        BY <1>3, <3>1, <3>2
    <2>2. ASSUME NEW a \in Replies(asked), DbStep(Head(requests), a)
          PROVE  Goal
      <3>1. F2 = F \/ (F2 = F + 1 /\ \E k \in DOMAIN rows : FindStep(Head(requests), a, k))
        BY <1>5, <2>2, DbMoves
      <3>2. F2 = F \/ (F2 = F + 1 /\ Found)
        BY <3>1
      <3>3. inProgress' = inProgress
        BY <2>2 DEF DbStep, SaveRowStep, SaveListStep, FindNoneStep, FindStep, ReadListStep,
                    ContributeStep, MarkStep, FailStep, DbFrame
      <3> HIDE DEF F, F2, Found
      <3>4. QED
        BY <1>1, <1>2, <3>2, <3>3
    <2>3. ASSUME NEW m \in Requests(asked), SendStep(m)
          PROVE  Goal
      <3>1. F2 = F
        BY <1>5, <2>3, SendMoves
      <3>2. inProgress' = inProgress
        BY <2>3 DEF SendStep
      <3>3. QED
        BY <1>3, <3>1, <3>2
    <2>4. CASE EndStep
      <3> DEFINE h == Head(replies)
                 u == ReplyFlows[h]
      <3>1. F2 + u = F /\ u \in Nat
        BY <1>5, <2>4, EndMoves
      <3>2. /\ HandlerFrame /\ Ends(h)
            /\ inProgress' = IF h.op \in {"first", "mark"} THEN FALSE ELSE inProgress
        BY <2>4 DEF EndStep
      <3>3. h \in Replies(asked) /\ 1 \in DOMAIN replies /\ h = replies[1]
        BY <3>2, HeadsAre DEF HandlerFrame
      <3>4. h \in AllReplies
        BY <3>3, RepliesAre
      <3>5. u = IF InFlowReply(h) THEN 1 ELSE 0
        BY <3>4, FlowTypes
      <3>6. SavesAnswered /\ inProgress' => inProgress /\ u = 0
        <4>1. SUFFICES ASSUME SavesAnswered, inProgress'
                       PROVE  inProgress /\ u = 0
          OBVIOUS
        <4>2. inProgress /\ h.op \notin {"first", "mark"}
          BY <3>2, <4>1
        <4>3. h.op \in {"save_row", "save_publishers", "save_contribution"} => h.ok
          BY <3>3, <4>1 DEF SavesAnswered
        <4>4. h.op = "save_publishers" /\ h.job.caller # "Contribution"
          BY <3>2, <4>2, <4>3 DEF Ends
        <4>5. ~InFlowReply(h)
          BY <4>4 DEF InFlowReply, InFlow
        <4>6. QED
          BY <3>5, <4>2, <4>5
      <3> HIDE DEF F, F2, u, h, Found
      <3>7. QED
        BY <1>1, <1>2, <3>1, <3>6
    <2>5. CASE FetchStep
      <3>1. F2 = F /\ F2 > 0
        BY <1>5, <2>5, FetchMoves
      <3> HIDE DEF F, F2, Found
      <3>2. QED
        BY <1>1, <3>1
    <2>6. ASSUME NEW i \in DOMAIN fetches, NEW m \in Requests(asked), BalanceStep(i, m)
          PROVE  Goal
      <3>1. F2 = F /\ F2 > 0
        BY <1>5, <2>6, BalanceMoves
      <3> HIDE DEF F, F2, Found
      <3>2. QED
        BY <1>1, <3>1
    <2>7. ASSUME NEW i \in DOMAIN fetches, FetchFailsStep(i)
          PROVE  Goal
      <3>1. F2 + 1 = F
        BY <1>5, <2>7, FetchFailsMoves
      <3>2. inProgress' = FALSE
        BY <2>7 DEF FetchFailsStep
      <3> HIDE DEF F, F2, Found
      <3>3. QED
        BY <1>1, <1>2, <3>1, <3>2
    <2>8. CASE PokeStep
      <3>1. F2 = F
        BY <1>5, <2>8, PokeMoves
      <3>2. inProgress' = inProgress
        BY <2>8 DEF PokeStep
      <3>3. QED
        BY <1>3, <3>1, <3>2
    <2>9. CASE Restart
      <3>1. F2 = 0
        BY <1>5, <2>9, RestartMoves
      <3>2. inProgress' = FALSE
        BY <2>9 DEF Restart
      <3> HIDE DEF F, F2, Found
      <3>3. QED
        BY <1>1, <3>1, <3>2
    <2>10. CASE UNCHANGED vars
      <3>1. F2 = F /\ inProgress' = inProgress
        BY <2>10 DEF vars
      <3>2. QED
        BY <1>3, <3>1
    <2>11. QED
      BY <2>1, <2>2, <2>3, <2>4, <2>5, <2>6, <2>7, <2>8, <2>9, <2>10 DEF QueueStep
  <1>6. QED
    BY <1>4, <1>5


(* Failures and crashes are counted, and never forgotten.                  *)
LEMMA ErrorsGrow ==
  ASSUME ShapeInv, QueueStep
  PROVE  /\ dbErrors' = 0 => dbErrors = 0 /\ \A a \in Replies(asked) : ~FailStep(Head(requests), a)
         /\ crashes' = 0 => crashes = 0 /\ ~Restart
         /\ ~overlapped' => ~overlapped
  <1>1. dbErrors \in Nat /\ crashes \in Nat
    BY BoundsAssumption DEF ShapeInv
  <1>2. \A a \in Replies(asked) : FailStep(Head(requests), a) => dbErrors' # 0
    BY <1>1 DEF FailStep
  <1>3. Restart => crashes' # 0
    BY <1>1 DEF Restart
  <1>4. dbErrors' = dbErrors \/ \E a \in Replies(asked) : FailStep(Head(requests), a)
    BY DEF QueueStep, MakeStep, DbStep, SaveRowStep, SaveListStep, FindNoneStep,
             FindStep, ReadListStep, ContributeStep, MarkStep, SendStep,
             HandlerFrame, EndStep, FetchStep, BalanceStep, FetchFailsStep, PokeStep, Restart,
             vars, bounds
  <1>5. crashes' = crashes \/ Restart
    BY DEF QueueStep, MakeStep, DbStep, SaveRowStep, SaveListStep, FindNoneStep,
             FindStep, ReadListStep, ContributeStep, MarkStep, FailStep, DbFrame, SendStep,
             HandlerFrame, EndStep, FetchStep, BalanceStep, FetchFailsStep, PokeStep,
             vars, bounds
  <1>6. overlapped => overlapped'
    BY DEF QueueStep, MakeStep, DbStep, SaveRowStep, SaveListStep, FindNoneStep,
             FindStep, ReadListStep, ContributeStep, MarkStep, FailStep, SendStep,
             HandlerFrame, EndStep, FetchStep, BalanceStep, FetchFailsStep, PokeStep, Restart,
             vars, history
  <1>7. QED
    BY <1>2, <1>3, <1>4, <1>5, <1>6

LEMMA FlagKept ==
  ASSUME ShapeInv, FlagInv, QueueStep
  PROVE  FlagInv'
  <1> SUFFICES ASSUME dbErrors' = 0
               PROVE  /\ SavesAnswered'
                      /\ inProgress' => Flows(requests', replies', fetches') > 0
    BY DEF FlagInv
  <1>1. dbErrors = 0 /\ \A a \in Replies(asked) : ~FailStep(Head(requests), a)
    BY ErrorsGrow
  <1>2. SavesAnswered /\ (inProgress => Flows(requests, replies, fetches) > 0)
    BY <1>1 DEF FlagInv
  <1>3. inProgress' => Flows(requests', replies', fetches') > 0
    <2> DEFINE F == Flows(requests, replies, fetches)
               F2 == Flows(requests', replies', fetches')
    <2>1. F \in Nat /\ F2 \in Nat /\ (SavesAnswered /\ inProgress' => F2 > 0 \/ (inProgress /\ F2 >= F))
      BY FlowsMove
    <2>2. inProgress => F > 0
      BY <1>2
    <2> HIDE DEF F, F2
    <2>3. inProgress' => F2 > 0
      BY <1>2, <2>1, <2>2
    <2>4. QED
      BY <2>3 DEF F2
  <1>4. \A i \in DOMAIN replies :
          replies[i].op \in {"save_row", "save_publishers", "save_contribution"} => replies[i].ok
    BY <1>2 DEF SavesAnswered
  <1>5. ASSUME NEW i \in DOMAIN replies',
               replies'[i].op \in {"save_row", "save_publishers", "save_contribution"}
        PROVE  replies'[i].ok
    <2>1. CASE replies' = replies
      BY <1>4, <1>5, <2>1
    <2>2. CASE HandlerFrame
      BY <1>4, <1>5, <2>2, HandledAt
    <2>3. ASSUME NEW a \in Replies(asked), DbStep(Head(requests), a)
          PROVE  replies'[i].ok
      <3>1. DbFrame(a)
        BY <2>3 DEF DbStep, SaveRowStep, SaveListStep, FindNoneStep, FindStep, ReadListStep,
                    ContributeStep, MarkStep, FailStep
      <3>2. (i \in DOMAIN replies /\ replies'[i] = replies[i]) \/ replies'[i] = a
        BY <3>1, AnsweredAt
      <3>3. a.op \in {"save_row", "save_publishers", "save_contribution"} => a.ok
        <4>1. ~FailStep(Head(requests), a)
          BY <1>1
        <4>2. NoRow.op = "first"
          BY DEF NoRow, Reply
        <4>3. /\ SaveRowStep(Head(requests), a) => a.ok = TRUE
              /\ SaveListStep(Head(requests), a) => a.ok = TRUE
              /\ FindNoneStep(Head(requests), a) => a.op = "first"
              /\ (\E k \in DOMAIN rows : FindStep(Head(requests), a, k)) => a.op = "first"
              /\ ReadListStep(Head(requests), a) => a.op = "publishers"
              /\ ContributeStep(Head(requests), a) => a.ok = TRUE
              /\ MarkStep(Head(requests), a) => a.ok = TRUE
          BY <4>2 DEF SaveRowStep, SaveListStep, FindNoneStep, FindStep,
                      ReadListStep, ContributeStep, MarkStep, Reply
        <4>4. QED
          BY <2>3, <4>1, <4>3 DEF DbStep
      <3>4. QED
        BY <1>4, <1>5, <3>2, <3>3
    <2>4. CASE Restart
      <3>1. replies' = <<>>
        BY <2>4 DEF Restart
      <3>2. i \in DOMAIN <<>>
        BY <3>1
      <3>3. QED
        BY <3>2
    <2>5. QED
      BY <2>1, <2>2, <2>3, <2>4 DEF QueueStep, MakeStep, SendStep, EndStep, FetchStep,
           BalanceStep, FetchFailsStep, PokeStep, vars
  <1>6. SavesAnswered'
    BY <1>5 DEF SavesAnswered
  <1>7. QED
    BY <1>3, <1>6

(* Two messages of a channel worth something are worth their sum.          *)
LEMMA TwoInChannel ==
  ASSUME NEW S, NEW q \in Seq(S), NEW W \in [S -> Nat], NEW i \in DOMAIN q, NEW j \in DOMAIN q,
         W[q[i]] = 1, W[q[j]] = 1, i # j
  PROVE  SumOf(q, W, 1) >= 2
  <1>1. SumOf(q, W, 1) = SumOf(RemoveAt(q, i), W, 1) + W[q[i]]
    BY SumRemoved
  <1>2. RemoveAt(q, i) \in Seq(S)
    BY RemovedAt
  <1>3. PICK k \in DOMAIN RemoveAt(q, i) : RemoveAt(q, i)[k] = q[j]
    BY RemovedFrom
  <1> DEFINE p == RemoveAt(q, i)
  <1> HIDE DEF p
  <1>4. W[p[k]] <= SumOf(p, W, 1) /\ SumOf(p, W, 1) \in Nat
    <2>1. p \in Seq(S) /\ k \in DOMAIN p /\ W[p[k]] <= 1 /\ 1 \in Nat
      BY <1>2, <1>3 DEF p
    <2>2. QED
      BY <2>1, SumAtLeast
  <1>5. W[p[k]] = 1
    BY <1>3 DEF p
  <1>6. SumOf(q, W, 1) = SumOf(p, W, 1) + 1
    BY <1>1 DEF p
  <1>7. QED
    BY <1>4, <1>5, <1>6

(* With one flow at most, a message that carries it is alone.              *)
LEMMA FlowAlone ==
  ASSUME ShapeInv, Flows(requests, replies, fetches) <= 1
  PROVE  /\ \A i \in DOMAIN requests : InFlow(requests[i]) =>
              /\ \A j \in DOMAIN requests : InFlow(requests[j]) => i = j
              /\ \A j \in DOMAIN replies : ~InFlowReply(replies[j])
              /\ DOMAIN fetches = {}
         /\ \A i \in DOMAIN replies : InFlowReply(replies[i]) =>
              /\ \A j \in DOMAIN requests : ~InFlow(requests[j])
              /\ \A j \in DOMAIN replies : InFlowReply(replies[j]) => i = j
              /\ DOMAIN fetches = {}
         /\ \A i \in DOMAIN fetches :
              /\ \A j \in DOMAIN requests : ~InFlow(requests[j])
              /\ \A j \in DOMAIN replies : ~InFlowReply(replies[j])
              /\ \A j \in DOMAIN fetches : i = j
  <1> DEFINE V == RequestFlows
             W == ReplyFlows
             x == SumOf(requests, V, 1)
             y == SumOf(replies, W, 1)
             n == Len(fetches)
  <1>1. requests \in Seq(AllRequests) /\ replies \in Seq(AllReplies) /\ fetches \in Seq(Job)
    BY ChannelTypes
  <1>2. /\ \A i \in DOMAIN requests : V[requests[i]] = IF InFlow(requests[i]) THEN 1 ELSE 0
        /\ \A i \in DOMAIN replies : W[replies[i]] = IF InFlowReply(replies[i]) THEN 1 ELSE 0
    BY <1>1, ElementOfSeq, FlowTypes
  <1>3. V \in [AllRequests -> Nat] /\ W \in [AllReplies -> Nat] /\ 1 \in Nat
    BY FlowTypes
  <1>4. x + y + n <= 1
    BY DEF Flows, Both
  <1>5. DOMAIN fetches = 1..n
    BY <1>1
  <1> HIDE DEF V, W
  <1>6. x \in Nat /\ y \in Nat /\ n \in Nat
    BY <1>1, <1>3, SumType, LenProperties
  <1>7. \A i \in DOMAIN requests : InFlow(requests[i]) => x >= 1
    <2> TAKE i \in DOMAIN requests
    <2> HAVE InFlow(requests[i])
    <2>1. V[requests[i]] = 1 /\ V[requests[i]] <= 1
      BY <1>2
    <2>2. V[requests[i]] <= SumOf(requests, V, 1)
      BY <1>1, <1>3, <2>1, SumAtLeast
    <2>3. QED
      BY <1>6, <2>1, <2>2
  <1>8. \A i \in DOMAIN replies : InFlowReply(replies[i]) => y >= 1
    <2> TAKE i \in DOMAIN replies
    <2> HAVE InFlowReply(replies[i])
    <2>1. W[replies[i]] = 1 /\ W[replies[i]] <= 1
      BY <1>2
    <2>2. W[replies[i]] <= SumOf(replies, W, 1)
      BY <1>1, <1>3, <2>1, SumAtLeast
    <2>3. QED
      BY <1>6, <2>1, <2>2
  <1>9. \A i, j \in DOMAIN requests : InFlow(requests[i]) /\ InFlow(requests[j]) /\ i # j => x >= 2
    <2> TAKE i, j \in DOMAIN requests
    <2> HAVE InFlow(requests[i]) /\ InFlow(requests[j]) /\ i # j
    <2>1. V[requests[i]] = 1 /\ V[requests[j]] = 1
      BY <1>2
    <2>2. QED
      BY <1>1, <1>3, <2>1, TwoInChannel
  <1>10. \A i, j \in DOMAIN replies : InFlowReply(replies[i]) /\ InFlowReply(replies[j]) /\ i # j => y >= 2
    <2> TAKE i, j \in DOMAIN replies
    <2> HAVE InFlowReply(replies[i]) /\ InFlowReply(replies[j]) /\ i # j
    <2>1. W[replies[i]] = 1 /\ W[replies[j]] = 1
      BY <1>2
    <2>2. QED
      BY <1>1, <1>3, <2>1, TwoInChannel
  <1> HIDE DEF x, y, n
  <1>11. /\ \A i \in DOMAIN requests : InFlow(requests[i]) => x = 1 /\ y = 0 /\ n = 0
         /\ \A i \in DOMAIN replies : InFlowReply(replies[i]) => x = 0 /\ y = 1 /\ n = 0
         /\ \A i \in DOMAIN fetches : x = 0 /\ y = 0 /\ n = 1
    BY <1>4, <1>5, <1>6, <1>7, <1>8
  <1>12. n = 0 => DOMAIN fetches = {}
    BY <1>5
  <1>13. n = 1 => \A i, j \in DOMAIN fetches : i = j
    BY <1>5
  <1>14. QED
    BY <1>9, <1>10, <1>11, <1>12, <1>13


(* Which entries are completed, and which step completes one.              *)
LEMMA DoneMoves ==
  ASSUME ShapeInv, QueueStep, NEW e
  PROVE  LET h == Head(requests)
             Saves == \E a \in Replies(asked) : SaveRowStep(h, a) /\ h.job.entry = e
             Marks == \E a \in Replies(asked) : MarkStep(h, a) /\ h.job.entry = e
         IN /\ Done(e)' => (Done(e) /\ ~Saves) \/ Marks
            /\ Done(e) => Done(e)' \/ Saves
  <1> DEFINE h == Head(requests)
             Saves == \E a \in Replies(asked) : SaveRowStep(h, a) /\ h.job.entry = e
             Marks == \E a \in Replies(asked) : MarkStep(h, a) /\ h.job.entry = e
             Goal == /\ Done(e)' => (Done(e) /\ ~Saves) \/ Marks
                     /\ Done(e) => Done(e)' \/ Saves
  <1> SUFFICES Goal
    OBVIOUS
  <1>1. ASSUME NEW a \in Replies(asked), SaveRowStep(h, a)
        PROVE  Goal
    <2> DEFINE r == NewRow(h.job)
    <2>1. h \in Requests(asked) /\ h.op = "save_row"
      BY <1>1, HeadsAre DEF SaveRowStep, DbFrame
    <2>2. h.job \in Job /\ JobOk(h.op, h.job, asked)
      BY <2>1, RequestsAre
    <2>3. r \in Rows(asked) /\ r.entry = h.job.entry /\ r.done = FALSE
      BY <2>2, JobParts DEF JobOk, Rows, NewRow
    <2>4. rows' = Append(OtherRows(r.entry), r)
      BY <1>1, <2>3 DEF SaveRowStep
    <2> HIDE DEF r
    <2>5. /\ \A i \in DOMAIN rows' :
               \/ rows'[i] = r
               \/ \E j \in DOMAIN rows : rows'[i] = rows[j] /\ rows[j].entry # r.entry
          /\ \A j \in DOMAIN rows : rows[j].entry # r.entry => \E i \in DOMAIN rows' : rows'[i] = rows[j]
      BY <2>3, <2>4, RowReplaced
    <2>6. Done(e)' => Done(e) /\ h.job.entry # e
      BY <2>3, <2>5 DEF Done
    <2>7. Done(e) /\ h.job.entry # e => Done(e)'
      BY <2>3, <2>5 DEF Done
    <2>8. Saves <=> h.job.entry = e
      BY <1>1
    <2> HIDE DEF Saves, Marks, h
    <2>9. QED
      BY <2>6, <2>7, <2>8
  <1>2. ASSUME h.op # "save_row"
        PROVE  ~Saves
    BY <1>2 DEF SaveRowStep
  <1>3. ASSUME NEW a \in Replies(asked), MarkStep(h, a)
        PROVE  Goal
    <2>1. /\ DOMAIN rows' = DOMAIN rows
          /\ \A i \in DOMAIN rows : rows'[i].entry = rows[i].entry
          /\ \A i \in DOMAIN rows : rows[i].entry # h.job.entry => rows'[i].done = rows[i].done
          /\ \A i \in DOMAIN rows : rows[i].done => rows'[i].done
          /\ h.op = "mark"
      BY <1>3, RowsMarked DEF MarkStep
    <2>2. Done(e)' => Done(e) \/ h.job.entry = e
      BY <2>1 DEF Done
    <2>3. Done(e) => Done(e)'
      BY <2>1 DEF Done
    <2>4. ~Saves
      BY <1>2, <2>1
    <2>5. h.job.entry = e => Marks
      BY <1>3
    <2> HIDE DEF Saves, Marks, h
    <2>6. QED
      BY <2>2, <2>3, <2>4, <2>5
  <1>4. ASSUME rows' = rows, ~Saves
        PROVE  Goal
    <2>1. Done(e)' <=> Done(e)
      BY <1>4 DEF Done
    <2> HIDE DEF Saves, Marks
    <2>2. QED
      BY <1>4, <2>1
  <1>5. CASE rows' = rows /\ Saves
    <2>1. PICK a \in Replies(asked) : SaveRowStep(h, a)
      BY <1>5
    <2>2. QED
      BY <1>1, <2>1
  <1>6. CASE rows' = rows
    BY <1>4, <1>5, <1>6
  <1>7. QED
    BY <1>1, <1>3, <1>6 DEF QueueStep, MakeStep, DbStep, SaveListStep, FindNoneStep,
         FindStep, ReadListStep, ContributeStep, FailStep, SendStep, HandlerFrame, EndStep,
         FetchStep, BalanceStep, FetchFailsStep, PokeStep, Restart, vars, tables

(* An entry that is completed is not opened again by its own row, nor by   *)
(* that of a flow that is alone.                                           *)
LEMMA DoneStays ==
  ASSUME ShapeInv, MakerInv, FlowInv, QueueStep, ~overlapped', NEW e, Done(e)
  PROVE  Done(e)'
  <1> DEFINE h == Head(requests)
  <1>1. ~overlapped
    BY ErrorsGrow
  <1>2. ASSUME NEW a \in Replies(asked), SaveRowStep(h, a), h.job.entry = e
        PROVE  FALSE
    <2>1. h = requests[1] /\ 1 \in DOMAIN requests /\ h.op = "save_row"
      BY <1>2, HeadsAre DEF SaveRowStep, DbFrame
    <2>2. CASE h.job.caller = "Contribution"
      <3>1. InFlow(requests[1])
        BY <2>1, <2>2 DEF InFlow
      <3>2. ~Done(requests[1].job.entry)
        BY <1>1, <2>1, <3>1 DEF FlowInv
      <3>3. QED
        BY <1>2, <2>1, <3>2
    <2>3. CASE h.job.caller # "Contribution"
      <3>1. Makes(requests[1])
        BY <2>1, <2>3 DEF Makes
      <3>2. \A j \in DOMAIN rows : rows[j].entry # requests[1].job.entry
        BY <2>1, <3>1 DEF MakerInv
      <3>3. QED
        BY <1>2, <2>1, <3>2 DEF Done
    <2>4. QED
      BY <2>2, <2>3
  <1>3. QED
    BY <1>2, DoneMoves

LEMMA FlowKept ==
  ASSUME ShapeInv, FlowInv, QueueStep
  PROVE  FlowInv'
  <1> SUFFICES ASSUME ~overlapped'
               PROVE  FlowInv'
    BY DEF FlowInv
  <1> DEFINE h == Head(requests)
             g == Head(replies)
             F == Flows(requests, replies, fetches)
             F2 == Flows(requests', replies', fetches')
             Found == \E a \in Replies(asked), k \in DOMAIN rows : FindStep(h, a, k)
  <1>1. ~overlapped
    BY ErrorsGrow
  <1>2. /\ F <= 1
        /\ \A i \in DOMAIN requests : InFlow(requests[i]) => ~Done(requests[i].job.entry)
        /\ \A i \in DOMAIN replies :
             InFlowReply(replies[i]) /\ replies[i].op # "mark" => ~Done(replies[i].job.entry)
        /\ \A i \in DOMAIN fetches : ~Done(fetches[i].entry)
    BY <1>1 DEF FlowInv
  <1>3. /\ F \in Nat /\ F2 \in Nat
        /\ F2 <= F \/ (F2 = F + 1 /\ Found)
    BY FlowsMove
  <1>4. Found => F = 0
    <2> SUFFICES ASSUME NEW a \in Replies(asked), NEW k \in DOMAIN rows, FindStep(h, a, k)
                 PROVE  F = 0
      OBVIOUS
    <2>1. ~Processing
      BY DEF FindStep
    <2>2. QED
      BY <2>1, ProcessingIs
  <1>5. F2 <= 1
    <2> HIDE DEF F, F2, Found
    <2>1. QED
      BY <1>2, <1>3, <1>4
  <1>6. ASSUME NEW e
        PROVE  Done(e)' => Done(e) \/ \E a \in Replies(asked) : MarkStep(h, a)
    BY DoneMoves
  <1> DEFINE D(e) == Done(e)
             D2(e) == \E i \in DOMAIN rows' : rows'[i].entry = e /\ rows'[i].done
             Goal == /\ \A i \in DOMAIN requests' : InFlow(requests'[i]) => ~D2(requests'[i].job.entry)
                     /\ \A i \in DOMAIN replies' :
                          InFlowReply(replies'[i]) /\ replies'[i].op # "mark"
                            => ~D2(replies'[i].job.entry)
                     /\ \A i \in DOMAIN fetches' : ~D2(fetches'[i].entry)
  <1>7. SUFFICES Goal
    <2>1. Goal => FlowInv'
      BY <1>5 DEF FlowInv, Done, InFlowReply, InFlow
    <2>2. QED
      BY <2>1
  <1>8. \A e : D2(e) => D(e) \/ \E a \in Replies(asked) : MarkStep(h, a)
    BY <1>6 DEF Done
  <1> HIDE DEF D, D2
  <1>9. (\A a \in Replies(asked) : ~MarkStep(h, a)) => \A e : ~D(e) => ~D2(e)
    BY <1>8
  <1>10. /\ \A i \in DOMAIN requests : InFlow(requests[i]) => ~D(requests[i].job.entry)
         /\ \A i \in DOMAIN replies :
              InFlowReply(replies[i]) /\ replies[i].op # "mark" => ~D(replies[i].job.entry)
         /\ \A i \in DOMAIN fetches : ~D(fetches[i].entry)
    BY <1>2 DEF D
  <1>11. ASSUME h.op # "mark"
         PROVE  \A a \in Replies(asked) : ~MarkStep(h, a)
    BY <1>11 DEF MarkStep
  <1>12. ASSUME NEW a \in Replies(asked), DbStep(h, a)
         PROVE  Goal
    <2>1. DbFrame(a)
      BY <1>12 DEF DbStep, SaveRowStep, SaveListStep, FindNoneStep, FindStep, ReadListStep,
                   ContributeStep, MarkStep, FailStep
    <2>2. /\ 1 \in DOMAIN requests /\ requests[1] = h /\ fetches' = fetches
          /\ \A i \in DOMAIN requests' :
               i + 1 \in DOMAIN requests /\ i + 1 # 1 /\ requests'[i] = requests[i + 1]
          /\ \A i \in DOMAIN replies' :
               (i \in DOMAIN replies /\ replies'[i] = replies[i]) \/ replies'[i] = a
      BY <2>1, AnsweredAt DEF DbFrame
    <2>3. CASE MarkStep(h, a)
      <3>1. InFlow(h) /\ a.op = "mark"
        BY <2>3 DEF MarkStep, InFlow, Reply
      <3>2. /\ \A j \in DOMAIN requests : InFlow(requests[j]) => j = 1
            /\ \A j \in DOMAIN replies : ~InFlowReply(replies[j])
            /\ DOMAIN fetches = {}
        BY <1>2, <2>2, <3>1, FlowAlone
      <3>3. QED
        BY <2>2, <3>1, <3>2
    <2>4. ASSUME NEW k \in DOMAIN rows, FindStep(h, a, k)
          PROVE  Goal
      <3>1. ~Processing /\ a.job.entry = rows[k].entry /\ ~rows[k].done /\ h.op = "first"
        BY <2>4 DEF FindStep, Reply, NewJob
      <3>2. /\ fetches = <<>>
            /\ \A i \in DOMAIN requests : ~InFlow(requests[i])
            /\ \A i \in DOMAIN replies : ~InFlowReply(replies[i])
        BY <3>1 DEF Processing, InFlowReply
      <3>3. DOMAIN fetches' = {}
        <4>1. fetches' = <<>>
          BY <2>2, <3>2
        <4>2. QED
          BY <4>1
      <3>4. ~Done(rows[k].entry)
        BY <3>1 DEF Done, ShapeInv
      <3>5. ~D2(a.job.entry)
        BY <1>9, <1>11, <3>1, <3>4 DEF D
      <3>6. QED
        BY <2>2, <3>2, <3>3, <3>5
    <2>5. CASE ~MarkStep(h, a) /\ \A k \in DOMAIN rows : ~FindStep(h, a, k)
      <3>1. \A b \in Replies(asked) : ~MarkStep(h, b)
        <4> SUFFICES ASSUME NEW b \in Replies(asked), MarkStep(h, b)
                     PROVE  FALSE
          OBVIOUS
        <4>1. /\ h.op = "mark" /\ DbFrame(b) /\ dbErrors' = dbErrors
          BY DEF MarkStep
        <4>2. FailStep(h, a)
          BY <1>12, <2>5, <4>1 DEF DbStep, SaveRowStep, SaveListStep, FindNoneStep, ReadListStep,
                                   ContributeStep
        <4>3. dbErrors \in Nat
          BY BoundsAssumption DEF ShapeInv
        <4>4. QED
          BY <4>1, <4>2, <4>3 DEF FailStep
      <3>2. \A e : ~D(e) => ~D2(e)
        BY <1>9, <3>1
      <3>3. InFlowReply(a) => InFlow(h) /\ a.job.entry = h.job.entry
        <4> SUFFICES ASSUME InFlowReply(a)
                     PROVE  InFlow(h) /\ a.job.entry = h.job.entry
          OBVIOUS
        <4>1. ReplyAbout(a, a.job.entry)
          <5>1. a.op # "first" \/ a.ok
            BY DEF InFlowReply, InFlow
          <5>2. QED
            BY <5>1 DEF ReplyAbout
        <4>2. RequestAbout(h, a.job.entry) /\ a.op = h.op /\ a.job = h.job
          BY <1>12, <2>5, <4>1, AnswerAbout
        <4>3. InFlow(h)
          BY <4>2 DEF InFlowReply, InFlow, RequestAbout
        <4>4. QED
          BY <4>2, <4>3
      <3>4. QED
        BY <1>10, <2>2, <3>2, <3>3
    <2>6. QED
      BY <2>3, <2>4, <2>5
  <1>13. ASSUME \A a \in Replies(asked) : ~DbStep(h, a)
         PROVE  \A e : ~D(e) => ~D2(e)
    BY <1>9, <1>13 DEF DbStep
  <1>14. CASE \A a \in Replies(asked) : ~DbStep(h, a)
    <2>1. \A e : ~D(e) => ~D2(e)
      BY <1>13, <1>14
    <2>2. ASSUME NEW E \in SUBSET Entries, MakeStep(E)
          PROVE  Goal
      <3>1. /\ UNCHANGED <<replies, fetches>>
            /\ \A j \in DOMAIN requests : j \in DOMAIN requests' /\ requests'[j] = requests[j]
            /\ \A j \in DOMAIN requests' : j \notin DOMAIN requests =>
                 requests'[j].op = "save_row" /\ requests'[j].job.caller # "Contribution"
        BY <2>2 DEF MakeStep
      <3>2. \A j \in DOMAIN requests' : j \notin DOMAIN requests => ~InFlow(requests'[j])
        BY <3>1 DEF InFlow
      <3>3. QED
        BY <1>10, <2>1, <3>1, <3>2
    <2>3. ASSUME NEW m \in Requests(asked), SendStep(m)
          PROVE  Goal
      <3>1. /\ HandlerFrame /\ Sends(g, m) /\ requests' = Append(requests, m) /\ fetches' = fetches
            /\ replies # <<>>
        BY <2>3 DEF SendStep, HandlerFrame
      <3>2. /\ 1 \in DOMAIN replies /\ replies[1] = g
            /\ \A j \in DOMAIN replies' : j + 1 \in DOMAIN replies /\ replies'[j] = replies[j + 1]
        BY <3>1, HandledAt
      <3>3. \A j \in DOMAIN requests' :
              (j \in DOMAIN requests /\ requests'[j] = requests[j]) \/ requests'[j] = m
        BY <3>1, PostedAt
      <3>4. g \in Replies(asked)
        BY <3>1, HeadsAre
      <3>5. InFlow(m) => InFlowReply(g) /\ g.op # "mark" /\ m.job.entry = g.job.entry
        <4> SUFFICES ASSUME InFlow(m)
                     PROVE  InFlowReply(g) /\ g.op # "mark" /\ m.job.entry = g.job.entry
          OBVIOUS
        <4>1. m.op # "first" /\ m.job.entry \in Entries
          <5>1. m.op # "first"
            BY DEF InFlow
          <5>2. QED
            BY <5>1, RequestsAre, JobParts
        <4>2. RequestFlows[m] = ReplyFlows[g]
          BY <2>3, <4>1, SendMoves
        <4>3. m \in AllRequests /\ g \in AllReplies
          BY <3>4, RequestsAre, RepliesAre
        <4>4. InFlowReply(g)
          BY <4>2, <4>3, FlowTypes
        <4>5. m.job.entry = g.job.entry
          BY <3>1, <3>4, <4>1, SentAbout
        <4>6. g.op # "mark"
          BY <3>1 DEF Sends
        <4>7. QED
          BY <4>4, <4>5, <4>6
      <3>6. QED
        BY <1>10, <2>1, <3>1, <3>2, <3>3, <3>5
    <2>4. CASE EndStep
      <3>1. HandlerFrame /\ UNCHANGED <<fetches, requests>>
        BY <2>4 DEF EndStep, HandlerFrame
      <3>2. \A j \in DOMAIN replies' : j + 1 \in DOMAIN replies /\ replies'[j] = replies[j + 1]
        BY <3>1, HandledAt
      <3>3. QED
        BY <1>10, <2>1, <3>1, <3>2
    <2>5. CASE FetchStep
      <3> DEFINE j0 == [g.job EXCEPT !.listed = g.ok]
      <3>1. /\ HandlerFrame /\ requests' = requests /\ g.op = "publishers"
            /\ fetches' = Append(fetches, j0) /\ replies # <<>>
        BY <2>5 DEF FetchStep, HandlerFrame
      <3>2. /\ 1 \in DOMAIN replies /\ replies[1] = g
            /\ \A j \in DOMAIN replies' : j + 1 \in DOMAIN replies /\ replies'[j] = replies[j + 1]
        BY <3>1, HandledAt
      <3>3. g.job.entry \in Entries
        BY <3>1, HeadsAre, RepliesAre, JobParts
      <3>4. j0 \in Waiting(asked) /\ j0.entry = g.job.entry
        BY <2>5, <3>3, FetchMoves
      <3> HIDE DEF j0
      <3>5. \A j \in DOMAIN fetches' : (j \in DOMAIN fetches /\ fetches'[j] = fetches[j]) \/ fetches'[j] = j0
        BY <3>1, <3>4, WaitsAt
      <3>6. InFlowReply(g) /\ g.op # "mark"
        BY <3>1 DEF InFlowReply, InFlow
      <3>7. ~D2(j0.entry)
        BY <1>10, <2>1, <3>2, <3>4, <3>6
      <3>8. QED
        BY <1>10, <2>1, <3>1, <3>2, <3>5, <3>7
    <2>6. ASSUME NEW k \in DOMAIN fetches, NEW m \in Requests(asked), BalanceStep(k, m)
          PROVE  Goal
      <3>1. /\ fetches' = RemoveAt(fetches, k) /\ requests' = Append(requests, m)
            /\ replies' = replies /\ m.job.entry = fetches[k].entry
        BY <2>6 DEF BalanceStep
      <3>2. \A j \in DOMAIN requests' :
              (j \in DOMAIN requests /\ requests'[j] = requests[j]) \/ requests'[j] = m
        BY <3>1, PostedAt
      <3>3. \A j \in DOMAIN fetches' : \E l \in DOMAIN fetches : fetches'[j] = fetches[l]
        BY <3>1, FetchedAt
      <3>4. ~D2(m.job.entry)
        BY <1>10, <2>1, <3>1
      <3>5. QED
        BY <1>10, <2>1, <3>1, <3>2, <3>3, <3>4
    <2>7. ASSUME NEW k \in DOMAIN fetches, FetchFailsStep(k)
          PROVE  Goal
      <3>1. fetches' = RemoveAt(fetches, k) /\ UNCHANGED <<replies, requests>>
        BY <2>7 DEF FetchFailsStep
      <3>2. \A j \in DOMAIN fetches' : \E l \in DOMAIN fetches : fetches'[j] = fetches[l]
        BY <3>1, FetchedAt
      <3>3. QED
        BY <1>10, <2>1, <3>1, <3>2
    <2>8. CASE PokeStep
      <3>1. UNCHANGED <<replies, fetches>>
        BY <2>8 DEF PokeStep
      <3>2. NoRequest \in Requests(asked) /\ NoRequest.op = "first"
        BY NothingIn
      <3>3. \A j \in DOMAIN requests' :
              (j \in DOMAIN requests /\ requests'[j] = requests[j]) \/ requests'[j] = NoRequest
        BY <2>8, <3>2, PostedAt DEF PokeStep
      <3>4. ~InFlow(NoRequest)
        BY <3>2 DEF InFlow
      <3>5. QED
        BY <1>10, <2>1, <3>1, <3>3, <3>4
    <2>9. CASE Restart
      <3>1. requests' = <<>> /\ replies' = <<>> /\ fetches' = <<>> /\ DOMAIN <<>> = {}
        BY <2>9 DEF Restart
      <3>2. QED
        BY <3>1
    <2>10. CASE UNCHANGED vars
      <3>1. UNCHANGED <<replies, fetches, requests>>
        BY <2>10 DEF vars
      <3>2. QED
        BY <1>10, <2>1, <3>1
    <2>11. QED
      BY <1>14, <2>2, <2>3, <2>4, <2>5, <2>6, <2>7, <2>8, <2>9, <2>10 DEF QueueStep
  <1>15. QED
    BY <1>12, <1>14



-----------------------------------------------------------------------------
(* Paid once.                                                              *)

LEMMA EntriesOf ==
  ASSUME ShapeInv
  PROVE  /\ \A i \in DOMAIN requests : requests[i].op # "first" => requests[i].job.entry \in Entries
         /\ \A i \in DOMAIN replies :
              replies[i].op # "first" \/ replies[i].ok => replies[i].job.entry \in Entries
         /\ \A i \in DOMAIN fetches : fetches[i].entry \in Entries
         /\ \A i \in DOMAIN rows : rows[i].entry \in Entries
  <1>1. ASSUME NEW i \in DOMAIN requests, requests[i].op # "first"
        PROVE  requests[i].job.entry \in Entries
    <2>1. requests[i] \in Requests(asked)
      BY ElementOfSeq DEF ShapeInv
    <2>2. QED
      BY <1>1, <2>1, RequestsAre, JobParts
  <1>2. ASSUME NEW i \in DOMAIN replies, replies[i].op # "first" \/ replies[i].ok
        PROVE  replies[i].job.entry \in Entries
    <2>1. replies[i] \in Replies(asked)
      BY ElementOfSeq DEF ShapeInv
    <2>2. QED
      BY <1>2, <2>1, RepliesAre, JobParts
  <1>3. ASSUME NEW i \in DOMAIN fetches
        PROVE  fetches[i].entry \in Entries
    <2>1. fetches[i] \in Waiting(asked)
      BY ElementOfSeq DEF ShapeInv
    <2>2. QED
      BY <2>1, WaitingAre
  <1>4. ASSUME NEW i \in DOMAIN rows
        PROVE  rows[i].entry \in Entries
    <2>1. rows[i] \in Rows(asked)
      BY ElementOfSeq DEF ShapeInv
    <2>2. QED
      BY <2>1 DEF Rows
  <1>5. QED
    BY <1>1, <1>2, <1>3, <1>4

(* Without failures and crashes what is committed for an entry only grows, *)
(* and only when a balance is answered.                                    *)
LEMMA CommittedMoves ==
  ASSUME ShapeInv, QueueStep, dbErrors' = 0, crashes' = 0, NEW e \in Entries
  PROVE  LET C2 == paid'[e] + Owed(requests', replies', e, asked'[e])
         IN /\ C2 \in Nat /\ Committed(e) \in Nat
            /\ asked[e] \in Nat /\ asked'[e] \in Nat /\ asked[e] <= asked'[e]
            /\ asked[e] # asked'[e] => \E E \in SUBSET Entries : e \in E /\ MakeStep(E)
            /\ \/ C2 = Committed(e)
               \/ \E i \in DOMAIN fetches, m \in Requests(asked) :
                    /\ BalanceStep(i, m) /\ m.op = "save_contribution" /\ m.job.entry = e
                    /\ C2 = Committed(e) + m.job.amount
  <1> DEFINE C2 == paid'[e] + Owed(requests', replies', e, asked'[e])
             Grown == \E i \in DOMAIN fetches, m \in Requests(asked) :
                        /\ BalanceStep(i, m) /\ m.op = "save_contribution" /\ m.job.entry = e
                        /\ C2 = Committed(e) + m.job.amount
             Goal == /\ C2 \in Nat /\ Committed(e) \in Nat
                     /\ asked[e] \in Nat /\ asked'[e] \in Nat /\ asked[e] <= asked'[e]
                     /\ asked[e] # asked'[e] => \E E \in SUBSET Entries : e \in E /\ MakeStep(E)
                     /\ C2 = Committed(e) \/ Grown
  <1> SUFFICES Goal
    OBVIOUS
  <1>1. /\ Committed(e) \in Nat /\ asked[e] \in Nat
        /\ Committed(e) = paid[e] + Owed(requests, replies, e, asked[e])
    BY SumsTypes, MadeType
  <1>2. dbErrors = 0 /\ (\A a \in Replies(asked) : ~FailStep(Head(requests), a)) /\ ~Restart
    BY ErrorsGrow
  <1>3. ASSUME asked' = asked, paid' = paid,
               Owed(requests', replies', e, asked[e]) = Owed(requests, replies, e, asked[e])
        PROVE  Goal
    BY <1>1, <1>3
  <1>4. ASSUME NEW E \in SUBSET Entries, MakeStep(E)
        PROVE  Goal
    <2> DEFINE made == asked'
    <2>1. made = asked'
      OBVIOUS
    <2> HIDE DEF made
    <2>2. /\ Owed(requests', replies', e, made[e]) = Owed(requests, replies, e, asked[e])
          /\ made[e] \in Nat /\ asked[e] <= made[e]
      BY <1>4, <2>1, MakeMoves
    <2>3. paid' = paid /\ (e \notin E => asked'[e] = asked[e])
      BY <1>4 DEF MakeStep
    <2>4. C2 = Committed(e)
      BY <1>1, <2>1, <2>2, <2>3
    <2>5. asked'[e] \in Nat /\ asked[e] <= asked'[e]
      BY <2>1, <2>2
    <2> HIDE DEF C2, Grown
    <2>6. QED
      BY <1>1, <1>4, <2>3, <2>4, <2>5
  <1>5. ASSUME NEW a \in Replies(asked), DbStep(Head(requests), a)
        PROVE  Goal
    <2>1. asked' = asked /\ dbErrors' = dbErrors
      BY <1>2, <1>5 DEF DbStep, SaveRowStep, SaveListStep, FindNoneStep, FindStep, ReadListStep,
                        ContributeStep, MarkStep, FailStep, DbFrame
    <2>2. paid'[e] + Owed(requests', replies', e, asked[e]) = Committed(e)
      BY <1>5, <2>1, DbMoves
    <2>3. C2 = Committed(e)
      BY <2>1, <2>2
    <2> HIDE DEF C2, Grown
    <2>4. QED
      BY <1>1, <2>1, <2>3
  <1>6. ASSUME NEW m \in Requests(asked), SendStep(m)
        PROVE  Goal
    BY <1>3, <1>6, SendMoves DEF SendStep, HandlerFrame
  <1>7. CASE EndStep
    BY <1>3, <1>7, EndMoves DEF EndStep, HandlerFrame
  <1>8. CASE FetchStep
    BY <1>3, <1>8, FetchMoves DEF FetchStep, HandlerFrame
  <1>9. ASSUME NEW i \in DOMAIN fetches, NEW m \in Requests(asked), BalanceStep(i, m)
        PROVE  Goal
    <2>1. asked' = asked /\ paid' = paid
      BY <1>9 DEF BalanceStep
    <2>2. /\ Owed(requests', replies', e, asked[e])
               = Owed(requests, replies, e, asked[e]) + RequestOwes(e)[m]
          /\ RequestOwes(e)[m] = IF m.op = "save_contribution" /\ m.job.entry = e
                                 THEN m.job.amount ELSE 0
          /\ RequestOwes(e)[m] \in Nat
      BY <1>9, BalanceMoves
    <2>3. paid[e] \in Nat /\ Owed(requests, replies, e, asked[e]) \in Nat
      BY SumsTypes, MadeType
    <2>4. C2 = Committed(e) + RequestOwes(e)[m]
      BY <1>1, <2>1, <2>2, <2>3
    <2>5. CASE m.op = "save_contribution" /\ m.job.entry = e
      <3>1. C2 = Committed(e) + m.job.amount /\ m.job.amount \in Nat
        BY <2>2, <2>4, <2>5
      <3>2. Grown
        BY <1>9, <2>5, <3>1
      <3> HIDE DEF C2, Grown
      <3>3. QED
        BY <1>1, <2>1, <3>1, <3>2
    <2>6. CASE ~(m.op = "save_contribution" /\ m.job.entry = e)
      <3>1. C2 = Committed(e)
        BY <1>1, <2>2, <2>4, <2>6
      <3> HIDE DEF C2, Grown
      <3>2. QED
        BY <1>1, <2>1, <3>1
    <2>7. QED
      BY <2>5, <2>6
  <1>10. ASSUME NEW i \in DOMAIN fetches, FetchFailsStep(i)
         PROVE  Goal
    BY <1>3, <1>10, FetchFailsMoves DEF FetchFailsStep
  <1>11. CASE PokeStep
    BY <1>3, <1>11, PokeMoves DEF PokeStep
  <1>12. CASE UNCHANGED vars
    BY <1>3, <1>12 DEF vars, tables, history
  <1>13. QED
    BY <1>2, <1>4, <1>5, <1>6, <1>7, <1>8, <1>9, <1>10, <1>11, <1>12 DEF QueueStep

(* Nothing is committed for an entry whose row was not yet saved.          *)
LEMMA UnsavedUncommitted ==
  ASSUME ShapeInv, MakerInv, NEW i \in DOMAIN requests, Makes(requests[i])
  PROVE  Committed(requests[i].job.entry) = 0 /\ requests[i].job.entry \in Entries
  <1> DEFINE e == requests[i].job.entry
  <1>1. e \in Entries
    BY EntriesOf DEF Makes
  <1>2. /\ \A j \in DOMAIN requests : RequestAbout(requests[j], e) => i = j
        /\ \A j \in DOMAIN replies : ~ReplyAbout(replies[j], e)
        /\ \A j \in DOMAIN fetches : fetches[j].entry # e
        /\ paid[e] = 0
    BY DEF MakerInv
  <1>3. /\ requests \in Seq(AllRequests) /\ replies \in Seq(AllReplies) /\ fetches \in Seq(Job)
        /\ asked[e] \in Nat
    BY <1>1, ChannelTypes
  <1>4. Makes(requests[i])
    OBVIOUS
  <1> HIDE DEF e
  <1>5. \A j \in DOMAIN requests : RequestOwes(e)[requests[j]] = 0
    <2> TAKE j \in DOMAIN requests
    <2>1. requests[j] \in AllRequests
      BY <1>3, ElementOfSeq
    <2>2. CASE i = j
      BY <1>4, <2>1, <2>2 DEF RequestOwes, Commits, Resaved, Makes
    <2>3. CASE i # j
      BY <1>2, <2>1, <2>3 DEF RequestOwes, Commits, RequestAbout
    <2>4. QED
      BY <2>2, <2>3
  <1>6. \A j \in DOMAIN replies : ReplyOwes(e)[replies[j]] = 0
    <2> TAKE j \in DOMAIN replies
    <2>1. replies[j] \in AllReplies
      BY <1>3, ElementOfSeq
    <2>2. QED
      BY <1>2, <2>1 DEF ReplyOwes, Commits, ReplyAbout
  <1>7. Owed(requests, replies, e, asked[e]) = 0
    BY <1>1, <1>2, <1>3, <1>5, <1>6, NothingOwed
  <1>8. Committed(e) = 0
    BY <1>2, <1>7 DEF Committed
  <1>9. QED
    BY <1>1, <1>8 DEF e


(* A flow ends in a reply that nothing follows, or in a balance that could *)
(* not be fetched.                                                         *)
LEMMA FlowPasses ==
  ASSUME ShapeInv, QueueStep, dbErrors' = 0, crashes' = 0, NEW e, FlowOf(e)
  PROVE  \/ FlowIn(requests', replies', fetches', e)
         \/ EndStep /\ InFlowReply(Head(replies)) /\ Head(replies).job.entry = e
         \/ \E k \in DOMAIN fetches : FetchFailsStep(k) /\ fetches[k].entry = e
  <1> DEFINE h == Head(requests)
             g == Head(replies)
             Goal == \/ FlowIn(requests', replies', fetches', e)
                     \/ EndStep /\ InFlowReply(g) /\ g.job.entry = e
                     \/ \E k \in DOMAIN fetches : FetchFailsStep(k) /\ fetches[k].entry = e
  <1> SUFFICES Goal
    OBVIOUS
  <1>1. \/ \E i \in DOMAIN requests : InFlow(requests[i]) /\ requests[i].job.entry = e
        \/ \E i \in DOMAIN replies : InFlowReply(replies[i]) /\ replies[i].job.entry = e
        \/ \E i \in DOMAIN fetches : fetches[i].entry = e
    BY DEF FlowOf, FlowIn
  <1>2. ASSUME \/ \E i \in DOMAIN requests' : InFlow(requests'[i]) /\ requests'[i].job.entry = e
               \/ \E i \in DOMAIN replies' : InFlowReply(replies'[i]) /\ replies'[i].job.entry = e
               \/ \E i \in DOMAIN fetches' : fetches'[i].entry = e
        PROVE  Goal
    BY <1>2 DEF FlowIn
  <1>3. ~Restart /\ \A a \in Replies(asked) : ~FailStep(h, a)
    BY ErrorsGrow
  <1>4. ASSUME NEW E \in SUBSET Entries, MakeStep(E)
        PROVE  Goal
    BY <1>1, <1>2, <1>4 DEF MakeStep
  <1>5. ASSUME NEW a \in Replies(asked), DbStep(h, a)
        PROVE  Goal
    <2>1. ~FailStep(h, a) /\ DbFrame(a)
      BY <1>3, <1>5 DEF DbStep, SaveRowStep, SaveListStep, FindNoneStep, FindStep, ReadListStep,
                        ContributeStep, MarkStep
    <2>2. /\ 1 \in DOMAIN requests /\ requests[1] = h /\ fetches' = fetches
          /\ \A i \in DOMAIN requests : i # 1 => i - 1 \in DOMAIN requests' /\ requests'[i - 1] = requests[i]
          /\ \A i \in DOMAIN replies : i \in DOMAIN replies' /\ replies'[i] = replies[i]
          /\ Len(replies) + 1 \in DOMAIN replies' /\ replies'[Len(replies) + 1] = a
      BY <2>1, AnsweredAt DEF DbFrame
    <2>3. InFlow(h) => InFlowReply(a) /\ a.job.entry = h.job.entry
      <3> SUFFICES ASSUME InFlow(h)
                   PROVE  InFlowReply(a) /\ a.job.entry = h.job.entry
        OBVIOUS
      <3>1. h.op # "first"
        BY DEF InFlow
      <3>2. a.op = h.op /\ a.job = h.job
        BY <1>5, <2>1, <3>1 DEF DbStep, SaveRowStep, SaveListStep, FindNoneStep, FindStep,
             ReadListStep, ContributeStep, MarkStep, Reply
      <3>3. QED
        BY <3>2 DEF InFlowReply, InFlow
    <2>4. QED
      BY <1>1, <1>2, <2>2, <2>3
  <1>6. ASSUME NEW m \in Requests(asked), SendStep(m)
        PROVE  Goal
    <2>1. /\ HandlerFrame /\ Sends(g, m) /\ requests' = Append(requests, m) /\ fetches' = fetches
          /\ replies # <<>>
      BY <1>6 DEF SendStep, HandlerFrame
    <2>2. /\ 1 \in DOMAIN replies /\ replies[1] = g
          /\ \A i \in DOMAIN replies : i # 1 => i - 1 \in DOMAIN replies' /\ replies'[i - 1] = replies[i]
      BY <2>1, HandledAt
    <2>3. /\ \A i \in DOMAIN requests : i \in DOMAIN requests' /\ requests'[i] = requests[i]
          /\ Len(requests) + 1 \in DOMAIN requests' /\ requests'[Len(requests) + 1] = m
      BY <2>1, PostedAt
    <2>4. InFlowReply(g) => InFlow(m) /\ m.job.entry = g.job.entry
      <3> SUFFICES ASSUME InFlowReply(g)
                   PROVE  InFlow(m) /\ m.job.entry = g.job.entry
        OBVIOUS
      <3>1. g \in Replies(asked) /\ g \in AllReplies /\ m \in AllRequests
        BY <2>1, HeadsAre, RepliesAre, RequestsAre
      <3>2. g.op # "first" \/ g.ok
        BY DEF InFlowReply, InFlow
      <3>3. g.job.entry \in Entries
        BY <3>1, <3>2, RepliesAre, JobParts
      <3>4. RequestFlows[m] = ReplyFlows[g]
        BY <1>6, <3>3, SendMoves
      <3>5. InFlow(m)
        BY <3>1, <3>4, FlowTypes
      <3>6. m.op # "first"
        BY <3>5 DEF InFlow
      <3>7. QED
        BY <2>1, <3>1, <3>5, <3>6, SentAbout
    <2>5. QED
      BY <1>1, <1>2, <2>1, <2>2, <2>3, <2>4
  <1>7. CASE EndStep
    <2>1. HandlerFrame /\ UNCHANGED <<requests, fetches>>
      BY <1>7 DEF EndStep
    <2>2. /\ 1 \in DOMAIN replies /\ replies[1] = g
          /\ \A i \in DOMAIN replies : i # 1 => i - 1 \in DOMAIN replies' /\ replies'[i - 1] = replies[i]
      BY <2>1, HandledAt
    <2>3. QED
      BY <1>1, <1>2, <1>7, <2>1, <2>2
  <1>8. CASE FetchStep
    <2> DEFINE j0 == [g.job EXCEPT !.listed = g.ok]
    <2>1. /\ HandlerFrame /\ requests' = requests /\ g.op = "publishers"
          /\ fetches' = Append(fetches, j0) /\ replies # <<>>
      BY <1>8 DEF FetchStep, HandlerFrame
    <2>2. /\ 1 \in DOMAIN replies /\ replies[1] = g
          /\ \A i \in DOMAIN replies : i # 1 => i - 1 \in DOMAIN replies' /\ replies'[i - 1] = replies[i]
      BY <2>1, HandledAt
    <2>3. g.job.entry \in Entries
      BY <2>1, HeadsAre, RepliesAre, JobParts
    <2>4. j0 \in Waiting(asked) /\ j0.entry = g.job.entry
      BY <1>8, <2>3, FetchMoves
    <2> HIDE DEF j0
    <2>5. /\ \A i \in DOMAIN fetches : i \in DOMAIN fetches' /\ fetches'[i] = fetches[i]
          /\ \E i \in DOMAIN fetches' : fetches'[i] = j0
      BY <2>1, <2>4, WaitsAt
    <2>6. QED
      BY <1>1, <1>2, <2>1, <2>2, <2>4, <2>5
  <1>9. ASSUME NEW k \in DOMAIN fetches, NEW m \in Requests(asked), BalanceStep(k, m)
        PROVE  Goal
    <2>1. /\ fetches' = RemoveAt(fetches, k) /\ requests' = Append(requests, m)
          /\ replies' = replies /\ m.job.entry = fetches[k].entry
          /\ m.op \in {"mark", "save_contribution"}
      BY <1>9 DEF BalanceStep
    <2>2. /\ \A i \in DOMAIN requests : i \in DOMAIN requests' /\ requests'[i] = requests[i]
          /\ Len(requests) + 1 \in DOMAIN requests' /\ requests'[Len(requests) + 1] = m
      BY <2>1, PostedAt
    <2>3. \A j \in DOMAIN fetches : j # k => \E i \in DOMAIN fetches' : fetches'[i] = fetches[j]
      BY <2>1, FetchedAt
    <2>4. InFlow(m)
      BY <2>1 DEF InFlow
    <2>5. QED
      BY <1>1, <1>2, <2>1, <2>2, <2>3, <2>4
  <1>10. ASSUME NEW k \in DOMAIN fetches, FetchFailsStep(k)
         PROVE  Goal
    <2>1. fetches' = RemoveAt(fetches, k) /\ UNCHANGED <<replies, requests>>
      BY <1>10 DEF FetchFailsStep
    <2>2. \A j \in DOMAIN fetches : j # k => \E i \in DOMAIN fetches' : fetches'[i] = fetches[j]
      BY <2>1, FetchedAt
    <2>3. QED
      BY <1>1, <1>2, <1>10, <2>1, <2>2
  <1>11. CASE PokeStep
    <2>1. UNCHANGED <<replies, fetches>> /\ NoRequest \in Requests(asked)
      BY <1>11, NothingIn DEF PokeStep
    <2>2. \A i \in DOMAIN requests : i \in DOMAIN requests' /\ requests'[i] = requests[i]
      BY <1>11, <2>1, PostedAt DEF PokeStep
    <2>3. QED
      BY <1>1, <1>2, <2>1, <2>2
  <1>12. CASE UNCHANGED vars
    BY <1>1, <1>2, <1>12 DEF vars
  <1>13. QED
    BY <1>3, <1>4, <1>5, <1>6, <1>7, <1>8, <1>9, <1>10, <1>11, <1>12 DEF QueueStep


LEMMA EntriesNext ==
  (ShapeInv =>
     /\ \A i \in DOMAIN requests : requests[i].op # "first" => requests[i].job.entry \in Entries
     /\ \A i \in DOMAIN replies :
          replies[i].op # "first" \/ replies[i].ok => replies[i].job.entry \in Entries
     /\ \A i \in DOMAIN fetches : fetches[i].entry \in Entries
     /\ \A i \in DOMAIN rows : rows[i].entry \in Entries)'
  <1>1. ShapeInv =>
          /\ \A i \in DOMAIN requests : requests[i].op # "first" => requests[i].job.entry \in Entries
          /\ \A i \in DOMAIN replies :
               replies[i].op # "first" \/ replies[i].ok => replies[i].job.entry \in Entries
          /\ \A i \in DOMAIN fetches : fetches[i].entry \in Entries
          /\ \A i \in DOMAIN rows : rows[i].entry \in Entries
    BY EntriesOf
  <1>2. QED
    BY <1>1, PTL

(* A row that is open after a transaction was open before, or was saved by *)
(* it; a mark is of rows that are completed.                               *)
LEMMA RowsAfter ==
  ASSUME ShapeInv, NEW a \in Replies(asked), DbStep(Head(requests), a)
  PROVE  LET h == Head(requests)
         IN /\ \A i \in DOMAIN rows' :
                 \/ \E j \in DOMAIN rows : /\ rows'[i].entry = rows[j].entry
                                           /\ rows[j].done => rows'[i].done
                                           /\ SaveRowStep(h, a) => rows[j].entry # h.job.entry
                 \/ SaveRowStep(h, a) /\ rows'[i].entry = h.job.entry
            /\ MarkStep(h, a) =>
                 \A i \in DOMAIN rows' : rows'[i].entry = h.job.entry => rows'[i].done
  <1> DEFINE h == Head(requests)
             Goal == /\ \A i \in DOMAIN rows' :
                          \/ \E j \in DOMAIN rows : /\ rows'[i].entry = rows[j].entry
                                                    /\ rows[j].done => rows'[i].done
                                                    /\ SaveRowStep(h, a) => rows[j].entry # h.job.entry
                          \/ SaveRowStep(h, a) /\ rows'[i].entry = h.job.entry
                     /\ MarkStep(h, a) =>
                          \A i \in DOMAIN rows' : rows'[i].entry = h.job.entry => rows'[i].done
  <1> SUFFICES Goal
    OBVIOUS
  <1>1. CASE SaveRowStep(h, a)
    <2> DEFINE r == NewRow(h.job)
    <2>1. h \in Requests(asked) /\ h.op = "save_row"
      BY <1>1, HeadsAre DEF SaveRowStep, DbFrame
    <2>2. h.job \in Job /\ JobOk(h.op, h.job, asked)
      BY <2>1, RequestsAre
    <2>3. r \in Rows(asked) /\ r.entry = h.job.entry
      BY <2>2, JobParts DEF JobOk, Rows, NewRow
    <2>4. rows' = Append(OtherRows(r.entry), r)
      BY <1>1, <2>3 DEF SaveRowStep
    <2> HIDE DEF r
    <2>5. \A i \in DOMAIN rows' :
               \/ rows'[i] = r
               \/ \E j \in DOMAIN rows : rows'[i] = rows[j] /\ rows[j].entry # r.entry
      BY <2>3, <2>4, RowReplaced
    <2>6. ~MarkStep(h, a)
      BY <2>1 DEF MarkStep
    <2> HIDE DEF h
    <2>7. QED
      BY <1>1, <2>3, <2>5, <2>6
  <1>2. CASE MarkStep(h, a)
    <2>1. /\ DOMAIN rows' = DOMAIN rows
          /\ \A i \in DOMAIN rows : rows'[i].entry = rows[i].entry
          /\ \A i \in DOMAIN rows : rows[i].entry = h.job.entry => rows'[i].done
          /\ \A i \in DOMAIN rows : rows[i].done => rows'[i].done
      BY <1>2, RowsMarked DEF MarkStep
    <2>2. ~SaveRowStep(h, a)
      BY <1>2 DEF MarkStep, SaveRowStep
    <2> HIDE DEF h
    <2>3. QED
      BY <2>1, <2>2
  <1>3. CASE rows' = rows /\ ~SaveRowStep(h, a) /\ ~MarkStep(h, a)
    BY <1>3
  <1>4. QED
    BY <1>1, <1>2, <1>3 DEF DbStep, SaveListStep, FindNoneStep, FindStep, ReadListStep,
                            ContributeStep, FailStep


LEMMA OnceKept ==
  ASSUME ShapeInv, MakerInv, FlagInv, FlowInv, OnceInv, QueueStep
  PROVE  OnceInv'
  <1> SUFFICES ASSUME dbErrors' = 0, crashes' = 0, ~overlapped'
               PROVE  OnceInv'
    BY DEF OnceInv
  <1> DEFINE h == Head(requests)
             g == Head(replies)
             C(e) == Committed(e)
             C2(e) == paid'[e] + Owed(requests', replies', e, asked'[e])
             Fl(e) == FlowOf(e)
             Fl2(e) == FlowIn(requests', replies', fetches', e)
             Tops == \A e \in Entries : C2(e) <= asked'[e]
             Goal == /\ Tops
                     /\ \A i \in DOMAIN requests' :
                          requests'[i].op = "publishers" => C2(requests'[i].job.entry) = 0
                     /\ \A i \in DOMAIN replies' :
                          /\ replies'[i].op = "publishers" \/ (replies'[i].op = "first" /\ replies'[i].ok)
                               => C2(replies'[i].job.entry) = 0
                          /\ replies'[i].op = "mark" =>
                               \A j \in DOMAIN rows' :
                                 rows'[j].entry = replies'[i].job.entry => rows'[j].done
                     /\ \A i \in DOMAIN fetches' : C2(fetches'[i].entry) = 0
                     /\ \A i \in DOMAIN rows' :
                          ~rows'[i].done /\ ~Fl2(rows'[i].entry) => C2(rows'[i].entry) = 0
             Rest == /\ \A i \in DOMAIN requests' :
                          requests'[i].op = "publishers" => C(requests'[i].job.entry) = 0
                     /\ \A i \in DOMAIN replies' :
                          /\ replies'[i].op = "publishers" \/ (replies'[i].op = "first" /\ replies'[i].ok)
                               => C(replies'[i].job.entry) = 0
                          /\ replies'[i].op = "mark" =>
                               \A j \in DOMAIN rows' :
                                 rows'[j].entry = replies'[i].job.entry => rows'[j].done
                     /\ \A i \in DOMAIN fetches' : C(fetches'[i].entry) = 0
                     /\ \A i \in DOMAIN rows' :
                          ~rows'[i].done /\ ~Fl2(rows'[i].entry) => C(rows'[i].entry) = 0
  <1>1. SUFFICES Goal
    <2>1. Goal => OnceInv'
      BY DEF OnceInv, Committed, FlowOf
    <2>2. QED
      BY <2>1
  <1>2. /\ dbErrors = 0 /\ crashes = 0 /\ ~overlapped /\ ~Restart
        /\ \A a \in Replies(asked) : ~FailStep(h, a)
    BY ErrorsGrow
  <1>3. /\ \A e \in Entries : C(e) <= asked[e]
        /\ \A i \in DOMAIN requests : requests[i].op = "publishers" => C(requests[i].job.entry) = 0
        /\ \A i \in DOMAIN replies :
             replies[i].op = "publishers" \/ (replies[i].op = "first" /\ replies[i].ok)
               => C(replies[i].job.entry) = 0
        /\ \A i \in DOMAIN replies :
             replies[i].op = "mark" =>
               \A j \in DOMAIN rows : rows[j].entry = replies[i].job.entry => rows[j].done
        /\ \A i \in DOMAIN fetches : C(fetches[i].entry) = 0
        /\ \A i \in DOMAIN rows : ~rows[i].done /\ ~Fl(rows[i].entry) => C(rows[i].entry) = 0
    BY <1>2 DEF OnceInv
  <1>4. Flows(requests, replies, fetches) <= 1 /\ SavesAnswered
    BY <1>2 DEF FlowInv, FlagInv
  <1>5. \A e \in Entries :
          /\ C2(e) \in Nat /\ C(e) \in Nat /\ asked[e] \in Nat /\ asked'[e] \in Nat
          /\ asked[e] <= asked'[e]
          /\ \/ C2(e) = C(e)
             \/ \E i \in DOMAIN fetches, m \in Requests(asked) :
                  /\ BalanceStep(i, m) /\ m.op = "save_contribution" /\ m.job.entry = e
                  /\ C2(e) = C(e) + m.job.amount
    BY CommittedMoves
  <1>6. \A e : Fl(e) => \/ Fl2(e)
                        \/ EndStep /\ InFlowReply(g) /\ g.job.entry = e
                        \/ \E k \in DOMAIN fetches : FetchFailsStep(k) /\ fetches[k].entry = e
    BY FlowPasses
  <1>7. /\ \A i \in DOMAIN requests' : requests'[i].op # "first" => requests'[i].job.entry \in Entries
        /\ \A i \in DOMAIN replies' :
             replies'[i].op # "first" \/ replies'[i].ok => replies'[i].job.entry \in Entries
        /\ \A i \in DOMAIN fetches' : fetches'[i].entry \in Entries
        /\ \A i \in DOMAIN rows' : rows'[i].entry \in Entries
    <2>1. ShapeInv'
      BY ShapeKept
    <2>2. QED
      BY <2>1, EntriesNext
  <1> HIDE DEF C, C2, Fl, Fl2
  <1>8. ASSUME NEW k \in DOMAIN fetches, NEW m \in Requests(asked), BalanceStep(k, m)
        PROVE  Goal
    <2>1. /\ fetches' = RemoveAt(fetches, k) /\ requests' = Append(requests, m)
          /\ replies' = replies /\ rows' = rows /\ asked' = asked
          /\ m.job.entry = fetches[k].entry /\ m.op \in {"mark", "save_contribution"}
      BY <1>8 DEF BalanceStep
    <2>2. /\ \A i \in DOMAIN requests : ~InFlow(requests[i])
          /\ \A i \in DOMAIN replies : ~InFlowReply(replies[i])
          /\ \A i \in DOMAIN fetches : k = i
      BY <1>4, FlowAlone
    <2>3. /\ \A i \in DOMAIN requests' :
               (i \in DOMAIN requests /\ requests'[i] = requests[i]) \/ requests'[i] = m
          /\ Len(requests) + 1 \in DOMAIN requests' /\ requests'[Len(requests) + 1] = m
      BY <2>1, PostedAt
    <2>4. DOMAIN fetches' = {}
      BY <2>1, <2>2, FetchedAt
    <2>5. Tops
      <3> SUFFICES ASSUME NEW e \in Entries
                   PROVE  C2(e) <= asked'[e]
        OBVIOUS
      <3>1. CASE C2(e) = C(e)
        BY <1>3, <1>5, <3>1
      <3>2. ASSUME NEW i \in DOMAIN fetches, NEW n \in Requests(asked), BalanceStep(i, n),
                   n.op = "save_contribution", n.job.entry = e, C2(e) = C(e) + n.job.amount
            PROVE  C2(e) <= asked'[e]
        <4>1. n.job.amount <= fetches[i].amount /\ fetches[i].entry = e
          BY <3>2 DEF BalanceStep
        <4>2. fetches[i] \in Waiting(asked)
          BY ElementOfSeq DEF ShapeInv
        <4>3. fetches[i].amount <= asked[e] /\ fetches[i].amount \in Nat
          BY <4>1, <4>2, WaitingAre
        <4>4. n.job.amount \in Nat
          BY <3>2, RequestsAre, JobParts
        <4>5. C(e) = 0
          BY <1>3, <4>1
        <4>6. QED
          BY <1>5, <2>1, <3>2, <4>1, <4>3, <4>4, <4>5
      <3>3. QED
        BY <1>5, <3>1, <3>2
    <2>6. ASSUME NEW i \in DOMAIN rows', ~rows'[i].done, ~Fl2(rows'[i].entry)
          PROVE  C2(rows'[i].entry) = 0
      <3> DEFINE e == rows'[i].entry
      <3>1. InFlow(m)
        BY <2>1 DEF InFlow
      <3>2. e # fetches[k].entry
        BY <2>1, <2>3, <2>6, <3>1 DEF Fl2, FlowIn
      <3>3. ~Fl(e)
        BY <2>2, <3>2 DEF Fl, FlowOf, FlowIn
      <3>4. C(e) = 0
        BY <1>3, <2>1, <2>6, <3>3
      <3>5. \A j \in DOMAIN fetches, n \in Requests(asked) : BalanceStep(j, n) => n.job.entry # e
        BY <2>2, <3>2 DEF BalanceStep
      <3>6. C2(e) = C(e)
        BY <1>5, <1>7, <3>5
      <3>7. QED
        BY <3>4, <3>6
    <2>7. /\ \A i \in DOMAIN requests' : requests'[i].op # "publishers"
          /\ \A i \in DOMAIN replies' : /\ replies'[i].op \notin {"publishers", "mark"}
                                        /\ ~(replies'[i].op = "first" /\ replies'[i].ok)
      BY <2>1, <2>2, <2>3 DEF InFlowReply, InFlow
    <2>8. QED
      BY <2>4, <2>5, <2>6, <2>7
  <1>9. ASSUME \A k \in DOMAIN fetches, m \in Requests(asked) : ~BalanceStep(k, m), Rest
        PROVE  Goal
    <2>1. \A e \in Entries : C2(e) = C(e)
      BY <1>5, <1>9
    <2>2. Tops
      BY <1>3, <1>5, <2>1
    <2>3. QED
      BY <1>7, <1>9, <2>1, <2>2
  <1>10. SUFFICES ASSUME \A k \in DOMAIN fetches, m \in Requests(asked) : ~BalanceStep(k, m)
                  PROVE  Rest
    BY <1>8, <1>9
  <1>11. CASE EndStep
    <2>1. HandlerFrame /\ Ends(g) /\ UNCHANGED <<requests, fetches, rows>> /\ replies # <<>>
      BY <1>11 DEF EndStep, HandlerFrame
    <2>2. /\ 1 \in DOMAIN replies /\ replies[1] = g
          /\ \A i \in DOMAIN replies' : i + 1 \in DOMAIN replies /\ replies'[i] = replies[i + 1]
          /\ \A i \in DOMAIN replies : i # 1 => i - 1 \in DOMAIN replies' /\ replies'[i - 1] = replies[i]
      BY <2>1, HandledAt
    <2>3. InFlowReply(g) => g.op = "mark"
      <3>1. ~(g.op \in {"save_row", "save_publishers", "save_contribution"} /\ ~g.ok)
        BY <1>4, <2>2 DEF SavesAnswered
      <3>2. QED
        BY <2>1, <3>1 DEF Ends, InFlowReply, InFlow
    <2>4. \A e : Fl(e) => Fl2(e) \/ (g.op = "mark" /\ g.job.entry = e)
      <3> SUFFICES ASSUME NEW e, Fl(e), ~Fl2(e)
                   PROVE  g.op = "mark" /\ g.job.entry = e
        OBVIOUS
      <3>1. \/ \E i \in DOMAIN requests : InFlow(requests[i]) /\ requests[i].job.entry = e
            \/ \E i \in DOMAIN replies : InFlowReply(replies[i]) /\ replies[i].job.entry = e
            \/ \E i \in DOMAIN fetches : fetches[i].entry = e
        BY DEF Fl, FlowOf, FlowIn
      <3>2. ~ \/ \E i \in DOMAIN requests' : InFlow(requests'[i]) /\ requests'[i].job.entry = e
              \/ \E i \in DOMAIN replies' : InFlowReply(replies'[i]) /\ replies'[i].job.entry = e
              \/ \E i \in DOMAIN fetches' : fetches'[i].entry = e
        BY DEF Fl2, FlowIn
      <3>3. QED
        BY <2>1, <2>2, <2>3, <3>1, <3>2
    <2>5. \A i \in DOMAIN rows : ~rows[i].done => ~(g.op = "mark" /\ g.job.entry = rows[i].entry)
      BY <1>3, <2>2
    <2>6. \A i \in DOMAIN rows : ~rows[i].done /\ ~Fl2(rows[i].entry) => C(rows[i].entry) = 0
      BY <1>3, <2>4, <2>5
    <2>7. QED
      BY <1>3, <2>1, <2>2, <2>6
  <1>12. ASSUME NEW k \in DOMAIN fetches, FetchFailsStep(k)
         PROVE  Rest
    <2>1. fetches' = RemoveAt(fetches, k) /\ UNCHANGED <<requests, replies, rows>>
      BY <1>12 DEF FetchFailsStep
    <2>2. /\ \A i \in DOMAIN fetches' : \E j \in DOMAIN fetches : fetches'[i] = fetches[j]
          /\ \A j \in DOMAIN fetches : j # k => \E i \in DOMAIN fetches' : fetches'[i] = fetches[j]
      BY <2>1, FetchedAt
    <2>3. \A e : Fl(e) => Fl2(e) \/ fetches[k].entry = e
      <3> SUFFICES ASSUME NEW e, Fl(e), ~Fl2(e)
                   PROVE  fetches[k].entry = e
        OBVIOUS
      <3>1. \/ \E i \in DOMAIN requests : InFlow(requests[i]) /\ requests[i].job.entry = e
            \/ \E i \in DOMAIN replies : InFlowReply(replies[i]) /\ replies[i].job.entry = e
            \/ \E i \in DOMAIN fetches : fetches[i].entry = e
        BY DEF Fl, FlowOf, FlowIn
      <3>2. ~ \/ \E i \in DOMAIN requests' : InFlow(requests'[i]) /\ requests'[i].job.entry = e
              \/ \E i \in DOMAIN replies' : InFlowReply(replies'[i]) /\ replies'[i].job.entry = e
              \/ \E i \in DOMAIN fetches' : fetches'[i].entry = e
        BY DEF Fl2, FlowIn
      <3>3. QED
        BY <2>1, <2>2, <3>1, <3>2
    <2>4. \A i \in DOMAIN rows : ~rows[i].done /\ ~Fl2(rows[i].entry) => C(rows[i].entry) = 0
      BY <1>3, <2>3
    <2>5. QED
      BY <1>3, <2>1, <2>2, <2>4
  <1>13. SUFFICES ASSUME ~EndStep, \A k \in DOMAIN fetches : ~FetchFailsStep(k)
                  PROVE  Rest
    BY <1>11, <1>12
  <1>14. \A e : Fl(e) => Fl2(e)
    BY <1>6, <1>13
  <1>15. \A i \in DOMAIN rows : ~rows[i].done /\ ~Fl2(rows[i].entry) => C(rows[i].entry) = 0
    BY <1>3, <1>14
  <1>16. ASSUME NEW E \in SUBSET Entries, MakeStep(E)
         PROVE  Rest
    <2>1. /\ UNCHANGED <<replies, fetches, rows>>
          /\ \A i \in DOMAIN requests' :
               \/ i \in DOMAIN requests /\ requests'[i] = requests[i]
               \/ requests'[i].op = "save_row"
      BY <1>16 DEF MakeStep
    <2>2. QED
      BY <1>3, <1>15, <2>1
  <1>17. ASSUME NEW a \in Replies(asked), DbStep(h, a)
         PROVE  Rest
    <2>1. ~FailStep(h, a) /\ DbFrame(a) /\ requests # <<>>
      BY <1>2, <1>17 DEF DbStep, SaveRowStep, SaveListStep, FindNoneStep, FindStep, ReadListStep,
                         ContributeStep, MarkStep, DbFrame
    <2>2. /\ 1 \in DOMAIN requests /\ requests[1] = h /\ fetches' = fetches
          /\ \A i \in DOMAIN requests' : i + 1 \in DOMAIN requests /\ requests'[i] = requests[i + 1]
          /\ \A i \in DOMAIN replies' :
               (i \in DOMAIN replies /\ replies'[i] = replies[i]) \/ replies'[i] = a
          /\ Len(replies) + 1 \in DOMAIN replies' /\ replies'[Len(replies) + 1] = a
      BY <2>1, AnsweredAt DEF DbFrame
    <2>3. /\ \A i \in DOMAIN rows' :
               \/ \E j \in DOMAIN rows : /\ rows'[i].entry = rows[j].entry
                                         /\ rows[j].done => rows'[i].done
                                         /\ SaveRowStep(h, a) => rows[j].entry # h.job.entry
               \/ SaveRowStep(h, a) /\ rows'[i].entry = h.job.entry
          /\ MarkStep(h, a) =>
               \A i \in DOMAIN rows' : rows'[i].entry = h.job.entry => rows'[i].done
      BY <1>17, RowsAfter
    <2>4. SaveRowStep(h, a) => h.op = "save_row" /\ a = Reply("save_row", h.job, TRUE)
      BY DEF SaveRowStep
    <2>5. ASSUME SaveRowStep(h, a), ~Fl2(h.job.entry)
          PROVE  C(h.job.entry) = 0
      <3>1. CASE h.job.caller = "Contribution"
        <4>1. InFlowReply(a) /\ a.job = h.job
          BY <2>4, <2>5, <3>1 DEF InFlowReply, InFlow, Reply
        <4>2. QED
          BY <2>2, <2>5, <4>1 DEF Fl2, FlowIn
      <3>2. CASE h.job.caller # "Contribution"
        <4>1. Makes(requests[1])
          BY <2>2, <2>4, <2>5, <3>2 DEF Makes
        <4>2. Committed(requests[1].job.entry) = 0
          BY <2>2, <4>1, UnsavedUncommitted
        <4>3. QED
          BY <2>2, <4>2 DEF C
      <3>3. QED
        BY <3>1, <3>2
    <2>6. \A i \in DOMAIN rows' : ~rows'[i].done /\ ~Fl2(rows'[i].entry) => C(rows'[i].entry) = 0
      BY <1>15, <2>3, <2>5
    <2>7. ASSUME a.op = "publishers" \/ (a.op = "first" /\ a.ok)
          PROVE  C(a.job.entry) = 0
      <3>1. ASSUME NEW k \in DOMAIN rows, FindStep(h, a, k)
            PROVE  C(a.job.entry) = 0
        <4>1. ~Processing /\ ~rows[k].done /\ a.job.entry = rows[k].entry
          BY <3>1 DEF FindStep, Reply, NewJob
        <4>2. fetches = <<>> /\ DOMAIN <<>> = {}
          BY <4>1 DEF Processing
        <4>3. ~Fl(rows[k].entry)
          BY <4>1, <4>2 DEF Processing, Fl, FlowOf, FlowIn, InFlowReply
        <4>4. QED
          BY <1>3, <4>1, <4>3
      <3>2. CASE ReadListStep(h, a)
        <4>1. h.op = "publishers" /\ a.job = h.job
          BY <3>2 DEF ReadListStep, Reply
        <4>2. QED
          BY <1>3, <2>2, <4>1
      <3>3. CASE FindNoneStep(h, a)
        <4>1. a.op = "first" /\ a.ok = FALSE
          BY <3>3, NothingIn DEF FindNoneStep
        <4>2. QED
          BY <2>7, <4>1
      <3>4. QED
        BY <1>17, <2>1, <2>7, <3>1, <3>2, <3>3 DEF DbStep, SaveRowStep, SaveListStep,
             ContributeStep, MarkStep, Reply
    <2>8. a.op = "mark" => \A j \in DOMAIN rows' : rows'[j].entry = a.job.entry => rows'[j].done
      <3> SUFFICES ASSUME a.op = "mark"
                   PROVE  \A j \in DOMAIN rows' : rows'[j].entry = a.job.entry => rows'[j].done
        OBVIOUS
      <3>1. MarkStep(h, a)
        <4>1. ~FindNoneStep(h, a)
          BY NothingIn DEF FindNoneStep
        <4>2. \A k \in DOMAIN rows : ~FindStep(h, a, k)
          BY DEF FindStep, Reply
        <4>3. QED
          BY <1>17, <2>1, <4>1, <4>2 DEF DbStep, SaveRowStep, SaveListStep, ReadListStep,
                                         ContributeStep, Reply
      <3>2. a.job = h.job
        BY <3>1 DEF MarkStep, Reply
      <3>3. QED
        BY <2>3, <3>1, <3>2
    <2>9. ASSUME NEW i \in DOMAIN replies, replies[i].op = "mark", NEW j \in DOMAIN rows',
                 rows'[j].entry = replies[i].job.entry
          PROVE  rows'[j].done
      <3>1. ASSUME SaveRowStep(h, a), rows'[j].entry = h.job.entry
            PROVE  FALSE
        <4>1. InFlowReply(replies[i])
          BY <2>9 DEF InFlowReply, InFlow
        <4>2. ~InFlow(requests[1])
          BY <1>4, <2>2, <4>1, FlowAlone
        <4>3. Makes(requests[1])
          BY <2>2, <2>4, <3>1, <4>2 DEF Makes, InFlow
        <4>4. ~ReplyAbout(replies[i], requests[1].job.entry)
          BY <2>2, <4>3 DEF MakerInv
        <4>5. QED
          BY <2>2, <2>9, <3>1, <4>4 DEF ReplyAbout
      <3>2. QED
        BY <1>3, <2>3, <2>9, <3>1
    <2>10. \A i \in DOMAIN requests' : requests'[i].op = "publishers" => C(requests'[i].job.entry) = 0
      BY <1>3, <2>2
    <2>11. \A i \in DOMAIN fetches' : C(fetches'[i].entry) = 0
      BY <1>3, <2>2
    <2>12. \A i \in DOMAIN replies' :
             replies'[i].op = "publishers" \/ (replies'[i].op = "first" /\ replies'[i].ok)
               => C(replies'[i].job.entry) = 0
      BY <1>3, <2>2, <2>7
    <2>13. \A i \in DOMAIN replies' : replies'[i].op = "mark" =>
             \A j \in DOMAIN rows' : rows'[j].entry = replies'[i].job.entry => rows'[j].done
      BY <2>2, <2>8, <2>9
    <2>14. QED
      BY <2>6, <2>10, <2>11, <2>12, <2>13
  <1>18. ASSUME NEW m \in Requests(asked), SendStep(m)
         PROVE  Rest
    <2>1. /\ HandlerFrame /\ Sends(g, m) /\ requests' = Append(requests, m)
          /\ UNCHANGED <<fetches, rows>> /\ replies # <<>>
      BY <1>18 DEF SendStep, HandlerFrame
    <2>2. /\ 1 \in DOMAIN replies /\ replies[1] = g
          /\ \A i \in DOMAIN replies' : i + 1 \in DOMAIN replies /\ replies'[i] = replies[i + 1]
      BY <2>1, HandledAt
    <2>3. \A i \in DOMAIN requests' :
            (i \in DOMAIN requests /\ requests'[i] = requests[i]) \/ requests'[i] = m
      BY <2>1, PostedAt
    <2>4. m.op = "publishers" => g.op = "first" /\ g.ok /\ m.job = g.job
      <3>1. g \in Replies(asked)
        BY <2>1, HeadsAre
      <3>2. m.op = "publishers" => g.op = "first"
        BY <2>1, <3>1, SentAbout
      <3>3. QED
        BY <2>1, <3>2 DEF Sends, Request
    <2>5. QED
      BY <1>3, <1>15, <2>1, <2>2, <2>3, <2>4
  <1>19. CASE FetchStep
    <2> DEFINE j0 == [g.job EXCEPT !.listed = g.ok]
    <2>1. /\ HandlerFrame /\ g.op = "publishers" /\ UNCHANGED <<requests, rows>>
          /\ fetches' = Append(fetches, j0) /\ replies # <<>>
      BY <1>19 DEF FetchStep, HandlerFrame
    <2>2. /\ 1 \in DOMAIN replies /\ replies[1] = g
          /\ \A i \in DOMAIN replies' : i + 1 \in DOMAIN replies /\ replies'[i] = replies[i + 1]
      BY <2>1, HandledAt
    <2>3. g.job.entry \in Entries
      BY <2>1, HeadsAre, RepliesAre, JobParts
    <2>4. j0 \in Waiting(asked) /\ j0.entry = g.job.entry
      BY <1>19, <2>3, FetchMoves
    <2> HIDE DEF j0
    <2>5. \A i \in DOMAIN fetches' : (i \in DOMAIN fetches /\ fetches'[i] = fetches[i]) \/ fetches'[i] = j0
      BY <2>1, <2>4, WaitsAt
    <2>6. QED
      BY <1>3, <1>15, <2>1, <2>2, <2>4, <2>5
  <1>20. CASE PokeStep
    <2>1. UNCHANGED <<replies, fetches, rows>> /\ NoRequest \in Requests(asked) /\ NoRequest.op = "first"
      BY <1>20, NothingIn DEF PokeStep
    <2>2. \A i \in DOMAIN requests' :
            (i \in DOMAIN requests /\ requests'[i] = requests[i]) \/ requests'[i] = NoRequest
      BY <1>20, <2>1, PostedAt DEF PokeStep
    <2>3. QED
      BY <1>3, <1>15, <2>1, <2>2
  <1>21. CASE UNCHANGED vars
    <2>1. UNCHANGED <<replies, fetches, rows, requests>>
      BY <1>21 DEF vars, tables
    <2>2. QED
      BY <1>3, <1>15, <2>1
  <1>22. QED
    BY <1>2, <1>10, <1>13, <1>16, <1>17, <1>18, <1>19, <1>20, <1>21 DEF QueueStep


-----------------------------------------------------------------------------
(* Tips: all or nothing.                                                   *)

(* While nothing is committed for an entry, its messages carry the whole   *)
(* amount: no reply of a saved contribution leaves something to save.      *)
LEMMA WholeMoves ==
  ASSUME ShapeInv, QueueStep, dbErrors' = 0, crashes' = 0,
         NEW e \in Entries, e \notin AutoContributions,
         Committed(e) = 0, Whole(e), NEW b, b = asked[e],
         \A E \in SUBSET Entries : MakeStep(E) => e \notin E
  PROVE  WholeIn(rows', requests', replies', fetches', e, b)
  <1> DEFINE h == Head(requests)
             g == Head(replies)
             GRows == \A i \in DOMAIN rows' : rows'[i].entry = e => rows'[i].amount = b
             GRequests == \A i \in DOMAIN requests' :
                            RequestAbout(requests'[i], e) => requests'[i].job.amount = b
             GReplies == \A i \in DOMAIN replies' :
                            ReplyAbout(replies'[i], e) => replies'[i].job.amount = b
             GFetches == \A i \in DOMAIN fetches' : fetches'[i].entry = e => fetches'[i].amount = b
             Goal == GRows /\ GRequests /\ GReplies /\ GFetches
  <1> SUFFICES Goal
    BY DEF WholeIn
  <1>1. /\ \A i \in DOMAIN rows : rows[i].entry = e => rows[i].amount = b
        /\ \A i \in DOMAIN requests : RequestAbout(requests[i], e) => requests[i].job.amount = b
        /\ \A i \in DOMAIN replies : ReplyAbout(replies[i], e) => replies[i].job.amount = b
        /\ \A i \in DOMAIN fetches : fetches[i].entry = e => fetches[i].amount = b
    BY DEF Whole, WholeIn
  <1>2. ~Restart /\ \A a \in Replies(asked) : ~FailStep(h, a)
    BY ErrorsGrow
  <1>3. ASSUME NEW E \in SUBSET Entries, MakeStep(E)
        PROVE  Goal
    <2>1. /\ UNCHANGED <<replies, fetches, rows>> /\ e \notin E
          /\ \A i \in DOMAIN requests' :
               \/ i \in DOMAIN requests /\ requests'[i] = requests[i]
               \/ requests'[i].job.entry \in E
      BY <1>3 DEF MakeStep
    <2>2. QED
      BY <1>1, <2>1 DEF RequestAbout
  <1>4. ASSUME NEW a \in Replies(asked), DbStep(h, a)
        PROVE  Goal
    <2>1. DbFrame(a)
      BY <1>4 DEF DbStep, SaveRowStep, SaveListStep, FindNoneStep, FindStep, ReadListStep,
                  ContributeStep, MarkStep, FailStep
    <2>2. /\ 1 \in DOMAIN requests /\ requests[1] = h /\ fetches' = fetches
          /\ \A i \in DOMAIN requests' : i + 1 \in DOMAIN requests /\ requests'[i] = requests[i + 1]
          /\ \A i \in DOMAIN replies' :
               (i \in DOMAIN replies /\ replies'[i] = replies[i]) \/ replies'[i] = a
      BY <2>1, AnsweredAt DEF DbFrame
    <2>3. ReplyAbout(a, e) => a.job.amount = b
      <3>1. ASSUME NEW k \in DOMAIN rows, FindStep(h, a, k), rows[k].entry = e
            PROVE  a.job.amount = b
        <4>1. a.job.amount = rows[k].amount
          BY <3>1 DEF FindStep, Reply, NewJob
        <4>2. QED
          BY <1>1, <3>1, <4>1
      <3>2. QED
        BY <1>1, <1>4, <2>2, <3>1, AnswerAbout
    <2>4. GRows
      <3>1. CASE SaveRowStep(h, a)
        <4> DEFINE r == NewRow(h.job)
        <4>1. h \in Requests(asked) /\ h.op = "save_row"
          BY <3>1, HeadsAre DEF SaveRowStep, DbFrame
        <4>2. h.job \in Job /\ JobOk(h.op, h.job, asked)
          BY <4>1, RequestsAre
        <4>3. r \in Rows(asked) /\ r.entry = h.job.entry /\ r.amount = h.job.amount
          BY <4>2, JobParts DEF JobOk, Rows, NewRow
        <4>4. rows' = Append(OtherRows(r.entry), r)
          BY <3>1, <4>3 DEF SaveRowStep
        <4> HIDE DEF r
        <4>5. \A i \in DOMAIN rows' : rows'[i] = r \/ \E j \in DOMAIN rows : rows'[i] = rows[j]
          BY <4>3, <4>4, RowReplaced
        <4>6. r.entry = e => r.amount = b
          BY <1>1, <2>2, <4>1, <4>3 DEF RequestAbout
        <4>7. QED
          BY <1>1, <4>5, <4>6
      <3>2. CASE MarkStep(h, a)
        <4>1. /\ DOMAIN rows' = DOMAIN rows
              /\ \A i \in DOMAIN rows : rows'[i].entry = rows[i].entry /\ rows'[i].amount = rows[i].amount
          BY <3>2, RowsMarked DEF MarkStep
        <4>2. QED
          BY <1>1, <4>1
      <3>3. CASE rows' = rows
        BY <1>1, <3>3
      <3>4. QED
        BY <1>4, <3>1, <3>2, <3>3 DEF DbStep, SaveListStep, FindNoneStep, FindStep, ReadListStep,
                                      ContributeStep, FailStep
    <2>5. QED
      BY <1>1, <2>2, <2>3, <2>4
  <1>5. ASSUME NEW m \in Requests(asked), SendStep(m)
        PROVE  Goal
    <2>1. /\ HandlerFrame /\ Sends(g, m) /\ requests' = Append(requests, m)
          /\ UNCHANGED <<fetches, rows>> /\ replies # <<>>
      BY <1>5 DEF SendStep, HandlerFrame
    <2>2. /\ 1 \in DOMAIN replies /\ replies[1] = g
          /\ \A i \in DOMAIN replies' : i + 1 \in DOMAIN replies /\ replies'[i] = replies[i + 1]
      BY <2>1, HandledAt
    <2>3. \A i \in DOMAIN requests' :
            (i \in DOMAIN requests /\ requests'[i] = requests[i]) \/ requests'[i] = m
      BY <2>1, PostedAt
    <2>4. g \in Replies(asked)
      BY <2>1, HeadsAre
    <2>5. ASSUME RequestAbout(m, e)
          PROVE  m.job.amount = b
      <3>1. ReplyAbout(g, e) /\ g.job.amount = b
        BY <1>1, <2>1, <2>2, <2>4, <2>5, SentAbout
      <3>2. g.job \in Job /\ JobOk(g.op, g.job, asked) /\ g.job.entry = e
        BY <2>4, <3>1, RepliesAre DEF ReplyAbout
      <3>3. CASE g.op = "save_contribution" /\ g.ok /\ Left(g.job) > 0
        <4>1. replies \in Seq(AllReplies) /\ requests \in Seq(AllRequests) /\ asked \in [Entries -> Nat]
              /\ asked[e] \in Nat /\ paid[e] \in Nat
          BY ChannelTypes, MadeType
        <4>2. g.job.wallet \in Wallets
          BY <3>2, <3>3 DEF JobOk
        <4>3. Commits(g.op, g.job, e)
          BY <3>2, <3>3, <4>2 DEF Commits, Wallets, NoWallet
        <4>4. ReplyOwes(e)[g] = Left(g.job) /\ ReplyOwes(e)[g] \in Nat /\ ReplyOwes(e)[g] <= asked[e]
          BY <2>4, <3>3, <4>1, <4>3, ReplyWorth
        <4>5. RequestOwes(e) \in [AllRequests -> Nat] /\ ReplyOwes(e) \in [AllReplies -> Nat]
          BY WeightTypes
        <4> DEFINE W == ReplyOwes(e)
                   V == RequestOwes(e)
                   c == asked[e]
        <4>6. W[replies[1]] = Left(g.job) /\ W[replies[1]] <= c /\ c \in Nat
          BY <2>2, <4>1, <4>4
        <4>7. W \in [AllReplies -> Nat] /\ V \in [AllRequests -> Nat]
          BY <4>5
        <4> HIDE DEF W, V, c
        <4>8. W[replies[1]] <= SumOf(replies, W, c)
          BY <2>2, <4>1, <4>6, <4>7, SumAtLeast
        <4>9. SumOf(requests, V, c) \in Nat /\ SumOf(replies, W, c) \in Nat
          BY <4>1, <4>6, <4>7, SumType
        <4>10. Committed(e) = paid[e] + (SumOf(requests, V, c) + SumOf(replies, W, c))
          BY DEF Committed, Owed, Both, V, W, c
        <4>11. Left(g.job) \in Nat
          BY <3>2, <4>2, LeftIs
        <4>12. QED
          BY <3>3, <4>1, <4>6, <4>8, <4>9, <4>10, <4>11
      <3>4. CASE g.op = "save_publishers" /\ Continues(g.job, m)
        <4>1. PICK w \in Wallets : m = Request("save_contribution", [g.job EXCEPT !.wallet = w])
          BY <3>4 DEF Continues
        <4> DEFINE moved == [g.job EXCEPT !.wallet = w]
        <4>2. moved.amount = g.job.amount /\ m.job = moved
          BY <3>2, <4>1, JobMoved DEF Request
        <4> HIDE DEF moved
        <4>3. QED
          BY <3>1, <4>2
      <3>5. CASE m.job = g.job
        BY <3>1, <3>5
      <3>6. m # NoRequest
        BY <2>5 DEF RequestAbout, NoRequest, Request
      <3>7. QED
        BY <2>1, <3>3, <3>4, <3>5, <3>6 DEF Sends, Request
    <2>6. QED
      BY <1>1, <2>1, <2>2, <2>3, <2>5
  <1>6. CASE EndStep
    <2>1. HandlerFrame /\ UNCHANGED <<requests, fetches, rows>>
      BY <1>6 DEF EndStep, HandlerFrame
    <2>2. \A i \in DOMAIN replies' : i + 1 \in DOMAIN replies /\ replies'[i] = replies[i + 1]
      BY <2>1, HandledAt
    <2>3. QED
      BY <1>1, <2>1, <2>2
  <1>7. CASE FetchStep
    <2> DEFINE j0 == [g.job EXCEPT !.listed = g.ok]
    <2>1. /\ HandlerFrame /\ g.op = "publishers" /\ UNCHANGED <<requests, rows>>
          /\ fetches' = Append(fetches, j0) /\ replies # <<>>
      BY <1>7 DEF FetchStep, HandlerFrame
    <2>2. /\ 1 \in DOMAIN replies /\ replies[1] = g
          /\ \A i \in DOMAIN replies' : i + 1 \in DOMAIN replies /\ replies'[i] = replies[i + 1]
      BY <2>1, HandledAt
    <2>3. j0 \in Waiting(asked) /\ j0.entry = g.job.entry /\ j0.amount = g.job.amount
      BY <1>7, FetchMoves
    <2> HIDE DEF j0
    <2>4. \A i \in DOMAIN fetches' : (i \in DOMAIN fetches /\ fetches'[i] = fetches[i]) \/ fetches'[i] = j0
      BY <2>1, <2>3, WaitsAt
    <2>5. j0.entry = e => j0.amount = b
      BY <1>1, <2>1, <2>2, <2>3 DEF ReplyAbout
    <2>6. QED
      BY <1>1, <2>1, <2>2, <2>4, <2>5
  <1>8. ASSUME NEW k \in DOMAIN fetches, NEW m \in Requests(asked), BalanceStep(k, m)
        PROVE  Goal
    <2>1. /\ fetches' = RemoveAt(fetches, k) /\ requests' = Append(requests, m)
          /\ UNCHANGED <<replies, rows>>
      BY <1>8 DEF BalanceStep
    <2>2. \A i \in DOMAIN requests' :
            (i \in DOMAIN requests /\ requests'[i] = requests[i]) \/ requests'[i] = m
      BY <2>1, PostedAt
    <2>3. \A i \in DOMAIN fetches' : \E j \in DOMAIN fetches : fetches'[i] = fetches[j]
      BY <2>1, FetchedAt
    <2>4. RequestAbout(m, e) => m.job.amount = fetches[k].amount /\ fetches[k].entry = e
      BY <1>8 DEF BalanceStep, RequestAbout
    <2>5. QED
      BY <1>1, <2>1, <2>2, <2>3, <2>4
  <1>9. ASSUME NEW k \in DOMAIN fetches, FetchFailsStep(k)
        PROVE  Goal
    <2>1. fetches' = RemoveAt(fetches, k) /\ UNCHANGED <<requests, replies, rows>>
      BY <1>9 DEF FetchFailsStep
    <2>2. \A i \in DOMAIN fetches' : \E j \in DOMAIN fetches : fetches'[i] = fetches[j]
      BY <2>1, FetchedAt
    <2>3. QED
      BY <1>1, <2>1, <2>2
  <1>10. CASE PokeStep
    <2>1. UNCHANGED <<replies, fetches, rows>> /\ NoRequest \in Requests(asked) /\ NoRequest.op = "first"
      BY <1>10, NothingIn DEF PokeStep
    <2>2. \A i \in DOMAIN requests' :
            (i \in DOMAIN requests /\ requests'[i] = requests[i]) \/ requests'[i] = NoRequest
      BY <1>10, <2>1, PostedAt DEF PokeStep
    <2>3. QED
      BY <1>1, <2>1, <2>2 DEF RequestAbout
  <1>11. CASE UNCHANGED vars
    <2>1. UNCHANGED <<replies, fetches, rows, requests>>
      BY <1>11 DEF vars, tables
    <2>2. QED
      BY <1>1, <2>1
  <1>12. QED
    BY <1>2, <1>3, <1>4, <1>5, <1>6, <1>7, <1>8, <1>9, <1>10, <1>11 DEF QueueStep

LEMMA TipsKept ==
  ASSUME ShapeInv, PassInv, TipsInv, QueueStep
  PROVE  TipsInv'
  <1> SUFFICES ASSUME dbErrors' = 0, crashes' = 0
               PROVE  TipsInv'
    BY DEF TipsInv
  <1> DEFINE C2(e) == paid'[e] + Owed(requests', replies', e, asked'[e])
             W2(e) == WholeIn(rows', requests', replies', fetches', e, asked'[e])
             Goal == \A e \in Tips \cup RecurringTips :
                       C2(e) >= asked'[e] \/ (C2(e) = 0 /\ W2(e))
  <1>1. SUFFICES Goal
    <2>1. Goal => TipsInv'
      BY DEF TipsInv, Committed, Whole
    <2>2. QED
      BY <2>1
  <1> SUFFICES ASSUME NEW e \in Tips \cup RecurringTips
               PROVE  C2(e) >= asked'[e] \/ (C2(e) = 0 /\ W2(e))
    OBVIOUS
  <1>2. e \in Entries /\ e \notin AutoContributions
    BY EntriesAssumption DEF Entries
  <1>3. Committed(e) >= asked[e] \/ (Committed(e) = 0 /\ Whole(e))
    BY ErrorsGrow DEF TipsInv
  <1>4. /\ C2(e) \in Nat /\ Committed(e) \in Nat /\ asked[e] \in Nat /\ asked'[e] \in Nat
        /\ asked[e] # asked'[e] => \E E \in SUBSET Entries : e \in E /\ MakeStep(E)
        /\ \/ C2(e) = Committed(e)
           \/ \E i \in DOMAIN fetches, m \in Requests(asked) :
                /\ BalanceStep(i, m) /\ m.op = "save_contribution" /\ m.job.entry = e
                /\ C2(e) = Committed(e) + m.job.amount
    BY <1>2, CommittedMoves
  <1> HIDE DEF C2
  <1>5. ASSUME NEW E \in SUBSET Entries, MakeStep(E), e \in E
        PROVE  C2(e) = 0 /\ W2(e)
    <2>1. asked[e] = 0
      BY <1>5 DEF MakeStep
    <2>2. Committed(e) = 0
      <3>1. Committed(e) + Awaited(fetches, e, asked[e]) <= asked[e] * passes[e]
        BY <1>2 DEF PassInv
      <3>2. passes[e] \in Nat /\ Awaited(fetches, e, asked[e]) \in Nat
        BY <1>2, MadeType, SumsTypes
      <3>3. asked[e] * passes[e] = 0
        BY <2>1, <3>2
      <3>4. QED
        BY <1>4, <3>1, <3>2, <3>3
    <2>3. C2(e) = 0
      <3>1. \A i \in DOMAIN fetches, m \in Requests(asked) : BalanceStep(i, m) => m.job.entry # e
        <4>1. \A i \in DOMAIN fetches : fetches[i].entry # e
          BY <1>2, <2>1, NothingUnmade
        <4>2. QED
          BY <4>1 DEF BalanceStep
      <3>2. QED
        BY <1>4, <2>2, <3>1
    <2>4. /\ \A i \in DOMAIN requests : ~RequestAbout(requests[i], e)
          /\ \A i \in DOMAIN replies : ~ReplyAbout(replies[i], e)
          /\ \A i \in DOMAIN fetches : fetches[i].entry # e
          /\ \A i \in DOMAIN rows : rows[i].entry # e
      BY <1>2, <2>1, NothingUnmade
    <2>5. /\ UNCHANGED <<rows, replies, fetches>>
          /\ \A i \in DOMAIN requests : requests'[i] = requests[i]
          /\ \A i \in DOMAIN requests' : i \notin DOMAIN requests =>
               requests'[i].job.amount = asked'[requests'[i].job.entry]
      BY <1>5 DEF MakeStep
    <2>6. W2(e)
      BY <2>4, <2>5 DEF WholeIn, RequestAbout
    <2>7. QED
      BY <2>3, <2>6
  <1>6. CASE \A E \in SUBSET Entries : MakeStep(E) => e \notin E
    <2>1. asked'[e] = asked[e]
      BY <1>4, <1>6
    <2>2. CASE Committed(e) = 0 /\ Whole(e)
      <3>1. WholeIn(rows', requests', replies', fetches', e, asked[e])
        BY <1>2, <1>6, <2>2, WholeMoves
      <3>2. W2(e)
        BY <2>1, <3>1
      <3>3. ASSUME NEW i \in DOMAIN fetches, NEW m \in Requests(asked), BalanceStep(i, m),
                   m.op = "save_contribution", m.job.entry = e, C2(e) = Committed(e) + m.job.amount
            PROVE  C2(e) >= asked'[e]
        <4>1. m.job.amount = fetches[i].amount /\ fetches[i].entry = e
          BY <1>2, <3>3 DEF BalanceStep
        <4>2. fetches[i].amount = asked[e]
          BY <2>2, <4>1 DEF Whole, WholeIn
        <4>3. QED
          BY <1>4, <2>1, <2>2, <3>3, <4>1, <4>2
      <3> HIDE DEF W2
      <3>4. QED
        BY <1>4, <2>2, <3>2, <3>3
    <2>3. CASE Committed(e) >= asked[e]
      <3>1. \A m \in Requests(asked) : m.op = "save_contribution" => m.job.amount \in Nat
        BY RequestsAre, JobParts
      <3> HIDE DEF W2
      <3>2. CASE C2(e) = Committed(e)
        BY <1>4, <2>1, <2>3, <3>2
      <3>3. ASSUME NEW m \in Requests(asked), m.op = "save_contribution",
                   C2(e) = Committed(e) + m.job.amount
            PROVE  C2(e) >= asked'[e]
        <4>1. m.job.amount \in Nat
          BY <3>1, <3>3
        <4>2. QED
          BY <1>4, <2>1, <2>3, <3>3, <4>1
      <3>4. QED
        BY <1>4, <3>2, <3>3
    <2>4. QED
      BY <1>3, <2>2, <2>3
  <1>7. QED
    BY <1>5, <1>6


-----------------------------------------------------------------------------
(* Completed is served.                                                    *)

LEMMA PaidGrows ==
  ASSUME ShapeInv, QueueStep, NEW e \in Entries
  PROVE  /\ paid'[e] \in Nat /\ paid[e] \in Nat /\ paid[e] <= paid'[e]
         /\ refused \subseteq refused'
         /\ \A a \in Replies(asked) :
              ContributeStep(Head(requests), a) /\ Head(requests).job.entry = e => paid'[e] > 0
  <1> DEFINE h == Head(requests)
             Goal == /\ paid'[e] \in Nat /\ paid[e] \in Nat /\ paid[e] <= paid'[e]
                     /\ refused \subseteq refused'
                     /\ \A a \in Replies(asked) :
                          ContributeStep(h, a) /\ h.job.entry = e => paid'[e] > 0
  <1> SUFFICES Goal
    OBVIOUS
  <1>1. paid[e] \in Nat /\ paid \in [Entries -> Nat]
    BY MadeType DEF ShapeInv
  <1>2. ASSUME NEW a \in Replies(asked), ContributeStep(h, a)
        PROVE  Goal
    <2>1. /\ h.op = "save_contribution" /\ refused' = refused
          /\ paid' = [paid EXCEPT ![h.job.entry] = @ + (h.job.amount - Left(h.job))]
      BY <1>2 DEF ContributeStep, DbFrame
    <2>2. h \in Requests(asked)
      BY <1>2, HeadsAre DEF ContributeStep, DbFrame
    <2>3. h.job \in Job /\ JobOk(h.op, h.job, asked)
      BY <2>1, <2>2, RequestsAre
    <2>4. /\ h.job.wallet \in Wallets /\ 0 < h.job.balance[h.job.wallet] /\ 0 < h.job.amount
          /\ h.job.amount \in Nat /\ h.job.entry \in Entries
      BY <2>1, <2>3, JobParts DEF JobOk
    <2>5. Left(h.job) \in Nat /\ Left(h.job) < h.job.amount
      BY <2>3, <2>4, LeftIs
    <2> DEFINE d == h.job.amount - Left(h.job)
               x == h.job.entry
    <2>6. d \in Nat /\ d > 0
      BY <2>4, <2>5
    <2>7. paid' = [paid EXCEPT ![x] = @ + d] /\ x \in Entries
      BY <2>1, <2>4
    <2> HIDE DEF d
    <2>8. (x = e => paid'[e] = paid[e] + d) /\ (x # e => paid'[e] = paid[e])
      BY <1>1, <2>7
    <2> HIDE DEF x
    <2>9. paid'[e] \in Nat /\ paid[e] <= paid'[e] /\ (x = e => paid'[e] > 0)
      BY <1>1, <2>6, <2>8
    <2>10. QED
      BY <1>1, <2>1, <2>9 DEF x
  <1>3. CASE paid' = paid /\ refused \subseteq refused'
    <2>1. CASE \E a \in Replies(asked) : ContributeStep(h, a)
      BY <1>2, <2>1
    <2>2. CASE \A a \in Replies(asked) : ~ContributeStep(h, a)
      BY <1>1, <1>3, <2>2
    <2>3. QED
      BY <2>1, <2>2
  <1>4. QED
    BY <1>2, <1>3 DEF QueueStep, MakeStep, DbStep, SaveRowStep, SaveListStep, FindNoneStep, DbFrame,
         FindStep, ReadListStep, MarkStep, FailStep, SendStep, HandlerFrame, EndStep,
         FetchStep, BalanceStep, FetchFailsStep, PokeStep, Restart, vars, tables, history

LEMMA ServedKept ==
  ASSUME ShapeInv, OrderInv, ServedInv, QueueStep
  PROVE  ServedInv'
  <1> SUFFICES ASSUME dbErrors' = 0, crashes' = 0
               PROVE  ServedInv'
    BY DEF ServedInv
  <1> DEFINE h == Head(requests)
             g == Head(replies)
             Sv(e) == paid[e] > 0 \/ e \in refused
             Sv2(e) == paid'[e] > 0 \/ e \in refused'
             P(e) == paid[e] > 0
             P2(e) == paid'[e] > 0
             GRows == \A i \in DOMAIN rows' : rows'[i].done => Sv2(rows'[i].entry)
             GRequests == \A i \in DOMAIN requests' :
                            requests'[i].op = "mark" => Sv2(requests'[i].job.entry)
             GReplies == \A i \in DOMAIN replies' :
                           replies'[i].op = "save_contribution" => P2(replies'[i].job.entry)
             GFetches == \A i \in DOMAIN fetches' : fetches'[i].listed
             Goal == GRows /\ GRequests /\ GReplies /\ GFetches
  <1>1. SUFFICES Goal
    <2>1. Goal => ServedInv'
      BY DEF ServedInv, Served
    <2>2. QED
      BY <2>1
  <1>2. /\ dbErrors = 0 /\ crashes = 0 /\ ~Restart /\ \A a \in Replies(asked) : ~FailStep(h, a)
    BY ErrorsGrow
  <1>3. /\ \A i \in DOMAIN rows : rows[i].done => Sv(rows[i].entry)
        /\ \A i \in DOMAIN requests : requests[i].op = "mark" => Sv(requests[i].job.entry)
        /\ \A i \in DOMAIN replies : replies[i].op = "save_contribution" => P(replies[i].job.entry)
        /\ \A i \in DOMAIN fetches : fetches[i].listed
    BY <1>2 DEF ServedInv, Served
  <1>4. \A e \in Entries : (Sv(e) => Sv2(e)) /\ (P(e) => P2(e)) /\ (P(e) => Sv(e))
    <2> TAKE e \in Entries
    <2>1. paid'[e] \in Nat /\ paid[e] \in Nat /\ paid[e] <= paid'[e] /\ refused \subseteq refused'
      BY PaidGrows
    <2>2. paid[e] > 0 => paid'[e] > 0
      BY <2>1
    <2>3. QED
      BY <2>1, <2>2
  <1>5. /\ \A i \in DOMAIN requests : requests[i].op # "first" => requests[i].job.entry \in Entries
        /\ \A i \in DOMAIN replies :
             replies[i].op # "first" \/ replies[i].ok => replies[i].job.entry \in Entries
        /\ \A i \in DOMAIN rows : rows[i].entry \in Entries
    BY EntriesOf
  <1>6. ASSUME NEW a \in Replies(asked), ContributeStep(h, a)
        PROVE  P2(h.job.entry)
    <2>1. h = requests[1] /\ 1 \in DOMAIN requests /\ h.op = "save_contribution"
      BY <1>6, HeadsAre DEF ContributeStep, DbFrame
    <2>2. h.job.entry \in Entries
      BY <1>5, <2>1
    <2>3. QED
      BY <1>6, <2>2, PaidGrows
  <1>7. \A i \in DOMAIN replies : replies[i].op = "publishers" => replies[i].ok
    BY <1>2 DEF OrderInv, InOrder
  <1>8. \A e : e \in refused' => Sv2(e)
    OBVIOUS
  <1> HIDE DEF Sv, Sv2, P, P2
  <1>9. /\ \A i \in DOMAIN rows : rows[i].done => Sv2(rows[i].entry)
        /\ \A i \in DOMAIN requests : requests[i].op = "mark" => Sv2(requests[i].job.entry)
        /\ \A i \in DOMAIN replies : replies[i].op = "save_contribution" =>
             P2(replies[i].job.entry) /\ Sv2(replies[i].job.entry)
    BY <1>3, <1>4, <1>5
  <1>10. ASSUME NEW E \in SUBSET Entries, MakeStep(E)
         PROVE  Goal
    <2>1. /\ UNCHANGED <<replies, fetches, rows>>
          /\ \A i \in DOMAIN requests' :
               \/ i \in DOMAIN requests /\ requests'[i] = requests[i]
               \/ requests'[i].op = "save_row"
      BY <1>10 DEF MakeStep
    <2>2. QED
      BY <1>3, <1>9, <2>1
  <1>11. ASSUME NEW a \in Replies(asked), DbStep(h, a)
         PROVE  Goal
    <2>1. ~FailStep(h, a) /\ DbFrame(a)
      BY <1>2, <1>11 DEF DbStep, SaveRowStep, SaveListStep, FindNoneStep, FindStep, ReadListStep,
                         ContributeStep, MarkStep
    <2>2. /\ 1 \in DOMAIN requests /\ requests[1] = h /\ fetches' = fetches
          /\ \A i \in DOMAIN requests' : i + 1 \in DOMAIN requests /\ requests'[i] = requests[i + 1]
          /\ \A i \in DOMAIN replies' :
               (i \in DOMAIN replies /\ replies'[i] = replies[i]) \/ replies'[i] = a
      BY <2>1, AnsweredAt DEF DbFrame
    <2>3. a.op = "save_contribution" => P2(a.job.entry)
      <3> SUFFICES ASSUME a.op = "save_contribution"
                   PROVE  P2(a.job.entry)
        OBVIOUS
      <3>1. ~FindNoneStep(h, a)
        BY NothingIn DEF FindNoneStep
      <3>2. \A k \in DOMAIN rows : ~FindStep(h, a, k)
        BY DEF FindStep, Reply
      <3>3. ContributeStep(h, a)
        BY <1>11, <2>1, <3>1, <3>2 DEF DbStep, SaveRowStep, SaveListStep, ReadListStep,
                                       MarkStep, Reply
      <3>4. a.job = h.job
        BY <3>3 DEF ContributeStep, Reply
      <3>5. QED
        BY <1>6, <3>3, <3>4
    <2>4. GRows
      <3>1. CASE SaveRowStep(h, a)
        <4> DEFINE r == NewRow(h.job)
        <4>1. h \in Requests(asked) /\ h.op = "save_row"
          BY <3>1, HeadsAre DEF SaveRowStep, DbFrame
        <4>2. h.job \in Job /\ JobOk(h.op, h.job, asked)
          BY <4>1, RequestsAre
        <4>3. r \in Rows(asked) /\ r.entry = h.job.entry /\ r.done = FALSE
          BY <4>2, JobParts DEF JobOk, Rows, NewRow
        <4>4. rows' = Append(OtherRows(r.entry), r)
          BY <3>1, <4>3 DEF SaveRowStep
        <4> HIDE DEF r
        <4>5. \A i \in DOMAIN rows' : rows'[i] = r \/ \E j \in DOMAIN rows : rows'[i] = rows[j]
          BY <4>3, <4>4, RowReplaced
        <4>6. QED
          BY <1>9, <4>3, <4>5
      <3>2. CASE MarkStep(h, a)
        <4>1. /\ DOMAIN rows' = DOMAIN rows
              /\ \A i \in DOMAIN rows : rows'[i].entry = rows[i].entry
              /\ \A i \in DOMAIN rows : rows[i].entry # h.job.entry => rows'[i].done = rows[i].done
          BY <3>2, RowsMarked DEF MarkStep
        <4>2. h.op = "mark"
          BY <3>2 DEF MarkStep
        <4>3. QED
          BY <1>9, <2>2, <4>1, <4>2
      <3>3. CASE rows' = rows
        BY <1>9, <3>3
      <3>4. QED
        BY <1>11, <3>1, <3>2, <3>3 DEF DbStep, SaveListStep, FindNoneStep, FindStep, ReadListStep,
                                      ContributeStep, FailStep
    <2>5. QED
      BY <1>3, <1>9, <2>2, <2>3, <2>4
  <1>12. ASSUME NEW m \in Requests(asked), SendStep(m)
         PROVE  Goal
    <2>1. /\ HandlerFrame /\ Sends(g, m) /\ requests' = Append(requests, m)
          /\ UNCHANGED <<fetches, rows>> /\ replies # <<>>
      BY <1>12 DEF SendStep, HandlerFrame
    <2>2. /\ 1 \in DOMAIN replies /\ replies[1] = g
          /\ \A i \in DOMAIN replies' : i + 1 \in DOMAIN replies /\ replies'[i] = replies[i + 1]
      BY <2>1, HandledAt
    <2>3. \A i \in DOMAIN requests' :
            (i \in DOMAIN requests /\ requests'[i] = requests[i]) \/ requests'[i] = m
      BY <2>1, PostedAt
    <2>4. m.op = "mark" => g.op = "save_contribution" /\ m.job.entry = g.job.entry
      <3> SUFFICES ASSUME m.op = "mark"
                   PROVE  g.op = "save_contribution" /\ m.job.entry = g.job.entry
        OBVIOUS
      <3>1. g \in Replies(asked)
        BY <2>1, HeadsAre
      <3>2. m.op # "first" /\ m.job.entry = g.job.entry
        BY <2>1, <3>1, SentAbout
      <3>3. m # NoRequest /\ ~Continues(g.job, m)
        BY DEF NoRequest, Continues, Request
      <3>4. QED
        BY <2>1, <3>2, <3>3 DEF Sends, Request
    <2>5. QED
      BY <1>3, <1>9, <2>1, <2>2, <2>3, <2>4
  <1>13. CASE EndStep
    <2>1. HandlerFrame /\ UNCHANGED <<requests, fetches, rows>>
      BY <1>13 DEF EndStep, HandlerFrame
    <2>2. \A i \in DOMAIN replies' : i + 1 \in DOMAIN replies /\ replies'[i] = replies[i + 1]
      BY <2>1, HandledAt
    <2>3. QED
      BY <1>3, <1>9, <2>1, <2>2
  <1>14. CASE FetchStep
    <2> DEFINE j0 == [g.job EXCEPT !.listed = g.ok]
    <2>1. /\ HandlerFrame /\ g.op = "publishers" /\ UNCHANGED <<requests, rows>>
          /\ fetches' = Append(fetches, j0) /\ replies # <<>>
      BY <1>14 DEF FetchStep, HandlerFrame
    <2>2. /\ 1 \in DOMAIN replies /\ replies[1] = g
          /\ \A i \in DOMAIN replies' : i + 1 \in DOMAIN replies /\ replies'[i] = replies[i + 1]
      BY <2>1, HandledAt
    <2>3. g.job.entry \in Entries
      BY <1>5, <2>1, <2>2
    <2>4. j0 \in Waiting(asked) /\ j0.listed = g.ok
      BY <1>14, <2>3, FetchMoves
    <2> HIDE DEF j0
    <2>5. \A i \in DOMAIN fetches' : (i \in DOMAIN fetches /\ fetches'[i] = fetches[i]) \/ fetches'[i] = j0
      BY <2>1, <2>4, WaitsAt
    <2>6. j0.listed
      BY <1>7, <2>1, <2>2, <2>4
    <2>7. QED
      BY <1>3, <1>9, <2>1, <2>2, <2>5, <2>6
  <1>15. ASSUME NEW k \in DOMAIN fetches, NEW m \in Requests(asked), BalanceStep(k, m)
         PROVE  Goal
    <2>1. /\ fetches' = RemoveAt(fetches, k) /\ requests' = Append(requests, m)
          /\ UNCHANGED <<replies, rows>>
      BY <1>15 DEF BalanceStep
    <2>2. \A i \in DOMAIN requests' :
            (i \in DOMAIN requests /\ requests'[i] = requests[i]) \/ requests'[i] = m
      BY <2>1, PostedAt
    <2>3. \A i \in DOMAIN fetches' : \E j \in DOMAIN fetches : fetches'[i] = fetches[j]
      BY <2>1, FetchedAt
    <2>4. m.op = "mark" => m.job.entry \in refused'
      BY <1>3, <1>15 DEF BalanceStep
    <2>5. QED
      BY <1>3, <1>8, <1>9, <2>1, <2>2, <2>3, <2>4
  <1>16. ASSUME NEW k \in DOMAIN fetches, FetchFailsStep(k)
         PROVE  Goal
    <2>1. fetches' = RemoveAt(fetches, k) /\ UNCHANGED <<requests, replies, rows>>
      BY <1>16 DEF FetchFailsStep
    <2>2. \A i \in DOMAIN fetches' : \E j \in DOMAIN fetches : fetches'[i] = fetches[j]
      BY <2>1, FetchedAt
    <2>3. QED
      BY <1>3, <1>9, <2>1, <2>2
  <1>17. CASE PokeStep
    <2>1. UNCHANGED <<replies, fetches, rows>> /\ NoRequest \in Requests(asked) /\ NoRequest.op = "first"
      BY <1>17, NothingIn DEF PokeStep
    <2>2. \A i \in DOMAIN requests' :
            (i \in DOMAIN requests /\ requests'[i] = requests[i]) \/ requests'[i] = NoRequest
      BY <1>17, <2>1, PostedAt DEF PokeStep
    <2>3. QED
      BY <1>3, <1>9, <2>1, <2>2
  <1>18. CASE UNCHANGED vars
    <2>1. UNCHANGED <<replies, fetches, rows, requests>>
      BY <1>18 DEF vars, tables
    <2>2. QED
      BY <1>3, <1>9, <2>1
  <1>19. QED
    BY <1>2, <1>10, <1>11, <1>12, <1>13, <1>14, <1>15, <1>16, <1>17, <1>18 DEF QueueStep


-----------------------------------------------------------------------------
(* A row before its publishers, in the order of the task runner.           *)

LEMMA OrderKept ==
  ASSUME ShapeInv, FlagInv, OrderInv, QueueStep
  PROVE  OrderInv'
  <1> SUFFICES ASSUME dbErrors' = 0, crashes' = 0
               PROVE  OrderInv'
    BY DEF OrderInv
  <1> DEFINE h == Head(requests)
             g == Head(replies)
             n == Len(requests)
             k == Len(replies)
             Rows2 == \A i \in DOMAIN rows' :
                        \/ rows'[i].entry \in shares'
                        \/ \E j \in DOMAIN requests' : /\ requests'[j].op = "save_publishers"
                                                       /\ requests'[j].job.entry = rows'[i].entry
                        \/ \E j \in DOMAIN replies' : /\ replies'[j].op = "save_row"
                                                      /\ replies'[j].job.entry = rows'[i].entry
             Found2 == \A i \in DOMAIN replies' : replies'[i].op = "first" /\ replies'[i].ok =>
                        \/ replies'[i].job.entry \in shares'
                        \/ \E j \in DOMAIN requests' : /\ requests'[j].op = "save_publishers"
                                                       /\ requests'[j].job.entry = replies'[i].job.entry
                        \/ \E j \in DOMAIN replies' : /\ j < i /\ replies'[j].op = "save_row"
                                                      /\ replies'[j].job.entry = replies'[i].job.entry
             Reads2 == \A i \in DOMAIN requests' : requests'[i].op = "publishers" =>
                        \/ requests'[i].job.entry \in shares'
                        \/ \E j \in DOMAIN requests' : /\ j < i /\ requests'[j].op = "save_publishers"
                                                       /\ requests'[j].job.entry = requests'[i].job.entry
             Read2 == \A i \in DOMAIN replies' : replies'[i].op = "publishers" => replies'[i].ok
             Goal == Rows2 /\ Found2 /\ Reads2 /\ Read2
  <1>1. /\ n \in Nat /\ DOMAIN requests = 1..n /\ k \in Nat /\ DOMAIN replies = 1..k
        /\ \A i \in DOMAIN requests : i < n + 1
        /\ \A i \in DOMAIN replies : i < k + 1
    <2>1. n \in Nat /\ DOMAIN requests = 1..n /\ k \in Nat /\ DOMAIN replies = 1..k
      BY DEF ShapeInv
    <2>2. QED
      BY <2>1
  <1>2. /\ \A i \in DOMAIN requests' : i < Len(requests') + 1 /\ i \in Nat
        /\ \A i \in DOMAIN replies' : i < Len(replies') + 1 /\ i \in Nat
    <2>1. requests' \in Seq(Requests(asked')) /\ replies' \in Seq(Replies(asked'))
      BY ShapeKept DEF ShapeInv
    <2>2. /\ Len(requests') \in Nat /\ DOMAIN requests' = 1..Len(requests')
          /\ Len(replies') \in Nat /\ DOMAIN replies' = 1..Len(replies')
      BY <2>1
    <2>3. QED
      BY <2>2
  <1>3. SUFFICES Goal
    <2>1. Goal => InOrder(rows', shares', requests', replies')
      BY <1>2 DEF InOrder, ListPosted, RowSaved
    <2>2. QED
      BY <2>1 DEF OrderInv
  <1>4. /\ dbErrors = 0 /\ crashes = 0 /\ ~Restart /\ \A a \in Replies(asked) : ~FailStep(h, a)
    BY ErrorsGrow
  <1>5. SavesAnswered
    BY <1>4 DEF FlagInv
  <1> DEFINE LP(e) == \E j \in DOMAIN requests : /\ requests[j].op = "save_publishers"
                                                 /\ requests[j].job.entry = e
             RS(e) == \E j \in DOMAIN replies : replies[j].op = "save_row" /\ replies[j].job.entry = e
             RB(e, i) == \E j \in DOMAIN replies : /\ j < i /\ replies[j].op = "save_row"
                                                   /\ replies[j].job.entry = e
             LB(e, i) == \E j \in DOMAIN requests : /\ j < i /\ requests[j].op = "save_publishers"
                                                    /\ requests[j].job.entry = e
  <1>6. /\ \A i \in DOMAIN rows : rows[i].entry \in shares \/ LP(rows[i].entry) \/ RS(rows[i].entry)
        /\ \A i \in DOMAIN replies : replies[i].op = "first" /\ replies[i].ok =>
             \/ replies[i].job.entry \in shares
             \/ LP(replies[i].job.entry) \/ RB(replies[i].job.entry, i)
        /\ \A i \in DOMAIN requests : requests[i].op = "publishers" =>
             requests[i].job.entry \in shares \/ LB(requests[i].job.entry, i)
        /\ \A i \in DOMAIN replies : replies[i].op = "publishers" => replies[i].ok
    <2>1. InOrder(rows, shares, requests, replies)
      BY <1>4 DEF OrderInv
    <2>2. QED
      BY <2>1 DEF InOrder, ListPosted, RowSaved
  <1>7. ASSUME NEW E \in SUBSET Entries, MakeStep(E)
        PROVE  Goal
    <2>1. /\ UNCHANGED <<replies, rows, shares>>
          /\ \A i \in DOMAIN requests : i \in DOMAIN requests' /\ requests'[i] = requests[i]
          /\ \A i \in DOMAIN requests' :
               \/ i \in DOMAIN requests /\ requests'[i] = requests[i]
               \/ requests'[i].op = "save_row"
      BY <1>7 DEF MakeStep
    <2>2. QED
      BY <1>6, <2>1
  <1>8. ASSUME NEW a \in Replies(asked), DbStep(h, a)
        PROVE  Goal
    <2>1. ~FailStep(h, a) /\ DbFrame(a)
      BY <1>4, <1>8 DEF DbStep, SaveRowStep, SaveListStep, FindNoneStep, FindStep, ReadListStep,
                        ContributeStep, MarkStep
    <2>2. /\ 1 \in DOMAIN requests /\ requests[1] = h
          /\ \A i \in DOMAIN requests' : i + 1 \in DOMAIN requests /\ requests'[i] = requests[i + 1]
          /\ \A i \in DOMAIN requests :
               i # 1 => i - 1 \in DOMAIN requests' /\ requests'[i - 1] = requests[i]
          /\ \A i \in DOMAIN replies : i \in DOMAIN replies' /\ replies'[i] = replies[i]
          /\ \A i \in DOMAIN replies' :
               \/ i \in DOMAIN replies /\ replies'[i] = replies[i]
               \/ i = k + 1 /\ replies'[i] = a
          /\ k + 1 \in DOMAIN replies' /\ replies'[k + 1] = a
      <3>1. DOMAIN replies' = 1..(k + 1) /\ replies'[k + 1] = a
        BY <2>1, AppendedAt DEF DbFrame, ShapeInv
      <3>2. \A i \in DOMAIN replies' : i \in DOMAIN replies \/ i = k + 1
        BY <1>1, <3>1
      <3>3. QED
        BY <2>1, <3>1, <3>2, AnsweredAt
    <2>3. shares \subseteq shares' /\ (h.op = "save_publishers" => h.job.entry \in shares')
      BY <1>8, <2>1 DEF DbStep, SaveRowStep, SaveListStep, FindNoneStep, FindStep, ReadListStep,
           ContributeStep, MarkStep
    <2> DEFINE LP2(e) == \E j \in DOMAIN requests' : /\ requests'[j].op = "save_publishers"
                                                     /\ requests'[j].job.entry = e
    <2>4. \A e : e \in shares \/ LP(e) => e \in shares' \/ LP2(e)
      BY <2>2, <2>3
    <2>5. Rows2
      <3>1. ASSUME NEW i \in DOMAIN rows', NEW j \in DOMAIN rows, rows'[i].entry = rows[j].entry
            PROVE  \/ rows'[i].entry \in shares'
                   \/ LP2(rows'[i].entry)
                   \/ \E l \in DOMAIN replies' : /\ replies'[l].op = "save_row"
                                                 /\ replies'[l].job.entry = rows'[i].entry
        <4>1. CASE rows[j].entry \in shares \/ LP(rows[j].entry)
          BY <2>4, <3>1, <4>1
        <4>2. CASE RS(rows[j].entry)
          BY <2>2, <3>1, <4>2
        <4>3. QED
          BY <1>6, <4>1, <4>2
      <3>2. ASSUME NEW i \in DOMAIN rows', SaveRowStep(h, a), rows'[i].entry = h.job.entry
            PROVE  \E l \in DOMAIN replies' : /\ replies'[l].op = "save_row"
                                              /\ replies'[l].job.entry = rows'[i].entry
        <4>1. a.op = "save_row" /\ a.job = h.job
          BY <3>2 DEF SaveRowStep, Reply
        <4>2. QED
          BY <2>2, <3>2, <4>1
      <3>3. \A i \in DOMAIN rows' :
              \/ \E j \in DOMAIN rows : rows'[i].entry = rows[j].entry
              \/ SaveRowStep(h, a) /\ rows'[i].entry = h.job.entry
        BY <1>8, RowsAfter
      <3>4. QED
        BY <3>1, <3>2, <3>3
    <2>6. ASSUME a.op = "first", a.ok
          PROVE  \/ a.job.entry \in shares'
                 \/ LP2(a.job.entry)
                 \/ RS(a.job.entry)
      <3>1. ~FindNoneStep(h, a)
        BY <2>6, NothingIn DEF FindNoneStep
      <3>2. PICK j \in DOMAIN rows : FindStep(h, a, j)
        BY <1>8, <2>1, <2>6, <3>1 DEF DbStep, SaveRowStep, SaveListStep, ReadListStep,
             ContributeStep, MarkStep, Reply
      <3>3. a.job.entry = rows[j].entry
        BY <3>2 DEF FindStep, Reply, NewJob
      <3>4. QED
        BY <1>6, <2>4, <3>3
    <2>7. Found2
      <3> SUFFICES ASSUME NEW i \in DOMAIN replies', replies'[i].op = "first", replies'[i].ok
                   PROVE  \/ replies'[i].job.entry \in shares'
                          \/ LP2(replies'[i].job.entry)
                          \/ \E j \in DOMAIN replies' : /\ j < i /\ replies'[j].op = "save_row"
                                                        /\ replies'[j].job.entry = replies'[i].job.entry
        OBVIOUS
      <3>1. CASE i \in DOMAIN replies /\ replies'[i] = replies[i]
        <4>1. \/ replies[i].job.entry \in shares \/ LP(replies[i].job.entry)
              \/ RB(replies[i].job.entry, i)
          BY <1>6, <3>1
        <4>2. CASE RB(replies[i].job.entry, i)
          BY <2>2, <3>1, <4>2
        <4>3. QED
          BY <2>4, <3>1, <4>1, <4>2
      <3>2. CASE i = k + 1 /\ replies'[i] = a
        <4>1. CASE RS(a.job.entry)
          BY <1>1, <2>2, <3>2, <4>1
        <4>2. QED
          BY <2>6, <3>2, <4>1
      <3>3. QED
        BY <2>2, <3>1, <3>2
    <2>8. Reads2
      <3> SUFFICES ASSUME NEW i \in DOMAIN requests', requests'[i].op = "publishers"
                   PROVE  \/ requests'[i].job.entry \in shares'
                          \/ \E j \in DOMAIN requests' : /\ j < i /\ requests'[j].op = "save_publishers"
                                                         /\ requests'[j].job.entry = requests'[i].job.entry
        OBVIOUS
      <3> DEFINE e == requests'[i].job.entry
      <3>1. i + 1 \in DOMAIN requests /\ requests'[i] = requests[i + 1] /\ i \in Nat
        BY <1>2, <2>2
      <3>2. e \in shares \/ LB(e, i + 1)
        BY <1>6, <3>1
      <3>3. ASSUME NEW j \in DOMAIN requests, j < i + 1, requests[j].op = "save_publishers",
                   requests[j].job.entry = e
            PROVE  \/ e \in shares'
                   \/ \E l \in DOMAIN requests' : /\ l < i /\ requests'[l].op = "save_publishers"
                                                  /\ requests'[l].job.entry = e
        <4>1. CASE j = 1
          BY <2>2, <2>3, <3>3, <4>1
        <4>2. CASE j # 1
          <5>1. j - 1 \in DOMAIN requests' /\ requests'[j - 1] = requests[j]
            BY <2>2, <4>2
          <5>2. j \in Nat /\ j - 1 < i
            BY <1>1, <3>1, <3>3
          <5>3. QED
            BY <3>3, <5>1, <5>2
        <4>3. QED
          BY <4>1, <4>2
      <3>4. QED
        BY <2>3, <3>2, <3>3
    <2>9. Read2
      <3>1. a.op = "publishers" => a.ok
        <4> SUFFICES ASSUME a.op = "publishers"
                     PROVE  a.ok
          OBVIOUS
        <4>1. ~FindNoneStep(h, a)
          BY NothingIn DEF FindNoneStep
        <4>2. \A j \in DOMAIN rows : ~FindStep(h, a, j)
          BY DEF FindStep, Reply
        <4>3. ReadListStep(h, a)
          BY <1>8, <2>1, <4>1, <4>2 DEF DbStep, SaveRowStep, SaveListStep, ContributeStep,
                                        MarkStep, Reply
        <4>4. h.op = "publishers" /\ a.ok = (h.job.entry \in shares)
          BY <4>3 DEF ReadListStep, Reply
        <4>5. ~LB(requests[1].job.entry, 1)
          BY <1>1
        <4>6. h.job.entry \in shares
          BY <1>6, <2>2, <4>4, <4>5
        <4>7. QED
          BY <4>4, <4>6
      <3>2. QED
        BY <1>6, <2>2, <3>1
    <2>10. QED
      BY <2>5, <2>7, <2>8, <2>9
  <1>9. ASSUME HandlerFrame, requests' = requests, g.op # "save_row"
        PROVE  Goal
    <2>1. UNCHANGED <<rows, shares, requests>>
      BY <1>9 DEF HandlerFrame
    <2>2. /\ 1 \in DOMAIN replies /\ replies[1] = g
          /\ \A i \in DOMAIN replies' : i + 1 \in DOMAIN replies /\ replies'[i] = replies[i + 1]
          /\ \A i \in DOMAIN replies : i # 1 => i - 1 \in DOMAIN replies' /\ replies'[i - 1] = replies[i]
      BY <1>9, HandledAt
    <2>3. \A e : RS(e) => \E j \in DOMAIN replies' : replies'[j].op = "save_row" /\ replies'[j].job.entry = e
      BY <1>9, <2>2
    <2>4. ASSUME NEW i \in DOMAIN replies', NEW e, RB(e, i + 1)
          PROVE  \E j \in DOMAIN replies' : j < i /\ replies'[j].op = "save_row" /\ replies'[j].job.entry = e
      <3>1. PICK j \in DOMAIN replies : j < i + 1 /\ replies[j].op = "save_row" /\ replies[j].job.entry = e
        BY <2>4
      <3>2. j # 1
        BY <1>9, <2>2, <3>1
      <3>3. j - 1 \in DOMAIN replies' /\ replies'[j - 1] = replies[j] /\ i + 1 \in DOMAIN replies
        BY <2>2, <3>2
      <3>4. j - 1 < i
        BY <1>1, <1>2, <2>2, <3>1, <3>3
      <3>5. QED
        BY <3>1, <3>3, <3>4
    <2>5. Rows2
      BY <1>6, <2>1, <2>3
    <2>6. Found2
      <3> SUFFICES ASSUME NEW i \in DOMAIN replies', replies'[i].op = "first", replies'[i].ok
                   PROVE  \/ replies'[i].job.entry \in shares
                          \/ LP(replies'[i].job.entry)
                          \/ \E j \in DOMAIN replies' : /\ j < i /\ replies'[j].op = "save_row"
                                                        /\ replies'[j].job.entry = replies'[i].job.entry
        BY <2>1
      <3>1. i + 1 \in DOMAIN replies /\ replies'[i] = replies[i + 1]
        BY <2>2
      <3> DEFINE e == replies'[i].job.entry
      <3>2. e \in shares \/ LP(e) \/ RB(e, i + 1)
        BY <1>6, <3>1
      <3>3. QED
        BY <2>4, <3>2
    <2>7. Reads2
      BY <1>6, <2>1
    <2>8. Read2
      BY <1>6, <2>2
    <2>9. QED
      BY <2>5, <2>6, <2>7, <2>8
  <1>10. CASE EndStep
    <2>1. HandlerFrame /\ requests' = requests /\ Ends(g)
      BY <1>10 DEF EndStep
    <2>2. 1 \in DOMAIN replies /\ replies[1] = g
      BY <2>1, HandledAt
    <2>3. g.op # "save_row"
      BY <1>5, <2>1, <2>2 DEF Ends, SavesAnswered
    <2>4. QED
      BY <1>9, <2>1, <2>3
  <1>11. CASE FetchStep
    BY <1>9, <1>11 DEF FetchStep
  <1>12. ASSUME NEW m \in Requests(asked), SendStep(m)
         PROVE  Goal
    <2>1. /\ HandlerFrame /\ Sends(g, m) /\ requests' = Append(requests, m)
          /\ UNCHANGED <<shares, rows>> /\ replies # <<>>
      BY <1>12 DEF SendStep, HandlerFrame
    <2>2. /\ 1 \in DOMAIN replies /\ replies[1] = g
          /\ \A i \in DOMAIN replies' : i + 1 \in DOMAIN replies /\ replies'[i] = replies[i + 1]
          /\ \A i \in DOMAIN replies : i # 1 => i - 1 \in DOMAIN replies' /\ replies'[i - 1] = replies[i]
      BY <2>1, HandledAt
    <2>3. /\ \A i \in DOMAIN requests : i \in DOMAIN requests' /\ requests'[i] = requests[i] /\ i < n + 1
          /\ \A i \in DOMAIN requests' :
               \/ i \in DOMAIN requests /\ requests'[i] = requests[i]
               \/ i = n + 1 /\ requests'[i] = m
          /\ n + 1 \in DOMAIN requests' /\ requests'[n + 1] = m
      BY <2>1, PostedAt
    <2> DEFINE LP2(e) == \E j \in DOMAIN requests' : /\ requests'[j].op = "save_publishers"
                                                     /\ requests'[j].job.entry = e
    <2>4. g.op = "save_row" => m.op = "save_publishers" /\ m.job.entry = g.job.entry
      <3>1. g \in Replies(asked)
        BY <2>1, HeadsAre
      <3>2. QED
        BY <2>1, <3>1, SentAbout
    <2>5. m.op = "publishers" => g.op = "first" /\ g.ok /\ m.job = g.job
      <3>1. g \in Replies(asked)
        BY <2>1, HeadsAre
      <3>2. m.op = "publishers" => g.op = "first"
        BY <2>1, <3>1, SentAbout
      <3>3. QED
        BY <2>1, <3>2 DEF Sends, Request
    <2>6. \A e : LP(e) \/ (g.op = "save_row" /\ g.job.entry = e) => LP2(e)
      BY <2>3, <2>4
    <2>7. \A e : RS(e) => \/ LP2(e)
                          \/ \E j \in DOMAIN replies' : replies'[j].op = "save_row" /\ replies'[j].job.entry = e
      BY <2>2, <2>6
    <2>8. ASSUME NEW i \in DOMAIN replies', NEW e, RB(e, i + 1)
          PROVE  \/ LP2(e)
                 \/ \E j \in DOMAIN replies' : j < i /\ replies'[j].op = "save_row" /\ replies'[j].job.entry = e
      <3>1. PICK j \in DOMAIN replies : j < i + 1 /\ replies[j].op = "save_row" /\ replies[j].job.entry = e
        BY <2>8
      <3>2. CASE j = 1
        BY <2>2, <2>6, <3>1, <3>2
      <3>3. CASE j # 1
        <4>1. j - 1 \in DOMAIN replies' /\ replies'[j - 1] = replies[j] /\ i + 1 \in DOMAIN replies
          BY <2>2, <3>3
        <4>2. j - 1 < i
          BY <1>1, <1>2, <2>2, <3>1, <4>1
        <4>3. QED
          BY <3>1, <4>1, <4>2
      <3>4. QED
        BY <3>2, <3>3
    <2>9. Rows2
      <3> SUFFICES ASSUME NEW i \in DOMAIN rows
                   PROVE  \/ rows[i].entry \in shares
                          \/ LP2(rows[i].entry)
                          \/ \E j \in DOMAIN replies' : /\ replies'[j].op = "save_row"
                                                        /\ replies'[j].job.entry = rows[i].entry
        BY <2>1
      <3> DEFINE e == rows[i].entry
      <3>1. e \in shares \/ LP(e) \/ RS(e)
        BY <1>6
      <3>2. QED
        BY <2>6, <2>7, <3>1
    <2>10. Found2
      <3> SUFFICES ASSUME NEW i \in DOMAIN replies', replies'[i].op = "first", replies'[i].ok
                   PROVE  \/ replies'[i].job.entry \in shares
                          \/ LP2(replies'[i].job.entry)
                          \/ \E j \in DOMAIN replies' : /\ j < i /\ replies'[j].op = "save_row"
                                                        /\ replies'[j].job.entry = replies'[i].job.entry
        BY <2>1
      <3>1. i + 1 \in DOMAIN replies /\ replies'[i] = replies[i + 1]
        BY <2>2
      <3> DEFINE e == replies'[i].job.entry
      <3>2. e \in shares \/ LP(e) \/ RB(e, i + 1)
        BY <1>6, <3>1
      <3>3. QED
        BY <2>6, <2>8, <3>2
    <2>11. Reads2
      <3>1. ASSUME NEW i \in DOMAIN requests, requests[i].op = "publishers"
            PROVE  \/ requests[i].job.entry \in shares'
                   \/ \E j \in DOMAIN requests' : /\ j < i /\ requests'[j].op = "save_publishers"
                                                  /\ requests'[j].job.entry = requests[i].job.entry
        BY <1>6, <2>1, <2>3, <3>1
      <3>2. ASSUME m.op = "publishers"
            PROVE  \/ m.job.entry \in shares'
                   \/ \E j \in DOMAIN requests' : /\ j < n + 1 /\ requests'[j].op = "save_publishers"
                                                  /\ requests'[j].job.entry = m.job.entry
        <4>1. ~RB(replies[1].job.entry, 1)
          BY <1>1
        <4>2. m.job.entry \in shares \/ LP(m.job.entry)
          BY <1>6, <2>2, <2>5, <3>2, <4>1
        <4>3. QED
          BY <2>1, <2>3, <4>2
      <3>3. QED
        BY <2>3, <3>1, <3>2
    <2>12. Read2
      BY <1>6, <2>2
    <2>13. QED
      BY <2>9, <2>10, <2>11, <2>12
  <1>13. ASSUME NEW m \in Requests(asked), requests' = Append(requests, m), m.op # "publishers",
                UNCHANGED <<replies, rows, shares>>
         PROVE  Goal
    <2>1. /\ \A i \in DOMAIN requests : i \in DOMAIN requests' /\ requests'[i] = requests[i]
          /\ \A i \in DOMAIN requests' :
               (i \in DOMAIN requests /\ requests'[i] = requests[i]) \/ requests'[i] = m
      BY <1>13, PostedAt
    <2>2. QED
      BY <1>6, <1>13, <2>1
  <1>14. ASSUME UNCHANGED <<requests, replies, rows, shares>>
         PROVE  Goal
    BY <1>6, <1>14
  <1>15. ASSUME NEW j \in DOMAIN fetches, NEW m \in Requests(asked), BalanceStep(j, m)
         PROVE  Goal
    BY <1>13, <1>15 DEF BalanceStep
  <1>16. ASSUME NEW j \in DOMAIN fetches, FetchFailsStep(j)
         PROVE  Goal
    BY <1>14, <1>16 DEF FetchFailsStep
  <1>17. CASE PokeStep
    <2>1. NoRequest \in Requests(asked) /\ NoRequest.op = "first"
      BY NothingIn
    <2>2. UNCHANGED <<replies, rows, shares>>
          /\ (requests' = requests \/ requests' = Append(requests, NoRequest))
      BY <1>17 DEF PokeStep
    <2>3. QED
      BY <1>13, <1>14, <2>1, <2>2
  <1>18. CASE UNCHANGED vars
    BY <1>14, <1>18 DEF vars, tables
  <1>19. QED
    BY <1>4, <1>7, <1>8, <1>10, <1>11, <1>12, <1>15, <1>16, <1>17, <1>18 DEF QueueStep


-----------------------------------------------------------------------------
(* The theorems.                                                           *)

LEMMA InitQueue ==
  ASSUME Init
  PROVE  QueueInv
  <1>1. ShapeInv
    BY ShapeInit
  <1>2. /\ rows = <<>> /\ requests = <<>> /\ replies = <<>> /\ fetches = <<>>
        /\ DOMAIN <<>> = {} /\ Len(<<>>) = 0
        /\ dbErrors = 0 /\ crashes = 0 /\ inProgress = FALSE
        /\ \A e \in Entries : paid[e] = 0 /\ asked[e] = 0 /\ passes[e] = 0
    BY DEF Init
  <1>3. \A e, b : Owed(<<>>, <<>>, e, b) = 0 /\ Awaited(<<>>, e, b) = 0
    BY SumOfNone DEF Owed, Both, Awaited
  <1>4. Flows(<<>>, <<>>, <<>>) = 0
    BY <1>2, SumOfNone DEF Flows, Both
  <1>5. \A e \in Entries : Committed(e) = 0
    BY <1>2, <1>3 DEF Committed
  <1>6. PassInv
    BY <1>2, <1>3, <1>5 DEF PassInv
  <1>7. MakerInv /\ FlagInv /\ FlowInv
    BY <1>2, <1>4 DEF MakerInv, FlagInv, SavesAnswered, FlowInv
  <1>8. OnceInv
    BY <1>2, <1>5 DEF OnceInv
  <1>9. TipsInv
    BY <1>2, <1>5 DEF TipsInv, Entries
  <1>10. ServedInv /\ OrderInv
    BY <1>2 DEF ServedInv, OrderInv, InOrder
  <1>11. QED
    BY <1>1, <1>6, <1>7, <1>8, <1>9, <1>10 DEF QueueInv

LEMMA NextQueue ==
  ASSUME QueueInv, [Next]_vars
  PROVE  QueueInv'
  <1>1. /\ ShapeInv /\ PassInv /\ MakerInv /\ FlagInv /\ FlowInv /\ OnceInv /\ TipsInv
        /\ ServedInv /\ OrderInv /\ QueueStep
    BY NextForms DEF QueueInv
  <1>2. ShapeInv'
    BY <1>1, ShapeKept
  <1>3. PassInv'
    BY <1>1, PassKept
  <1>4. MakerInv'
    BY <1>1, MakerKept
  <1>5. FlagInv'
    BY <1>1, FlagKept
  <1>6. FlowInv'
    BY <1>1, FlowKept
  <1>7. OnceInv'
    BY <1>1, OnceKept
  <1>8. TipsInv'
    BY <1>1, TipsKept
  <1>9. ServedInv' /\ OrderInv'
    BY <1>1, ServedKept, OrderKept
  <1>10. QED
    BY <1>2, <1>3, <1>4, <1>5, <1>6, <1>7, <1>8, <1>9 DEF QueueInv

(* The inductive invariant of the queue: the shape of rows and messages,   *)
(* what is committed and waited for against the amounts made, the entries  *)
(* whose row is not saved yet, the single flow, and the order of an        *)
(* entry's row and publishers in the two channels.                         *)
THEOREM Queue == Spec => []QueueInv
<1>1. Init => QueueInv
  BY InitQueue
<1>2. QueueInv /\ [Next]_vars => QueueInv'
  BY NextQueue
<1>3. QED
  BY <1>1, <1>2, PTL DEF Spec

(* The tables and the two channels stay well formed, and unless two flows  *)
(* ran at once an entry is committed at most once: CreateNewEntry,         *)
(* OnEntrySaved and the row saved again never add up to more than the      *)
(* entry was made with, for any wallets, amounts and balances.             *)
THEOREM PaidOnce == Spec => []QueueConsistent
<1>1. ASSUME QueueInv PROVE QueueConsistent
  <2>1. ShapeInv /\ OnceInv
    BY <1>1 DEF QueueInv
  <2>2. TypeOK
    BY <2>1, ShapeTypes
  <2>3. ASSUME dbErrors = 0, crashes = 0, ~overlapped, NEW e \in Entries
        PROVE  paid[e] <= asked[e]
    <3>1. Committed(e) <= asked[e]
      BY <2>1, <2>3 DEF OnceInv
    <3>2. /\ paid[e] \in Nat /\ asked[e] \in Nat /\ Owed(requests, replies, e, asked[e]) \in Nat
          /\ Committed(e) = paid[e] + Owed(requests, replies, e, asked[e])
      BY <2>1, MadeType, SumsTypes
    <3>3. QED
      BY <3>1, <3>2
  <2>4. QED
    BY <2>2, <2>3 DEF QueueConsistent, PaidOnceUnlessOverlapped
<1>2. QueueInv => QueueConsistent
  BY <1>1
<1>3. QED
  BY <1>2, Queue, PTL

(* Whatever fails, crashes or overlaps, what is paid for an entry is       *)
(* within its amount times the times it was taken from the queue: the      *)
(* split over the wallets (CreateNewEntry, OnEntrySaved) never commits     *)
(* more than the amount it started from.                                   *)
THEOREM PaidWithin == Spec => []PaidWithinPasses
<1>1. ASSUME QueueInv PROVE PaidWithinPasses
  <2> SUFFICES ASSUME NEW e \in Entries
               PROVE  paid[e] <= asked[e] * passes[e]
    BY DEF PaidWithinPasses
  <2>1. ShapeInv /\ PassInv
    BY <1>1 DEF QueueInv
  <2>2. Committed(e) + Awaited(fetches, e, asked[e]) <= asked[e] * passes[e]
    BY <2>1 DEF PassInv
  <2>3. /\ paid[e] \in Nat /\ asked[e] \in Nat /\ passes[e] \in Nat
        /\ Owed(requests, replies, e, asked[e]) \in Nat
        /\ Awaited(fetches, e, asked[e]) \in Nat
        /\ Committed(e) = paid[e] + Owed(requests, replies, e, asked[e])
    BY <2>1, MadeType, SumsTypes
  <2> DEFINE most == asked[e] * passes[e]
  <2>4. most \in Nat
    BY <2>3
  <2> HIDE DEF most
  <2>5. Committed(e) + Awaited(fetches, e, asked[e]) <= most
    BY <2>2 DEF most
  <2>6. paid[e] <= most
    BY <2>3, <2>4, <2>5
  <2>7. QED
    BY <2>6 DEF most
<1>2. QueueInv => PaidWithinPasses
  BY <1>1
<1>3. QED
  BY <1>2, Queue, PTL

(* While no transaction fails, queue_in_progress_ is raised only while     *)
(* some message or balance fetch still carries an entry: each of them ends *)
(* in MarkContributionQueueAsComplete or OnBalance, which lower it.        *)
THEOREM FlagLowered == Spec => []RaisedFlagIsLowered
<1>1. ASSUME QueueInv PROVE RaisedFlagIsLowered
  <2> SUFFICES ASSUME dbErrors = 0, inProgress
               PROVE  Processing
    BY DEF RaisedFlagIsLowered
  <2>1. ShapeInv /\ FlagInv
    BY <1>1 DEF QueueInv
  <2>2. Flows(requests, replies, fetches) > 0
    BY <2>1 DEF FlagInv
  <2>3. Flows(requests, replies, fetches) # 0
    BY <2>2
  <2>4. QED
    BY <2>1, <2>3, ProcessingIs
<1>2. QueueInv => RaisedFlagIsLowered
  BY <1>1
<1>3. QED
  BY <1>2, Queue, PTL

(* A completed tip is paid in full or not at all: the funds are compared   *)
(* with the whole amount, and what one wallet lacks the later ones hold.   *)
THEOREM TipsWhole == Spec => []TipsAllOrNothing
<1>1. ASSUME QueueInv PROVE TipsAllOrNothing
  <2> SUFFICES ASSUME dbErrors = 0, crashes = 0, ~Processing,
                      NEW e \in Tips \cup RecurringTips
               PROVE  paid[e] = 0 \/ paid[e] >= asked[e]
    BY DEF TipsAllOrNothing
  <2>1. ShapeInv /\ TipsInv /\ e \in Entries
    BY <1>1 DEF QueueInv, Entries
  <2>2. /\ requests \in Seq(AllRequests) /\ replies \in Seq(AllReplies) /\ fetches \in Seq(Job)
        /\ asked[e] \in Nat
    BY <2>1, ChannelTypes, MadeType
  <2>3. \A i \in DOMAIN requests : RequestOwes(e)[requests[i]] = 0
    <3> TAKE i \in DOMAIN requests
    <3>1. requests[i] \in AllRequests /\ ~InFlow(requests[i])
      BY <2>2, ElementOfSeq DEF Processing
    <3>2. QED
      BY <3>1 DEF RequestOwes, Commits, Resaved, InFlow
  <2>4. \A i \in DOMAIN replies : ReplyOwes(e)[replies[i]] = 0
    <3> TAKE i \in DOMAIN replies
    <3>1. replies[i] \in AllReplies /\ ~InFlow(replies[i])
      BY <2>2, ElementOfSeq DEF Processing
    <3>2. QED
      BY <3>1 DEF ReplyOwes, Commits, Resaved, InFlow
  <2>5. \A i \in DOMAIN fetches : fetches[i].entry # e
    <3>1. fetches = <<>>
      BY DEF Processing
    <3>2. QED
      BY <3>1
  <2>6. Owed(requests, replies, e, asked[e]) = 0
    BY <2>1, <2>2, <2>3, <2>4, <2>5, NothingOwed
  <2>7. paid[e] \in Nat /\ Committed(e) = paid[e]
    BY <2>1, <2>6, MadeType DEF Committed
  <2>8. Committed(e) >= asked[e] \/ Committed(e) = 0
    BY <2>1 DEF TipsInv
  <2>9. QED
    BY <2>7, <2>8
<1>2. QueueInv => TipsAllOrNothing
  BY <1>1
<1>3. QED
  BY <1>2, Queue, PTL

(* An entry is completed only after a contribution was saved for it or the *)
(* funds did not suffice: it is never read between its row and its         *)
(* publishers, which the order of the file task runner keeps together.     *)
THEOREM CompletedServed == Spec => []CompletedWasServed
<1>1. ASSUME QueueInv PROVE CompletedWasServed
  BY <1>1 DEF QueueInv, ServedInv, Served, CompletedWasServed, Done
<1>2. QueueInv => CompletedWasServed
  BY <1>1
<1>3. QED
  BY <1>2, Queue, PTL

(* No step opens a completed entry again unless two flows ran at once: the *)
(* row saved again for a split is saved before the mark.                   *)
THEOREM CompletedStays == Spec => CompletedStaysCompleted
<1> DEFINE Stays == ~overlapped' => \A e \in Entries : Done(e) => Done(e)'
<1>1. QueueInv /\ [Next]_vars => [Stays]_vars
  <2> SUFFICES ASSUME QueueInv, [Next]_vars, ~overlapped', NEW e \in Entries, Done(e)
               PROVE  Done(e)'
    OBVIOUS
  <2>1. ShapeInv /\ MakerInv /\ FlowInv
    BY DEF QueueInv
  <2>2. QueueStep
    BY <2>1, NextForms
  <2>3. QED
    BY <2>1, <2>2, DoneStays
<1>2. CompletedStaysCompleted <=> [][Stays]_vars
  BY DEF CompletedStaysCompleted
<1> HIDE DEF Stays
<1>3. QED
  BY <1>1, <1>2, Queue, PTL DEF Spec

=============================================================================
