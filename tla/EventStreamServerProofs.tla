---------------------- MODULE EventStreamServerProofs -----------------------
(***************************************************************************)
(* The server's half of the proof that the window of EventStream stays one *)
(* range of rows. First what the rows of a file, its windows and pages and *)
(* the ticks of a tail are, for every file a session can write; then that  *)
(* every step of the session and of the poller keeps the invariant. A file *)
(* is described by the places where its rows end, so that no fact needs an *)
(* induction over its bytes.                                               *)
(***************************************************************************)
EXTENDS EventStreamInvariant, FiniteSetTheorems, SequenceTheorems, TLAPS

-----------------------------------------------------------------------------
(* Numbers and places                                                      *)

\* A set of numbers that is not empty has a least one.
LEMMA LeastIs ==
  ASSUME NEW S \in SUBSET Nat, S # {}
  PROVE  /\ \E m \in S : \A n \in S : m <= n
         /\ Min(S) \in S /\ \A n \in S : Min(S) <= n
<1>1. PICK m \in S : \A n \in S : ~(<<n, m>> \in OpToRel(<, Nat))
  BY NatLessThanWellFounded, WFMin
<1>2. ASSUME NEW n \in S PROVE m <= n
  <2>1. m \in Nat /\ n \in Nat
    OBVIOUS
  <2>2. CASE n < m
    <3>1. <<n, m>> \in OpToRel(<, Nat)
      BY <2>1, <2>2 DEF OpToRel
    <3>2. QED
      BY <1>1, <3>1
  <2>3. QED
    BY <2>1, <2>2
<1>3. \E x \in S : \A y \in S : x <= y
  BY <1>2
<1>4. Min(S) \in S /\ \A n \in S : Min(S) <= n
  BY <1>3, Zenon DEF Min
<1>5. QED
  BY <1>3, <1>4, Zenon

\* The greatest of some numbers that have a bound.
LEMMA GreatestIs ==
  ASSUME NEW S \in SUBSET Nat, S # {}, NEW b \in Nat, \A s \in S : s <= b
  PROVE  Max(S) \in S /\ \A s \in S : s <= Max(S)
<1> DEFINE U == {n \in Nat : \A s \in S : s <= n}
<1>1. U \in SUBSET Nat /\ U # {}
  OBVIOUS
<1>2. PICK m \in U : \A n \in U : m <= n
  <2> HIDE DEF U
  <2>1. QED
    BY <1>1, LeastIs
<1>3. ASSUME m \notin S PROVE FALSE
  <2>1. PICK s \in S : TRUE
    OBVIOUS
  <2>2. s \in Nat /\ s <= m /\ m \in Nat
    OBVIOUS
  <2>3. ASSUME NEW q \in S PROVE q <= m - 1
    <3>1. q \in Nat /\ q <= m /\ q # m
      BY <1>3
    <3>2. QED
      BY <2>2, <3>1
  <2>4. m - 1 \in Nat
    BY <2>2, <2>3
  <2>5. m - 1 \in U
    BY <2>3, <2>4
  <2>6. QED
    BY <1>2, <2>2, <2>5
<1>4. \A y \in S : m >= y
  OBVIOUS
<1>5. \E x \in S : \A y \in S : x >= y
  BY <1>3, <1>4
<1>6. Max(S) \in S /\ \A y \in S : Max(S) >= y
  BY <1>5 DEF Max
<1>7. QED
  BY <1>6

\* The lesser and the greater of two numbers.
LEMMA OfTwo ==
  ASSUME NEW a \in Int, NEW b \in Int
  PROVE  /\ Min({a, b}) = IF a <= b THEN a ELSE b
         /\ Max({a, b}) = IF a <= b THEN b ELSE a
<1>1. \E x \in {a, b} : \A y \in {a, b} : x <= y
  <2>1. CASE a <= b
    BY <2>1
  <2>2. CASE ~(a <= b)
    BY <2>2
  <2>3. QED
    BY <2>1, <2>2
<1>2. \E x \in {a, b} : \A y \in {a, b} : x >= y
  <2>1. CASE a <= b
    BY <2>1
  <2>2. CASE ~(a <= b)
    BY <2>2
  <2>3. QED
    BY <2>1, <2>2
<1>3. Min({a, b}) \in {a, b} /\ \A y \in {a, b} : Min({a, b}) <= y
  BY <1>1, Zenon DEF Min
<1>4. Max({a, b}) \in {a, b} /\ \A y \in {a, b} : Max({a, b}) >= y
  BY <1>2, Zenon DEF Max
<1>5. QED
  BY <1>3, <1>4

\* Ascending lists the numbers of a finite set, in order.
LEMMA AscendingIs ==
  ASSUME NEW J \in SUBSET Nat, IsFiniteSet(J)
  PROVE  /\ Cardinality(J) \in Nat
         /\ DOMAIN Ascending(J) = 1 .. Cardinality(J)
         /\ \A i \in 1 .. Cardinality(J) : Ascending(J)[i] \in J
         /\ \A i, k \in 1 .. Cardinality(J) : i < k => Ascending(J)[i] < Ascending(J)[k]
         /\ \A j \in J : \E i \in 1 .. Cardinality(J) : Ascending(J)[i] = j
<1> DEFINE Upto(j) == {k \in J : k <= j}
           R(j)    == Cardinality(Upto(j))
           n       == Cardinality(J)
<1>1. n \in Nat
  BY FS_CardinalityType
<1>2. ASSUME NEW j \in J
      PROVE  IsFiniteSet(Upto(j)) /\ R(j) \in 1 .. n
  <2>1. Upto(j) \in SUBSET J /\ j \in Upto(j)
    OBVIOUS
  <2> HIDE DEF Upto
  <2>2. IsFiniteSet(Upto(j)) /\ R(j) <= n
    BY <2>1, FS_Subset
  <2>3. R(j) \in Nat
    BY <2>2, FS_CardinalityType
  <2>4. R(j) # 0
    BY <2>1, <2>2, FS_EmptySet
  <2>5. QED
    BY <1>1, <2>2, <2>3, <2>4
<1>3. ASSUME NEW j \in J, NEW k \in J, j < k
      PROVE  R(j) < R(k)
  <2>0. j \in Int /\ k \in Int /\ \A q \in J : q \in Int
    OBVIOUS
  <2>1. Upto(j) \in SUBSET Upto(k)
    <3>1. ASSUME NEW q \in J, q <= j PROVE q <= k
      BY <1>3, <2>0, <3>1
    <3>2. QED
      BY <3>1
  <2>2. k \in Upto(k) /\ k \notin Upto(j)
    BY <1>3, <2>0
  <2>3. IsFiniteSet(Upto(k)) /\ R(j) \in Nat /\ R(k) \in Nat
    BY <1>1, <1>2
  <2> HIDE DEF Upto
  <2>4. R(j) <= R(k) /\ R(j) # R(k)
    BY <2>1, <2>2, <2>3, FS_Subset
  <2>5. QED
    BY <2>3, <2>4
<1> HIDE DEF R
<1>4. ASSUME NEW i \in 1 .. n PROVE \E j \in J : R(j) = i
  <2> DEFINE f == [j \in J |-> R(j)]
  <2>1. f \in [J -> 1 .. n]
    BY <1>2
  <2>2. IsInjective(f)
    <3>1. ASSUME NEW a \in J, NEW b \in J, R(a) = R(b) PROVE a = b
      <4>1. a \in Nat /\ b \in Nat
        OBVIOUS
      <4>3. R(a) \in 1 .. n /\ R(b) \in 1 .. n
        BY <1>2, Zenon
      <4>0. R(a) \in Int /\ R(b) \in Int
        BY <1>1, <4>3
      <4>2. ~(a < b) /\ ~(b < a)
        BY <1>3, <3>1, <4>0
      <4>4. QED
        BY <4>1, <4>2
    <3>2. QED
      BY <3>1 DEF IsInjective
  <2>3. f \in Injection(J, 1 .. n)
    BY <2>1, <2>2, Zenon DEF Injection
  <2>4. IsFiniteSet(1 .. n) /\ Cardinality(1 .. n) = n
    BY <1>1, FS_Interval
  <2>5. f \in Surjection(J, 1 .. n)
    <3> HIDE DEF f
    <3>1. QED
      BY <2>3, <2>4, FS_Injection
  <2>6. \E s \in J : f[s] = i
    <3> HIDE DEF f, n
    <3>1. QED
      BY <2>5, Zenon DEF Surjection
  <2>7. QED
    BY <2>6
<1>5. DOMAIN Ascending(J) = 1 .. n
  BY DEF Ascending
<1>6. ASSUME NEW i \in 1 .. n
      PROVE  Ascending(J)[i] \in J /\ R(Ascending(J)[i]) = i
  <2>1. Ascending(J)[i] = CHOOSE j \in J : R(j) = i
    BY DEF Ascending, R
  <2>2. QED
    BY <1>4, <2>1, Zenon
<1>7. ASSUME NEW i \in 1 .. n, NEW k \in 1 .. n, i < k
      PROVE  Ascending(J)[i] < Ascending(J)[k]
  <2> DEFINE a == Ascending(J)[i]
             c == Ascending(J)[k]
  <2>1. a \in J /\ c \in J /\ R(a) = i /\ R(c) = k
    BY <1>6
  <2> HIDE DEF a, c
  <2>2. a \in Nat /\ c \in Nat
    BY <2>1
  <2>3. ~(c < a)
    BY <1>1, <1>3, <1>7, <2>1
  <2>4. c # a
    BY <1>1, <1>7, <2>1
  <2>5. a < c
    BY <2>2, <2>3, <2>4
  <2>6. QED
    BY <2>5 DEF a, c
<1>8. ASSUME NEW j \in J PROVE \E i \in 1 .. n : Ascending(J)[i] = j
  <2>1. R(j) \in 1 .. n
    BY <1>2 DEF R
  <2> DEFINE a == Ascending(J)[R(j)]
  <2>2. a \in J /\ R(a) = R(j)
    BY <1>6, <2>1
  <2> HIDE DEF a
  <2>3. a \in Nat /\ j \in Nat /\ R(j) \in Int
    BY <2>1, <2>2
  <2>4. ~(a < j) /\ ~(j < a)
    BY <1>3, <2>2, <2>3
  <2>5. a = j
    BY <2>3, <2>4
  <2>6. QED
    BY <2>1, <2>5 DEF a
<1>9. QED
  BY <1>1, <1>5, <1>6, <1>7, <1>8

\* The elements of a sequence at some of its places, in order.
LEMMA KeptIs ==
  ASSUME NEW S, NEW s \in Seq(S), NEW J \in SUBSET DOMAIN s
  PROVE  /\ IsFiniteSet(J) /\ Cardinality(J) \in Nat
         /\ Kept(s, J) \in Seq(S) /\ Len(Kept(s, J)) = Cardinality(J)
         /\ ToSet(Kept(s, J)) = {s[j] : j \in J}
         /\ \A i, k \in DOMAIN Kept(s, J) :
              i < k => \E a, b \in J : a < b /\ Kept(s, J)[i] = s[a] /\ Kept(s, J)[k] = s[b]
<1> DEFINE p == Ascending(J)
           n == Cardinality(J)
<1>1. Len(s) \in Nat /\ DOMAIN s = 1 .. Len(s)
  OBVIOUS
<1>2. J \in SUBSET Nat /\ IsFiniteSet(J)
  <2>1. IsFiniteSet(1 .. Len(s))
    BY <1>1, FS_Interval
  <2>2. IsFiniteSet(J)
    BY <1>1, <2>1, FS_Subset
  <2>3. QED
    BY <1>1, <2>2
<1>3. /\ n \in Nat
      /\ DOMAIN p = 1 .. n
      /\ \A i \in 1 .. n : p[i] \in J
      /\ \A i, k \in 1 .. n : i < k => p[i] < p[k]
      /\ \A j \in J : \E i \in 1 .. n : p[i] = j
  BY <1>2, AscendingIs
<1>4. Kept(s, J) = [i \in 1 .. n |-> s[p[i]]]
  BY <1>3 DEF Kept
<1> HIDE DEF p, n
<1>5. \A i \in 1 .. n : s[p[i]] \in S
  BY <1>1, <1>3
<1>6. Kept(s, J) \in Seq(S) /\ Len(Kept(s, J)) = n /\ DOMAIN Kept(s, J) = 1 .. n
  BY <1>3, <1>4, <1>5
<1>7. ToSet(Kept(s, J)) = {s[j] : j \in J}
  BY <1>3, <1>4, <1>6, SMTT(30) DEF ToSet
<1>8. ASSUME NEW i \in 1 .. n, NEW k \in 1 .. n, i < k
      PROVE  \E a, b \in J : a < b /\ Kept(s, J)[i] = s[a] /\ Kept(s, J)[k] = s[b]
  BY <1>3, <1>4, <1>8
<1>9. n = Cardinality(J)
  BY DEF n
<1>10. QED
  BY <1>2, <1>3, <1>6, <1>7, <1>8, <1>9

\* The nodes of a set in file order.
LEMMA InFileOrderIs ==
  ASSUME NEW N, IsFiniteSet(N), \A n \in N : Place(n) \in Nat,
         \A n, m \in N : Place(n) = Place(m) => n = m
  PROVE  /\ InFileOrder(N) \in Seq(N) /\ ToSet(InFileOrder(N)) = N
         /\ Len(InFileOrder(N)) = Cardinality(N)
         /\ \A i, k \in DOMAIN InFileOrder(N) :
              i < k => Place(InFileOrder(N)[i]) < Place(InFileOrder(N)[k])
<1> DEFINE J == {Place(n) : n \in N}
           p == Ascending(J)
           c == Cardinality(J)
<1>1. J \in SUBSET Nat
  OBVIOUS
<1>2. IsFiniteSet(J) /\ c = Cardinality(N)
  <2> DEFINE f == [n \in N |-> Place(n)]
  <2>1. f \in [N -> J] /\ \A t \in J : \E s \in N : f[s] = t
    OBVIOUS
  <2>2. f \in Surjection(N, J)
    BY <2>1, Zenon DEF Surjection
  <2>3. f \in Injection(N, J)
    <3>1. IsInjective(f)
      BY DEF IsInjective
    <3>2. QED
      BY <2>1, <3>1, Zenon DEF Injection
  <2> HIDE DEF f, J
  <2>4. QED
    BY <2>2, <2>3, FS_Surjection
<1>3. /\ c \in Nat
      /\ DOMAIN p = 1 .. c
      /\ \A i \in 1 .. c : p[i] \in J
      /\ \A i, k \in 1 .. c : i < k => p[i] < p[k]
      /\ \A j \in J : \E i \in 1 .. c : p[i] = j
  <2> HIDE DEF J
  <2>1. QED
    BY <1>1, <1>2, AscendingIs
<1>4. InFileOrder(N) = [i \in 1 .. c |-> CHOOSE n \in N : Place(n) = p[i]]
  BY <1>3 DEF InFileOrder
<1>5. ASSUME NEW i \in 1 .. c
      PROVE  InFileOrder(N)[i] \in N /\ Place(InFileOrder(N)[i]) = p[i]
  <2>1. InFileOrder(N)[i] = CHOOSE n \in N : Place(n) = p[i]
    BY <1>4
  <2>2. \E n \in N : Place(n) = p[i]
    <3>1. p[i] \in J
      BY <1>3
    <3> HIDE DEF p, c
    <3>2. QED
      BY <3>1
  <2>3. QED
    BY <2>1, <2>2, Zenon
<1> HIDE DEF p, c
<1>6. InFileOrder(N) \in Seq(N) /\ Len(InFileOrder(N)) = c /\ DOMAIN InFileOrder(N) = 1 .. c
  <2>1. \A i \in 1 .. c : (CHOOSE n \in N : Place(n) = p[i]) \in N
    BY <1>4, <1>5
  <2>2. QED
    BY <1>3, <1>4, <2>1
<1>7. ASSUME NEW n \in N PROVE \E i \in 1 .. c : InFileOrder(N)[i] = n
  <2>1. PICK i \in 1 .. c : p[i] = Place(n)
    BY <1>3
  <2>2. InFileOrder(N)[i] = n
    BY <1>5, <2>1
  <2>3. QED
    BY <2>2
<1>8. ToSet(InFileOrder(N)) = N
  BY <1>5, <1>6, <1>7 DEF ToSet
<1>9. ASSUME NEW i \in 1 .. c, NEW k \in 1 .. c, i < k
      PROVE  Place(InFileOrder(N)[i]) < Place(InFileOrder(N)[k])
  BY <1>3, <1>5, <1>9
<1>10. QED
  BY <1>2, <1>6, <1>8, <1>9

-----------------------------------------------------------------------------
(* Division and batches                                                    *)

\* What is left of a number after the greatest multiple below it.
LEMMA Quotient ==
  ASSUME NEW a \in Nat, NEW d \in Nat \ {0}
  PROVE  a \div d \in Nat /\ (a \div d) * d <= a /\ a < (a \div d) * d + d
BY SMT

\* Multiples are in the order of the factors.
LEMMA Times ==
  ASSUME NEW a \in Nat, NEW b \in Nat, NEW d \in Nat, a <= b
  PROVE  a * d <= b * d
BY SMT

LEMMA BatchesAre ==
  ASSUME NEW S, NEW items \in Seq(S)
  PROVE  /\ Batches(items) \in Seq(Seq(S))
         /\ \A j \in DOMAIN Batches(items) : \A k \in DOMAIN Batches(items)[j] :
              \E p \in DOMAIN items : /\ Batches(items)[j][k] = items[p]
                                      /\ (j - 1) * FrameMax < p /\ p <= j * FrameMax
                                      /\ p = (j - 1) * FrameMax + k
         /\ \A p \in DOMAIN items : \E j \in DOMAIN Batches(items) :
              \E k \in DOMAIN Batches(items)[j] : Batches(items)[j][k] = items[p]
         /\ \A j \in DOMAIN Batches(items) : Batches(items)[j] # <<>>
<1> DEFINE d == FrameMax
           l == Len(items)
           q == (l + d - 1) \div d
           B == Batches(items)
<1>1. d \in Nat \ {0} /\ l \in Nat /\ DOMAIN items = 1 .. l
  BY SizesAssumption
<1> HIDE DEF d, l
<1>2. q \in Nat /\ q * d <= l + d - 1 /\ l + d - 1 < q * d + d
  BY <1>1, Quotient
<1> HIDE DEF q
<1>3. B = [j \in 1 .. q |-> SubSeq(items, (j - 1) * d + 1, Min({j * d, l}))]
  BY DEF Batches, q, d, l
<1>4. ASSUME NEW j \in 1 .. q
      PROVE  \E z \in Nat : /\ z = (j - 1) * d /\ j * d = z + d /\ z < l
                            /\ B[j] = SubSeq(items, z + 1, IF z + d <= l THEN z + d ELSE l)
                            /\ B[j] \in Seq(S)
                            /\ DOMAIN B[j] = 1 .. (IF z + d <= l THEN d ELSE l - z)
                            /\ \A k \in DOMAIN B[j] : B[j][k] = items[z + k]
  <2>0. j \in Nat /\ j >= 1 /\ j <= q /\ j - 1 \in Nat
    BY <1>2
  <2>1. PICK z \in Int : z = (j - 1) * d
    BY <1>1, <2>0
  <2>2. j * d = z + d
    <3>1. (j - 1) * d = j * d - d
      BY <1>1, <2>0, SMT
    <3>2. j * d \in Int
      BY <1>1, <2>0
    <3>3. QED
      BY <1>1, <2>1, <3>1, <3>2
  <2>3. z \in Nat
    <3>1. 0 * d <= (j - 1) * d
      BY <1>1, <2>0, Times
    <3>2. QED
      BY <1>1, <2>1, <3>1
  <2>4. z < l
    <3>1. j * d <= q * d
      BY <1>1, <1>2, <2>0, Times
    <3>2. q * d \in Int
      BY <1>1, <1>2
    <3>3. QED
      BY <1>1, <1>2, <2>2, <2>3, <3>1, <3>2
  <2> DEFINE h == IF z + d <= l THEN z + d ELSE l
  <2>5. Min({j * d, l}) = h
    BY <1>1, <2>2, <2>3, OfTwo
  <2>6. B[j] = SubSeq(items, z + 1, h)
    BY <1>3, <2>1, <2>5
  <2>7. h \in Nat /\ h <= l /\ z + 1 \in Int /\ z + 1 <= h
    BY <1>1, <2>3, <2>4
  <2>8. \A i \in z + 1 .. h : items[i] \in S
    BY <1>1, <2>3, <2>7
  <2>9. h - (z + 1) + 1 = IF z + d <= l THEN d ELSE l - z
    BY <1>1, <2>3
  <2> HIDE DEF h
  <2>10. /\ SubSeq(items, z + 1, h) \in Seq(S)
         /\ Len(SubSeq(items, z + 1, h)) = h - (z + 1) + 1
         /\ \A i \in 1 .. h - (z + 1) + 1 : SubSeq(items, z + 1, h)[i] = items[(z + 1) + i - 1]
    BY <2>7, <2>8, SubSeqProperties
  <2>11. DOMAIN B[j] = 1 .. h - (z + 1) + 1 /\ B[j] \in Seq(S)
    BY <2>6, <2>10
  <2>12. \A k \in DOMAIN B[j] : B[j][k] = items[z + k]
    <3>1. ASSUME NEW k \in DOMAIN B[j] PROVE B[j][k] = items[z + k]
      <4>1. (z + 1) + k - 1 = z + k
        BY <2>3, <2>7, <2>11
      <4>2. QED
        BY <2>6, <2>10, <2>11, <4>1
    <3>2. QED
      BY <3>1
  <2>13. QED
    BY <2>1, <2>2, <2>3, <2>4, <2>6, <2>9, <2>11, <2>12 DEF h
<1>5. B \in Seq(Seq(S)) /\ DOMAIN B = 1 .. q
  <2>1. \A j \in 1 .. q : SubSeq(items, (j - 1) * d + 1, Min({j * d, l})) \in Seq(S)
    BY <1>3, <1>4
  <2>2. QED
    BY <1>2, <1>3, <2>1
<1>6. ASSUME NEW j \in DOMAIN B, NEW k \in DOMAIN B[j]
      PROVE  \E p \in DOMAIN items : /\ B[j][k] = items[p]
                                      /\ (j - 1) * d < p /\ p <= j * d
                                      /\ p = (j - 1) * d + k
  <2>1. PICK z \in Nat : /\ z = (j - 1) * d /\ j * d = z + d /\ z < l
                            /\ DOMAIN B[j] = 1 .. (IF z + d <= l THEN d ELSE l - z)
                            /\ \A i \in DOMAIN B[j] : B[j][i] = items[z + i]
    BY <1>4, <1>5
  <2>2. k \in Nat /\ k >= 1 /\ z + k <= l /\ k <= d
    BY <1>1, <2>1
  <2>3. z + k \in DOMAIN items
    BY <1>1, <2>1, <2>2
  <2>4. z < z + k /\ z + k <= z + d
    BY <1>1, <2>1, <2>2
  <2>5. QED
    BY <2>1, <2>3, <2>4
<1>7. ASSUME NEW p \in DOMAIN items
      PROVE  \E j \in DOMAIN B : \E k \in DOMAIN B[j] : B[j][k] = items[p]
  <2> DEFINE a == (p - 1) \div d
             j == a + 1
  <2>1. p \in Nat /\ p >= 1 /\ p <= l /\ p - 1 \in Nat
    BY <1>1
  <2>2. a \in Nat /\ a * d <= p - 1 /\ p - 1 < a * d + d
    BY <1>1, <2>1, Quotient
  <2> HIDE DEF a
  <2>3. a < q
    <3>1. CASE q <= a
      <4>1. q * d <= a * d
        BY <1>1, <1>2, <2>2, <3>1, Times
      <4>2. q * d \in Int /\ a * d \in Int
        BY <1>1, <1>2, <2>2
      <4>3. QED
        BY <1>1, <1>2, <2>1, <2>2, <4>1, <4>2
    <3>2. QED
      BY <1>2, <2>2, <3>1
  <2>4. j \in 1 .. q /\ j - 1 = a
    BY <1>2, <2>2, <2>3
  <2> HIDE DEF j
  <2>5. PICK z \in Nat : /\ z = (j - 1) * d /\ j * d = z + d /\ z < l
                            /\ DOMAIN B[j] = 1 .. (IF z + d <= l THEN d ELSE l - z)
                            /\ \A i \in DOMAIN B[j] : B[j][i] = items[z + i]
    BY <1>4, <2>4
  <2>6. z <= p - 1 /\ p - 1 < z + d
    BY <2>2, <2>4, <2>5
  <2>7. p - z \in DOMAIN B[j] /\ z + (p - z) = p
    BY <1>1, <2>1, <2>5, <2>6
  <2>8. B[j][p - z] = items[p]
    BY <2>5, <2>7
  <2>9. QED
    BY <1>5, <2>4, <2>7, <2>8
<1>9. ASSUME NEW j \in DOMAIN B PROVE B[j] # <<>>
  <2>1. PICK z \in Nat : z < l /\ DOMAIN B[j] = 1 .. (IF z + d <= l THEN d ELSE l - z)
    BY <1>4, <1>5
  <2>2. 1 \in DOMAIN B[j]
    BY <1>1, <2>1
  <2>3. QED
    BY <2>2
<1>8. QED
  BY <1>5, <1>6, <1>7, <1>9 DEF d

\* What a list of nodes is before it is framed: in order, each with a place, none twice.
InOrder(s) == \A i, k \in DOMAIN s : i < k => s[i].at <= s[k].at
Placed(S)  == \A n \in S : n.at \in Nat
Distinct(s) == \A i, k \in DOMAIN s : i < k => s[i] # s[k]

\* Frames that carry some nodes, in order, each in one frame.
Framed(F, S, nodes, from) ==
  /\ F \in Seq([f : {"rows"}, nodes : Seq(S), from : {from}])
  /\ \A j \in DOMAIN F : F[j].nodes # <<>> /\ \A n \in ToSet(F[j].nodes) : n \in ToSet(nodes)
  /\ \A j \in DOMAIN F : \A i, k \in DOMAIN F[j].nodes : i < k => F[j].nodes[i].at <= F[j].nodes[k].at
  /\ \A n \in ToSet(nodes) : \E j \in DOMAIN F : n \in ToSet(F[j].nodes)
  /\ \A i, j \in DOMAIN F : i < j =>
       \A n \in ToSet(F[i].nodes), m \in ToSet(F[j].nodes) : n.at <= m.at /\ n # m

\* The frames of some nodes that are in file order.
LEMMA RowsFramesAre ==
  ASSUME NEW S, NEW nodes \in Seq(S), NEW from, InOrder(nodes), Placed(S), Distinct(nodes)
  PROVE  Framed(RowsFrames(nodes, from), S, nodes, from)
<1> DEFINE d == FrameMax
           B == Batches(nodes)
           F == RowsFrames(nodes, from)
<1>1. /\ B \in Seq(Seq(S))
      /\ \A j \in DOMAIN B : \A k \in DOMAIN B[j] :
              \E p \in DOMAIN nodes : /\ B[j][k] = nodes[p]
                                      /\ (j - 1) * d < p /\ p <= j * d
                                      /\ p = (j - 1) * d + k
      /\ \A p \in DOMAIN nodes : \E j \in DOMAIN B : \E k \in DOMAIN B[j] : B[j][k] = nodes[p]
      /\ \A j \in DOMAIN B : B[j] # <<>>
  BY BatchesAre
<1>2. d \in Nat /\ Len(nodes) \in Nat /\ DOMAIN nodes = 1 .. Len(nodes)
  BY SizesAssumption
<1>3. F = [j \in DOMAIN B |-> [f |-> "rows", nodes |-> B[j], from |-> from]]
  BY DEF RowsFrames
<1> HIDE DEF B, F, d
<1>4. DOMAIN F = DOMAIN B /\ DOMAIN B = 1 .. Len(B) /\ Len(B) \in Nat
  BY <1>1, <1>3
<1>5. \A j \in DOMAIN F : F[j] = [f |-> "rows", nodes |-> B[j], from |-> from] /\ F[j].nodes = B[j] /\ B[j] \in Seq(S)
  BY <1>1, <1>3, <1>4
<1>6. F \in Seq([f : {"rows"}, nodes : Seq(S), from : {from}])
  BY <1>3, <1>4, <1>5
<1>20. (\A i, k \in DOMAIN nodes : i < k => nodes[i].at <= nodes[k].at) /\ \A n \in S : n.at \in Nat
  BY DEF InOrder, Placed
<1>7. ASSUME NEW j \in DOMAIN F, NEW i \in DOMAIN B[j], NEW k \in DOMAIN B[j], i < k
      PROVE  B[j][i].at <= B[j][k].at
  <2>1. PICK p \in DOMAIN nodes : B[j][i] = nodes[p] /\ p = (j - 1) * d + i
    BY <1>1, <1>4
  <2>2. PICK r \in DOMAIN nodes : B[j][k] = nodes[r] /\ r = (j - 1) * d + k
    BY <1>1, <1>4
  <2>3. i \in Int /\ k \in Int
    BY <1>4, <1>5
  <2>4. (j - 1) * d \in Int
    BY <1>2, <1>4
  <2>5. p < r
    BY <1>7, <2>1, <2>2, <2>3, <2>4
  <2>6. QED
    BY <1>20, <2>1, <2>2, <2>5
<1>8. ASSUME NEW j \in DOMAIN F, NEW n \in ToSet(B[j])
      PROVE  \E p \in DOMAIN nodes : n = nodes[p] /\ (j - 1) * d < p /\ p <= j * d
  <2>1. PICK k \in DOMAIN B[j] : n = B[j][k]
    BY Zenon DEF ToSet
  <2>2. QED
    BY <1>1, <1>4, <2>1, Zenon
<1>9. ASSUME NEW i \in DOMAIN F, NEW j \in DOMAIN F, i < j,
             NEW n \in ToSet(B[i]), NEW m \in ToSet(B[j])
      PROVE  n.at <= m.at /\ n # m
  <2>1. PICK p \in DOMAIN nodes : n = nodes[p] /\ p <= i * d
    BY <1>8
  <2>2. PICK r \in DOMAIN nodes : m = nodes[r] /\ (j - 1) * d < r
    BY <1>8
  <2>3. i \in Nat /\ j - 1 \in Nat /\ i <= j - 1
    BY <1>4, <1>9
  <2>4. i * d <= (j - 1) * d
    BY <1>2, <2>3, Times
  <2>5. p < r
    <3>1. i * d \in Int /\ (j - 1) * d \in Int /\ p \in Int /\ r \in Int
      BY <1>2, <2>3
    <3>2. QED
      BY <2>1, <2>2, <2>4, <3>1
  <2>6. QED
    BY <1>20, <2>1, <2>2, <2>5 DEF Distinct
<1>10. ASSUME NEW n \in ToSet(nodes) PROVE \E j \in DOMAIN F : n \in ToSet(B[j])
  BY <1>1, <1>4 DEF ToSet
<1>11. \A j \in DOMAIN F : \A n \in ToSet(B[j]) : n \in ToSet(nodes)
  BY <1>8 DEF ToSet
<1>12. QED
  <2>1. \A j \in DOMAIN F : F[j].nodes = B[j]
    BY <1>5
  <2>2. /\ \A j \in DOMAIN F : F[j].nodes # <<>> /\ \A n \in ToSet(F[j].nodes) : n \in ToSet(nodes)
        /\ \A j \in DOMAIN F : \A i, k \in DOMAIN F[j].nodes : i < k => F[j].nodes[i].at <= F[j].nodes[k].at
        /\ \A n \in ToSet(nodes) : \E j \in DOMAIN F : n \in ToSet(F[j].nodes)
    BY <1>1, <1>4, <1>7, <1>10, <1>11, <2>1
  <2>3. \A i, j \in DOMAIN F : i < j =>
          \A n \in ToSet(F[i].nodes), m \in ToSet(F[j].nodes) : n.at <= m.at /\ n # m
    BY <1>9, <2>1, Zenon
  <2>4. Framed(F, S, nodes, from)
    BY <1>6, <2>2, <2>3, Zenon DEF Framed
  <2>5. QED
    BY <2>4 DEF F

-----------------------------------------------------------------------------
(* Rows of bytes                                                           *)

\* Rows end and start within the file.
LEMMA EndsAre ==
  ASSUME NEW b \in Seq(Byte)
  PROVE  /\ Len(b) \in Nat /\ DOMAIN b = 1 .. Len(b)
         /\ Ends(b) \in SUBSET (1 .. Len(b)) /\ Ends(b) \in SUBSET Nat
         /\ \A e \in Ends(b) : e \in Nat /\ 1 <= e /\ e <= Len(b)
         /\ Starts(b) \in SUBSET Nat
         /\ \A s \in Starts(b) : s \in Nat /\ s <= Len(b)
<1>1. Len(b) \in Nat /\ DOMAIN b = 1 .. Len(b)
  OBVIOUS
<1>2. Ends(b) \in SUBSET (1 .. Len(b))
  BY DEF Ends
<1>3. QED
  BY <1>1, <1>2 DEF Starts

\* The last newline is a place where a row could start, and no such place is after it.
LEMMA ConfirmedIs ==
  ASSUME NEW b \in Seq(Byte)
  PROVE  /\ Confirmed(b) \in Starts(b) /\ Confirmed(b) \in Nat /\ Confirmed(b) <= Len(b)
         /\ \A e \in Starts(b) : e <= Confirmed(b)
<1>1. Starts(b) \in SUBSET Nat /\ Starts(b) # {} /\ Len(b) \in Nat /\ \A s \in Starts(b) : s <= Len(b)
  BY EndsAre DEF Starts
<1>2. Confirmed(b) = Max(Starts(b))
  BY DEF Confirmed, Starts
<1>3. QED
  BY <1>1, <1>2, GreatestIs

\* Every newline ends the row that starts at the one before.
LEMMA RowStartIs ==
  ASSUME NEW b \in Seq(Byte), NEW e \in Ends(b)
  PROVE  /\ IsRow(b, RowStart(b, e), e)
         /\ \A s : IsRow(b, s, e) => s = RowStart(b, e)
<1> DEFINE T == {s \in Ends(b) : s < e} \cup {0}
           r == RowStart(b, e)
<1>1. T \in SUBSET Nat /\ T # {} /\ e \in Nat /\ \A t \in T : t <= e
  BY EndsAre
<1>2. r = Max(T)
  BY DEF RowStart
<1>3. r \in T /\ \A t \in T : t <= r
  <2> HIDE DEF T, r
  <2>1. QED
    BY <1>1, <1>2, GreatestIs
<1>4. r \in Starts(b) /\ r < e /\ r \in Nat
  BY <1>1, <1>3, EndsAre DEF Starts
<1>5. ASSUME NEW x \in Ends(b) PROVE x <= r \/ e <= x
  <2>1. x \in Nat
    BY EndsAre
  <2>2. CASE x < e
    <3>1. x \in T
      BY <2>2
    <3>2. QED
      BY <1>3, <3>1
  <2>3. QED
    BY <1>1, <2>1, <2>2
<1>6. IsRow(b, r, e)
  BY <1>4, <1>5 DEF IsRow
<1>7. ASSUME NEW s, IsRow(b, s, e) PROVE s = r
  <2>1. s \in Starts(b) /\ s < e /\ s \in Nat /\ \A x \in Ends(b) : x <= s \/ e <= x
    BY <1>7, EndsAre DEF IsRow
  <2>2. s <= r
    <3>1. s \in T
      BY <2>1 DEF Starts
    <3>2. QED
      BY <1>3, <3>1
  <2>3. r <= s
    <3>1. CASE r = 0
      BY <2>1, <3>1
    <3>2. CASE r # 0
      <4>1. r \in Ends(b)
        BY <1>4, <3>2 DEF Starts
      <4>2. QED
        BY <1>1, <1>4, <2>1, <4>1
    <3>3. QED
      BY <3>1, <3>2
  <2>4. QED
    BY <1>4, <2>1, <2>2, <2>3
<1>8. QED
  BY <1>6, <1>7

\* The rows of a file, by their bounds.
LEMMA RowsAre ==
  ASSUME NEW b \in Seq(Byte)
  PROVE  /\ \A row \in Rows(b) : \E e \in Ends(b) : IsRow(b, row.at, e) /\ row = RowOf(b, row.at, e)
         /\ \A s, e : IsRow(b, s, e) => RowOf(b, s, e) \in Rows(b)
         /\ \A q, r \in Rows(b) : q.at = r.at => q = r
<1>1. Rows(b) = {RowOf(b, RowStart(b, e), e) : e \in Ends(b)}
  BY DEF Rows, RowOf
<1>2. ASSUME NEW row \in Rows(b)
      PROVE  \E e \in Ends(b) : IsRow(b, row.at, e) /\ row = RowOf(b, row.at, e)
  <2>1. PICK e \in Ends(b) : row = RowOf(b, RowStart(b, e), e)
    BY <1>1
  <2>2. row.at = RowStart(b, e)
    BY <2>1 DEF RowOf
  <2>3. QED
    BY <2>1, <2>2, RowStartIs
<1>3. ASSUME NEW s, NEW e, IsRow(b, s, e) PROVE RowOf(b, s, e) \in Rows(b)
  <2>1. e \in Ends(b)
    BY <1>3 DEF IsRow
  <2>2. s = RowStart(b, e)
    BY <1>3, <2>1, RowStartIs
  <2>3. QED
    BY <1>1, <2>1, <2>2
<1>4. ASSUME NEW q \in Rows(b), NEW r \in Rows(b), q.at = r.at PROVE q = r
  <2>1. PICK d \in Ends(b) : IsRow(b, q.at, d) /\ q = RowOf(b, q.at, d)
    BY <1>2
  <2>2. PICK e \in Ends(b) : IsRow(b, r.at, e) /\ r = RowOf(b, r.at, e)
    BY <1>2
  <2>3. d \in Nat /\ e \in Nat /\ q.at < d /\ q.at < e /\ q.at \in Nat
    BY <2>1, <2>2, <1>4, EndsAre DEF IsRow
  <2>4. d <= e /\ e <= d
    BY <1>4, <2>1, <2>2, <2>3 DEF IsRow
  <2>5. QED
    BY <1>4, <2>1, <2>2, <2>3, <2>4
<1>5. QED
  BY <1>2, <1>3, <1>4

\* A row starts wherever one ends, unless it is the last.
LEMMA NextRow ==
  ASSUME NEW b \in Seq(Byte), NEW s \in Starts(b), NEW x \in Ends(b), s < x
  PROVE  \E e \in Ends(b) : IsRow(b, s, e) /\ e <= x
<1> DEFINE T == {e \in Ends(b) : s < e}
<1>1. T \in SUBSET Nat /\ T # {} /\ s \in Nat
  BY EndsAre
<1>2. PICK e \in T : \A t \in T : e <= t
  <2> HIDE DEF T
  <2>1. QED
    BY <1>1, LeastIs
<1>3. \A t \in Ends(b) : t <= s \/ e <= t
  BY <1>1, <1>2, EndsAre
<1>4. QED
  BY <1>2, <1>3 DEF IsRow

\* The bounds and the text of a row.
LEMMA RowBounds ==
  ASSUME NEW b \in Seq(Byte), NEW s, NEW e, IsRow(b, s, e)
  PROVE  /\ s \in Nat /\ e \in Nat /\ s < e /\ e <= Len(b) /\ e <= Confirmed(b)
         /\ RowOf(b, s, e).at = s /\ RowOf(b, s, e).text \in Seq(Byte)
         /\ RowOf(b, s, e).text = SubSeq(b, s + 1, e - 1)
         /\ Len(RowOf(b, s, e).text) = e - 1 - s
         /\ RowOf(b, s, e).text # <<>> => s + 1 < e /\ Head(RowOf(b, s, e).text) = b[s + 1]
<1>1. s \in Nat /\ e \in Nat /\ s < e /\ e <= Len(b) /\ Len(b) \in Nat /\ DOMAIN b = 1 .. Len(b)
  BY EndsAre DEF IsRow
<1>2. e <= Confirmed(b)
  BY ConfirmedIs DEF IsRow, Starts
<1>3. /\ SubSeq(b, s + 1, e - 1) \in Seq(Byte)
      /\ Len(SubSeq(b, s + 1, e - 1)) = e - 1 - s
      /\ \A i \in 1 .. e - 1 - s : SubSeq(b, s + 1, e - 1)[i] = b[s + i]
  <2>1. \A i \in s + 1 .. e - 1 : b[i] \in Byte
    BY <1>1
  <2>2. /\ SubSeq(b, s + 1, e - 1) \in Seq(Byte)
        /\ Len(SubSeq(b, s + 1, e - 1)) = IF s + 1 <= e - 1 THEN (e - 1) - (s + 1) + 1 ELSE 0
        /\ \A i \in 1 .. (e - 1) - (s + 1) + 1 : SubSeq(b, s + 1, e - 1)[i] = b[(s + 1) + i - 1]
    BY <1>1, <2>1, SubSeqProperties
  <2>3. (e - 1) - (s + 1) + 1 = e - 1 - s
    BY <1>1
  <2>4. \A i \in 1 .. e - 1 - s : (s + 1) + i - 1 = s + i
    BY <1>1
  <2>5. QED
    BY <1>1, <2>2, <2>3, <2>4
<1>4. ASSUME SubSeq(b, s + 1, e - 1) # <<>>
      PROVE  s + 1 < e /\ Head(SubSeq(b, s + 1, e - 1)) = b[s + 1]
  <2> DEFINE t == SubSeq(b, s + 1, e - 1)
  <2>1. Len(t) # 0
    BY <1>3, <1>4, EmptySeq
  <2>2. s + 1 < e /\ 1 \in 1 .. e - 1 - s
    BY <1>1, <1>3, <2>1
  <2>3. Head(t) = t[1]
    <3>1. t \in Seq(Byte) /\ t # <<>>
      BY <1>3, <1>4
    <3> HIDE DEF t
    <3>2. QED
      BY <3>1
  <2>4. QED
    BY <1>3, <2>2, <2>3
<1>5. QED
  BY <1>1, <1>2, <1>3, <1>4 DEF RowOf

LEMMA Piece ==
  ASSUME NEW b \in Seq(Byte), NEW c \in Seq(Byte), NEW z \in Nat, z + Len(c) <= Len(b),
         \A i \in 1 .. Len(c) : c[i] = b[z + i]
  PROVE  /\ \A x \in 1 .. Len(c) : x \in Ends(c) <=> z + x \in Ends(b)
         /\ \A s, e : IsRow(c, s, e) /\ (s # 0 \/ z \in Starts(b)) =>
              IsRow(b, z + s, z + e) /\ RowOf(c, s, e).text = RowOf(b, z + s, z + e).text
         /\ \A s, e \in Nat : IsRow(b, z + s, z + e) /\ e <= Len(c) => IsRow(c, s, e)
<1>0. Len(b) \in Nat /\ Len(c) \in Nat
  BY EndsAre
<1>1. ASSUME NEW x \in 1 .. Len(c) PROVE x \in Ends(c) <=> z + x \in Ends(b)
  <2>1. z + x \in 1 .. Len(b)
    BY <1>0
  <2>2. QED
    BY <2>1 DEF Ends
<1>2. ASSUME NEW s, NEW e, IsRow(c, s, e), s # 0 \/ z \in Starts(b)
      PROVE  /\ IsRow(b, z + s, z + e)
             /\ RowOf(c, s, e).text = RowOf(b, z + s, z + e).text
  <2>1. s \in Nat /\ e \in Nat /\ s < e /\ e <= Len(c) /\ e \in Ends(c) /\ s \in Starts(c)
    BY <1>2, RowBounds DEF IsRow
  <2>2. z + e \in Ends(b)
    BY <1>0, <1>1, <2>1
  <2>3. z + s \in Starts(b)
    <3>1. CASE s = 0
      <4>1. z + s = z
        BY <3>1
      <4>2. QED
        BY <1>2, <3>1, <4>1
    <3>2. CASE s # 0
      <4>1. s \in Ends(c) /\ s \in 1 .. Len(c)
        BY <1>0, <2>1, <3>2 DEF Starts
      <4>2. QED
        BY <1>1, <4>1 DEF Starts
    <3>3. QED
      BY <3>1, <3>2
  <2>4. ASSUME NEW x \in Ends(b) PROVE x <= z + s \/ z + e <= x
    <3>1. x \in Nat
      BY EndsAre
    <3>2. CASE z + s < x /\ x < z + e
      <4>1. x - z \in 1 .. Len(c) /\ z + (x - z) = x /\ s < x - z /\ x - z < e
        BY <1>0, <2>1, <3>1, <3>2
      <4>2. x - z \in Ends(c)
        BY <1>1, <4>1
      <4>3. QED
        BY <1>2, <2>1, <4>1, <4>2 DEF IsRow
    <3>3. QED
      BY <2>1, <3>1, <3>2
  <2>5. IsRow(b, z + s, z + e)
    BY <2>1, <2>2, <2>3, <2>4 DEF IsRow
  <2>6. RowOf(c, s, e).text = RowOf(b, z + s, z + e).text
    <3> DEFINE t == SubSeq(c, s + 1, e - 1)
               u == SubSeq(b, z + s + 1, z + e - 1)
    <3>0. t \in Seq(Byte) /\ Len(t) = e - 1 - s /\ RowOf(c, s, e).text = t
      <4>1. /\ RowOf(c, s, e).text \in Seq(Byte) /\ Len(RowOf(c, s, e).text) = e - 1 - s
            /\ RowOf(c, s, e).text = SubSeq(c, s + 1, e - 1)
        BY <1>2, RowBounds
      <4>2. QED
        BY <4>1
    <3>6. u \in Seq(Byte) /\ Len(u) = (z + e) - 1 - (z + s) /\ RowOf(b, z + s, z + e).text = u
      <4>1. PICK p, q : p = z + s /\ q = z + e
        OBVIOUS
      <4>2. /\ RowOf(b, p, q).text \in Seq(Byte) /\ Len(RowOf(b, p, q).text) = q - 1 - p
            /\ RowOf(b, p, q).text = SubSeq(b, p + 1, q - 1)
        <5>1. IsRow(b, p, q)
          BY <2>5, <4>1
        <5>2. QED
          BY <5>1, RowBounds
      <4>3. p \in Int /\ q \in Int /\ p + 1 = z + s + 1 /\ q - 1 = z + e - 1
        BY <2>1, <4>1
      <4>4. RowOf(b, p, q).text = u
        BY <4>2, <4>3
      <4>5. u \in Seq(Byte) /\ Len(u) = q - 1 - p
        BY <4>2, <4>4
      <4>6. QED
        BY <4>1, <4>4, <4>5, Zenon
    <3>1. /\ t \in Seq(Byte) /\ Len(t) = e - 1 - s
          /\ u \in Seq(Byte) /\ Len(u) = (z + e) - 1 - (z + s)
      BY <3>0, <3>6
    <3>2. Len(t) = Len(u) /\ Len(t) \in Int
      BY <2>1, <3>1
    <3>3. ASSUME NEW i \in 1 .. Len(t) PROVE t[i] = u[i]
      <4>1. i \in Nat /\ 1 <= i /\ i <= e - 1 - s
        BY <3>1, <3>2
      <4>2. t[i] = c[s + i]
        <5>1. \A q \in s + 1 .. e - 1 : c[q] \in Byte
          BY <1>0, <2>1
        <5>2. s + 1 \in Int /\ e - 1 \in Int /\ i \in 1 .. (e - 1) - (s + 1) + 1 /\ (s + 1) + i - 1 = s + i
          BY <2>1, <4>1
        <5>3. QED
          BY <5>1, <5>2, SubSeqProperties
      <4>3. u[i] = b[z + s + i]
        <5>1. \A q \in z + s + 1 .. z + e - 1 : b[q] \in Byte
          BY <1>0, <2>1
        <5>2. z + s + 1 \in Int /\ z + e - 1 \in Int
              /\ i \in 1 .. (z + e - 1) - (z + s + 1) + 1 /\ (z + s + 1) + i - 1 = z + s + i
          BY <2>1, <4>1
        <5>3. QED
          BY <5>1, <5>2, SubSeqProperties
      <4>4. s + i \in 1 .. Len(c) /\ z + (s + i) = z + s + i
        BY <1>0, <2>1, <4>1
      <4>5. QED
        BY <4>2, <4>3, <4>4
    <3> HIDE DEF t, u
    <3>4. t = u
      BY <3>1, <3>2, <3>3, SeqEqual
    <3>5. QED
      BY <3>0, <3>4, <3>6
  <2>7. QED
    BY <2>5, <2>6
<1>3. ASSUME NEW s \in Nat, NEW e \in Nat, IsRow(b, z + s, z + e), e <= Len(c)
      PROVE  IsRow(c, s, e)
  <2>1. s < e /\ e \in 1 .. Len(c) /\ z + e \in Ends(b) /\ z + s \in Starts(b)
    BY <1>0, <1>3 DEF IsRow
  <2>2. e \in Ends(c)
    BY <1>1, <2>1
  <2>3. s \in Starts(c)
    <3>1. CASE s = 0
      BY <3>1 DEF Starts
    <3>2. CASE s # 0
      <4>1. s \in 1 .. Len(c) /\ z + s # 0
        BY <1>0, <2>1, <3>2
      <4>2. z + s \in Ends(b)
        BY <2>1, <4>1 DEF Starts
      <4>3. QED
        BY <1>1, <4>1, <4>2 DEF Starts
    <3>3. QED
      BY <3>1, <3>2
  <2>4. ASSUME NEW x \in Ends(c) PROVE x <= s \/ e <= x
    <3>1. x \in 1 .. Len(c) /\ x \in Nat
      BY EndsAre
    <3>2. z + x \in Ends(b)
      BY <1>1, <3>1
    <3>3. z + x <= z + s \/ z + e <= z + x
      BY <1>3, <3>2 DEF IsRow
    <3>4. QED
      BY <3>1, <3>3
  <2>5. QED
    BY <2>1, <2>2, <2>3, <2>4 DEF IsRow
<1>4. QED
  BY <1>1, <1>2, <1>3

\* Where rows are shown and where calls are, by bounds.
LEMMA ShownAre ==
  ASSUME NEW b \in Seq(Byte)
  PROVE  /\ \A s \in ShownAts(b) : \E e : /\ IsRow(b, s, e) /\ e - 1 - s <= RowCap
                                          /\ ParsedKind(RowOf(b, s, e).text) \in {"text", "call"}
         /\ \A s, e : IsRow(b, s, e) /\ e - 1 - s <= RowCap =>
              (ParsedKind(RowOf(b, s, e).text) \in {"text", "call"} => s \in ShownAts(b))
         /\ \A s \in CallAts(b) : \E e : IsRow(b, s, e) /\ ParsedKind(RowOf(b, s, e).text) = "call"
         /\ \A s, e : IsRow(b, s, e) /\ ParsedKind(RowOf(b, s, e).text) = "call" => s \in CallAts(b)
<1>1. ASSUME NEW s \in ShownAts(b)
      PROVE  \E e : /\ IsRow(b, s, e) /\ e - 1 - s <= RowCap
                    /\ ParsedKind(RowOf(b, s, e).text) \in {"text", "call"}
  <2>1. PICK row \in Rows(b) : s = row.at /\ Len(row.text) <= RowCap /\ ParsedKind(row.text) \in {"text", "call"}
    BY DEF ShownAts
  <2>2. PICK e \in Ends(b) : IsRow(b, s, e) /\ row = RowOf(b, s, e)
    BY <2>1, RowsAre
  <2>3. QED
    BY <2>1, <2>2, RowBounds
<1>2. ASSUME NEW s, NEW e, IsRow(b, s, e), e - 1 - s <= RowCap,
             ParsedKind(RowOf(b, s, e).text) \in {"text", "call"}
      PROVE  s \in ShownAts(b)
  <2>1. RowOf(b, s, e) \in Rows(b) /\ RowOf(b, s, e).at = s /\ Len(RowOf(b, s, e).text) <= RowCap
    BY <1>2, RowsAre, RowBounds
  <2>2. QED
    BY <1>2, <2>1 DEF ShownAts
<1>3. ASSUME NEW s \in CallAts(b)
      PROVE  \E e : IsRow(b, s, e) /\ ParsedKind(RowOf(b, s, e).text) = "call"
  <2>1. PICK row \in Rows(b) : s = row.at /\ ParsedKind(row.text) = "call"
    BY DEF CallAts
  <2>2. PICK e \in Ends(b) : IsRow(b, s, e) /\ row = RowOf(b, s, e)
    BY <2>1, RowsAre
  <2>3. QED
    BY <2>1, <2>2
<1>4. ASSUME NEW s, NEW e, IsRow(b, s, e), ParsedKind(RowOf(b, s, e).text) = "call"
      PROVE  s \in CallAts(b)
  <2>1. RowOf(b, s, e) \in Rows(b) /\ RowOf(b, s, e).at = s
    BY <1>4, RowsAre, RowBounds
  <2>2. QED
    BY <1>4, <2>1 DEF CallAts
<1>5. QED
  BY <1>1, <1>2, <1>3, <1>4

LEMMA Grow ==
  ASSUME NEW b \in Seq(Byte), NEW y \in Byte, NEW c, c = Append(b, y)
  PROVE  /\ c \in Seq(Byte) /\ Len(c) = Len(b) + 1 /\ \A i \in 1 .. Len(b) : c[i] = b[i]
         /\ Ends(b) \subseteq Ends(c) /\ \A e \in Ends(c) : e \in Ends(b) \/ e = Len(b) + 1
         /\ Rows(b) \subseteq Rows(c) /\ Confirmed(b) <= Confirmed(c)
         /\ CallAts(b) \subseteq CallAts(c)
         /\ \A s \in ShownAts(c) : s \in ShownAts(b) \/ s = Confirmed(b)
         /\ \A a : Clean(b, a) => Clean(c, a) /\ \A s \in ShownAts(c) : s < a => s \in ShownAts(b)
<1>1. /\ c \in Seq(Byte) /\ Len(c) = Len(b) + 1 /\ Len(b) \in Nat
      /\ \A i \in 1 .. Len(b) : c[i] = b[i]
  BY AppendProperties
<1>2. Ends(b) \subseteq Ends(c)
  BY <1>1 DEF Ends
<1>3. ASSUME NEW e \in Ends(c) PROVE e \in Ends(b) \/ e = Len(b) + 1
  BY <1>1 DEF Ends
<1>4. /\ \A s, e : IsRow(b, s, e) => IsRow(c, s, e) /\ RowOf(b, s, e).text = RowOf(c, s, e).text
      /\ \A s, e \in Nat : IsRow(c, s, e) /\ e <= Len(b) => IsRow(b, s, e)
  <2>0. PICK z \in Nat : z = 0
    OBVIOUS
  <2>1. z + Len(b) <= Len(c) /\ \A i \in 1 .. Len(b) : b[i] = c[z + i]
    BY <1>1, <2>0
  <2>2. z \in Starts(c)
    BY <2>0 DEF Starts
  <2>3. /\ \A s, e : IsRow(b, s, e) => IsRow(c, z + s, z + e) /\ RowOf(b, s, e).text = RowOf(c, z + s, z + e).text
        /\ \A s, e \in Nat : IsRow(c, z + s, z + e) /\ e <= Len(b) => IsRow(b, s, e)
    <3>1. /\ \A s, e : IsRow(b, s, e) /\ (s # 0 \/ z \in Starts(c)) =>
                IsRow(c, z + s, z + e) /\ RowOf(b, s, e).text = RowOf(c, z + s, z + e).text
          /\ \A s, e \in Nat : IsRow(c, z + s, z + e) /\ e <= Len(b) => IsRow(b, s, e)
      BY <1>1, <2>1, Piece, Zenon
    <3>2. QED
      BY <2>2, <3>1, Zenon
  <2>5. \A s \in Nat : z + s = s
    BY <2>0
  <2>6. ASSUME NEW s, NEW e, IsRow(b, s, e)
        PROVE  IsRow(c, s, e) /\ RowOf(b, s, e).text = RowOf(c, s, e).text
    <3>1. z + s = s /\ z + e = e
      BY <2>5, <2>6, RowBounds
    <3>2. QED
      BY <2>3, <2>6, <3>1
  <2>7. ASSUME NEW s \in Nat, NEW e \in Nat, IsRow(c, s, e), e <= Len(b) PROVE IsRow(b, s, e)
    BY <2>3, <2>5, <2>7
  <2>8. QED
    BY <2>6, <2>7
<1>5. ASSUME NEW s, NEW e, IsRow(b, s, e) PROVE RowOf(b, s, e) = RowOf(c, s, e)
  <2>1. RowOf(b, s, e).text = RowOf(c, s, e).text
    BY <1>4, <1>5
  <2>2. RowOf(b, s, e) = [at |-> s, text |-> RowOf(b, s, e).text]
    BY DEF RowOf
  <2>3. RowOf(c, s, e) = [at |-> s, text |-> RowOf(c, s, e).text]
    BY DEF RowOf
  <2>4. QED
    BY <2>1, <2>2, <2>3
<1>6. ASSUME NEW row \in Rows(b) PROVE row \in Rows(c)
  <2>1. PICK e \in Ends(b) : IsRow(b, row.at, e) /\ row = RowOf(b, row.at, e)
    BY RowsAre
  <2>2. IsRow(c, row.at, e) /\ row = RowOf(c, row.at, e)
    BY <1>4, <1>5, <2>1
  <2>3. RowOf(c, row.at, e) \in Rows(c)
    BY <1>1, <2>2, RowsAre
  <2>4. QED
    BY <2>2, <2>3
<1>7. ASSUME NEW s, NEW e, IsRow(c, s, e) PROVE IsRow(b, s, e) \/ (s = Confirmed(b) /\ e = Len(c))
  <2>1. s \in Nat /\ e \in Nat /\ s < e /\ e <= Len(c)
    BY <1>1, <1>7, RowBounds
  <2>2. CASE e <= Len(b)
    BY <1>4, <1>7, <2>1, <2>2
  <2>3. CASE e = Len(c)
    <3>1. Confirmed(b) \in Starts(b) /\ Confirmed(b) \in Nat /\ Confirmed(b) <= Len(b)
          /\ \A x \in Starts(b) : x <= Confirmed(b)
      BY ConfirmedIs
    <3>2. s \in Starts(b)
      BY <1>1, <1>3, <1>7, <2>1, <2>3 DEF IsRow, Starts
    <3>3. Confirmed(b) <= s
      <4>1. CASE Confirmed(b) = 0
        BY <2>1, <4>1
      <4>2. CASE Confirmed(b) # 0
        <5>1. Confirmed(b) \in Ends(c)
          BY <1>2, <3>1, <4>2 DEF Starts
        <5>2. QED
          BY <1>1, <1>7, <2>1, <2>3, <3>1, <5>1 DEF IsRow
      <4>3. QED
        BY <4>1, <4>2
    <3>4. QED
      BY <2>1, <2>3, <3>1, <3>2, <3>3
  <2>4. QED
    BY <1>1, <2>1, <2>2, <2>3
<1>8. Confirmed(b) <= Confirmed(c)
  <2>1. Confirmed(b) \in Starts(c)
    BY <1>2, ConfirmedIs DEF Starts
  <2>2. QED
    BY <1>1, <2>1, ConfirmedIs
<1>9. CallAts(b) \subseteq CallAts(c)
  BY <1>6 DEF CallAts
<1>10. ASSUME NEW s \in ShownAts(c)
       PROVE  s \in ShownAts(b) \/ (s = Confirmed(b) /\ Len(c) - 1 - s <= RowCap)
  <2>1. PICK e : /\ IsRow(c, s, e) /\ e - 1 - s <= RowCap
                 /\ ParsedKind(RowOf(c, s, e).text) \in {"text", "call"}
    BY <1>1, ShownAre
  <2>2. CASE IsRow(b, s, e)
    <3>1. RowOf(b, s, e).text = RowOf(c, s, e).text
      BY <1>4, <2>2
    <3>2. QED
      BY <2>1, <2>2, <3>1, ShownAre
  <2>3. QED
    BY <1>7, <2>1, <2>2
<1>11. ASSUME NEW a, Clean(b, a)
       PROVE  Clean(c, a) /\ \A s \in ShownAts(c) : s < a => s \in ShownAts(b)
  <2>0. a \in Nat /\ a <= Len(b) /\ RowCap \in Nat
    BY <1>1, <1>11, RowCapAssumption DEF Clean
  <2>1. ASSUME NEW s \in Starts(c), s < a
        PROVE  \/ \E e \in Ends(c) : s < e /\ e <= a
               \/ s + RowCap < Len(c) /\ \A e \in Ends(c) : e <= s \/ s + RowCap + 1 < e
    <3>1. s \in Starts(b) /\ s \in Nat
      BY <1>1, <1>3, <2>0, <2>1, EndsAre DEF Starts
    <3>2. CASE \E e \in Ends(b) : s < e /\ e <= a
      BY <1>2, <3>2
    <3>3. CASE s + RowCap < Len(b) /\ \A e \in Ends(b) : e <= s \/ s + RowCap + 1 < e
      <4>1. s + RowCap < Len(c)
        BY <1>1, <2>0, <3>1, <3>3
      <4>2. ASSUME NEW e \in Ends(c) PROVE e <= s \/ s + RowCap + 1 < e
        <5>1. CASE e \in Ends(b)
          BY <3>3, <5>1
        <5>2. CASE e = Len(b) + 1
          BY <1>1, <2>0, <3>1, <3>3, <5>2
        <5>3. QED
          BY <1>3, <5>1, <5>2
      <4>3. QED
        BY <4>1, <4>2
    <3>4. QED
      BY <1>11, <2>1, <3>1, <3>2, <3>3 DEF Clean
  <2>2. Clean(c, a)
    BY <1>1, <2>0, <2>1 DEF Clean
  <2>3. ASSUME NEW s \in ShownAts(c), s < a, s \notin ShownAts(b) PROVE FALSE
    <3>1. s = Confirmed(b) /\ Len(b) - s <= RowCap
      <4>1. s = Confirmed(b) /\ Len(c) - 1 - s <= RowCap
        BY <1>10, <2>3
      <4>2. QED
        BY <1>1, <4>1, ConfirmedIs
    <3>2. s \in Starts(b) /\ s \in Nat /\ \A x \in Starts(b) : x <= s
      BY <3>1, ConfirmedIs
    <3>3. ~ \E e \in Ends(b) : s < e /\ e <= a
      BY <3>2, EndsAre DEF Starts
    <3>4. s + RowCap < Len(b)
      BY <1>11, <2>3, <3>2, <3>3 DEF Clean
    <3>5. QED
      BY <1>1, <2>0, <3>1, <3>2, <3>4
  <2>4. QED
    BY <2>2, <2>3
<1>12. QED
  BY <1>1, <1>2, <1>3, <1>6, <1>8, <1>9, <1>10, <1>11

\* What holds of a node, and of a place before it, goes on to hold.
LEMMA GrowNode ==
  ASSUME NEW b \in Seq(Byte), NEW y \in Byte, NEW c, c = Append(b, y), NEW n \in AnyNode, Valid(b, n)
  PROVE  /\ Valid(c, n) /\ \A s \in ShownAts(c) : s <= n.at => s \in ShownAts(b)
         /\ \A a \in 0 .. Len(b) : FitsFrom(b, n, a) => FitsFrom(c, n, a)
<1>1. /\ c \in Seq(Byte) /\ Len(c) = Len(b) + 1 /\ Len(b) \in Nat
      /\ \A e \in Ends(c) : e \in Ends(b) \/ e = Len(b) + 1
      /\ Rows(b) \subseteq Rows(c) /\ Confirmed(b) <= Confirmed(c)
      /\ \A s \in ShownAts(c) : s \in ShownAts(b) \/ s = Confirmed(b)
      /\ Clean(b, n.at) => Clean(c, n.at)
  BY Grow, EndsAre
<1>2. n.at \in Nat /\ n.at < Confirmed(b) /\ Confirmed(b) \in Nat /\ Confirmed(c) \in Nat
  BY <1>1, ConfirmedIs DEF Valid, AnyNode
<1>3. \A s \in ShownAts(c) : s <= n.at => s \in ShownAts(b)
  BY <1>1, <1>2
<1>4. Valid(c, n)
  <2>1. n.at < Confirmed(c) /\ Clean(c, n.at)
    BY <1>1, <1>2 DEF Valid
  <2>2. n.at \notin ShownAts(b) => n.at \notin ShownAts(c)
    BY <1>2, <1>3
  <2>3. QED
    BY <1>1, <2>1, <2>2 DEF Valid
<1>5. ASSUME NEW a \in 0 .. Len(b), FitsFrom(b, n, a) PROVE FitsFrom(c, n, a)
  <2>1. CASE NoEndIn(b, n.at, a)
    BY <1>1, <2>1 DEF NoEndIn, FitsFrom
  <2>2. QED
    BY <1>5, <2>1 DEF FitsFrom
<1>6. QED
  BY <1>3, <1>4, <1>5

LEMMA ParsedKindIs ==
  ASSUME NEW text
  PROVE  /\ ParsedKind(text) \in {"text", "call", "result", "unreadable"}
         /\ text = <<>> => ParsedKind(text) = "unreadable"
         /\ text # <<>> => /\ ParsedKind(text) = "text" <=> Head(text) = "t"
                           /\ ParsedKind(text) = "call" <=> Head(text) = "c"
                           /\ ParsedKind(text) = "result" <=> Head(text) = "r"
BY DEF ParsedKind

\* The first byte of a complete row tells its kind.
LEMMA FirstByte ==
  ASSUME NEW b \in Seq(Byte), NEW s, NEW e, IsRow(b, s, e)
  PROVE  /\ ParsedKind(RowOf(b, s, e).text) = "call" <=> b[s + 1] = "c"
         /\ ParsedKind(RowOf(b, s, e).text) = "result" <=> b[s + 1] = "r"
         /\ ParsedKind(RowOf(b, s, e).text) = "text" <=> b[s + 1] = "t"
<1>1. /\ s \in Nat /\ e \in Nat /\ s < e /\ e <= Len(b)
      /\ Len(RowOf(b, s, e).text) = e - 1 - s /\ RowOf(b, s, e).text \in Seq(Byte)
      /\ RowOf(b, s, e).text # <<>> => s + 1 < e /\ Head(RowOf(b, s, e).text) = b[s + 1]
  BY RowBounds
<1>2. CASE RowOf(b, s, e).text = <<>>
  <2>1. e = s + 1
    <3>1. Len(RowOf(b, s, e).text) = 0
      BY <1>2
    <3>2. QED
      BY <1>1, <3>1
  <2>2. b[s + 1] = "n"
    BY <2>1 DEF IsRow, Ends
  <2>3. QED
    BY <1>2, <2>2, ParsedKindIs
<1>3. CASE RowOf(b, s, e).text # <<>>
  BY <1>1, <1>3, ParsedKindIs
<1>4. QED
  BY <1>2, <1>3

\* A call or a result among the complete rows.
LEMMA RowOfByte ==
  ASSUME NEW b, IsTranscript(b), NEW p \in DOMAIN b, b[p] \in {"t", "c", "r"}, p <= Confirmed(b)
  PROVE  \E e : IsRow(b, p - 1, e)
<1>1. b \in Seq(Byte) /\ p \in Nat /\ p >= 1 /\ p <= Len(b)
  BY DEF IsTranscript
<1>2. p - 1 \in Starts(b)
  <2>1. CASE p = 1
    BY <2>1 DEF Starts
  <2>2. CASE p > 1
    <3>1. b[p - 1] = "n"
      BY <2>2 DEF IsTranscript
    <3>2. p - 1 \in 1 .. Len(b)
      BY <1>1, <2>2, EndsAre
    <3>3. QED
      BY <3>1, <3>2 DEF Starts, Ends
  <2>3. QED
    BY <1>1, <2>1, <2>2
<1>3. Confirmed(b) \in Ends(b) /\ p - 1 < Confirmed(b)
  BY <1>1, ConfirmedIs DEF Starts
<1>4. QED
  BY <1>1, <1>2, <1>3, NextRow

\* There is one result row.
LEMMA OneResult ==
  ASSUME NEW b, IsTranscript(b), NEW q \in Rows(b), NEW r \in Rows(b),
         ParsedKind(q.text) = "result", ParsedKind(r.text) = "result"
  PROVE  q.at = r.at
<1>0. b \in Seq(Byte)
  BY DEF IsTranscript
<1>1. PICK d \in Ends(b) : IsRow(b, q.at, d) /\ q = RowOf(b, q.at, d)
  BY <1>0, RowsAre
<1>2. PICK e \in Ends(b) : IsRow(b, r.at, e) /\ r = RowOf(b, r.at, e)
  BY <1>0, RowsAre
<1>3. b[q.at + 1] = "r" /\ b[r.at + 1] = "r"
  BY <1>0, <1>1, <1>2, FirstByte
<1>4. q.at \in Nat /\ r.at \in Nat /\ q.at + 1 \in DOMAIN b /\ r.at + 1 \in DOMAIN b
  BY <1>0, <1>1, <1>2, RowBounds, EndsAre
<1>5. q.at + 1 = r.at + 1
  BY <1>3, <1>4 DEF IsTranscript
<1>6. QED
  BY <1>4, <1>5

\* The result row is one, and comes after the call.
LEMMA ResultAtsAre ==
  ASSUME NEW b, IsTranscript(b)
  PROVE  /\ ResultAts(b) \subseteq Nat /\ \A q, r \in ResultAts(b) : q = r
         /\ \A c \in CallAts(b), r \in ResultAts(b) : c \in Nat /\ c < r
         /\ \A n : Valid(b, n) => /\ n.k = "result" => n.at \in ResultAts(b)
                                  /\ n.k = "done" => n.at \in CallAts(b)
<1>0. b \in Seq(Byte)
  BY DEF IsTranscript
<1>1. \A r \in ResultAts(b) : \E row \in Rows(b) : row.at = r /\ ParsedKind(row.text) = "result"
  BY DEF ResultAts
<1>2. ASSUME NEW row \in Rows(b)
      PROVE  /\ row.at \in Nat /\ row.at + 1 \in DOMAIN b
             /\ ParsedKind(row.text) = "call" => b[row.at + 1] = "c"
             /\ ParsedKind(row.text) = "result" => b[row.at + 1] = "r"
  <2>1. PICK e \in Ends(b) : IsRow(b, row.at, e) /\ row = RowOf(b, row.at, e)
    BY <1>0, RowsAre
  <2>2. row.at \in Nat /\ row.at + 1 \in DOMAIN b
    BY <1>0, <2>1, RowBounds, EndsAre
  <2>3. QED
    BY <1>0, <2>1, <2>2, FirstByte
<1>3. ASSUME NEW c \in CallAts(b), NEW r \in ResultAts(b) PROVE c \in Nat /\ c < r
  <2>1. PICK q \in Rows(b) : q.at = c /\ ParsedKind(q.text) = "call"
    BY DEF CallAts
  <2>2. PICK row \in Rows(b) : row.at = r /\ ParsedKind(row.text) = "result"
    BY <1>1
  <2>3. /\ c \in Nat /\ r \in Nat /\ c + 1 \in DOMAIN b /\ r + 1 \in DOMAIN b
        /\ b[c + 1] = "c" /\ b[r + 1] = "r"
    BY <1>2, <2>1, <2>2
  <2>4. PICK p \in DOMAIN b : p < r + 1 /\ b[p] = "c"
    BY <2>3 DEF IsTranscript
  <2>5. p = c + 1
    BY <2>3, <2>4 DEF IsTranscript
  <2>6. QED
    BY <2>3, <2>4, <2>5
<1>4. \A q, r \in ResultAts(b) : q = r
  BY <1>1, OneResult
<1>5. ResultAts(b) \subseteq Nat
  BY <1>1, <1>2
<1>6. ASSUME NEW n, Valid(b, n)
      PROVE  /\ n.k = "result" => n.at \in ResultAts(b)
             /\ n.k = "done" => n.at \in CallAts(b)
  <2>1. \A row \in Rows(b) : ParsedKind(row.text) # "done"
    BY ParsedKindIs
  <2>2. QED
    BY <1>6, <2>1 DEF Valid, ResultAts, CallAts
<1>7. QED
  BY <1>3, <1>4, <1>5, <1>6

\* A transcript that is written to as sessions write stays one.
LEMMA WrittenTranscript ==
  ASSUME NEW b, IsTranscript(b), NEW y \in Byte,
         y \in {"t", "c", "r"} => Len(b) - Confirmed(b) = 0,
         y = "c" => ~ \E row \in Rows(b) : ParsedKind(row.text) = "call",
         y = "r" => /\ \E row \in Rows(b) : ParsedKind(row.text) = "call"
                    /\ ~ \E row \in Rows(b) : ParsedKind(row.text) = "result"
  PROVE  IsTranscript(Append(b, y))
<1> DEFINE c == Append(b, y)
           z == Len(b) + 1
<1>0. b \in Seq(Byte)
  BY DEF IsTranscript
<1>1. /\ c \in Seq(Byte) /\ Len(b) \in Nat /\ DOMAIN c = 1 .. z /\ DOMAIN b = 1 .. Len(b)
      /\ \A i \in 1 .. Len(b) : c[i] = b[i]
      /\ c[z] = y
  BY <1>0, AppendProperties
<1> HIDE DEF c
<1>2. y \in {"t", "c", "r"} => Len(b) = Confirmed(b)
  BY <1>0, <1>1, ConfirmedIs
<1>3. ASSUME NEW p \in DOMAIN c, c[p] \in {"t", "c", "r"}, p > 1 PROVE c[p - 1] = "n"
  <2>1. CASE p = z
    <3>1. Len(b) = Confirmed(b) /\ Len(b) >= 1 /\ p - 1 = Len(b)
      BY <1>1, <1>2, <1>3, <2>1
    <3>2. Len(b) \in Ends(b)
      BY <1>0, <1>1, <3>1, ConfirmedIs DEF Starts
    <3>3. b[Len(b)] = "n" /\ c[p - 1] = b[Len(b)]
      BY <1>1, <3>1, <3>2 DEF Ends
    <3>4. QED
      BY <3>3
  <2>2. CASE p # z
    <3>1. p \in DOMAIN b /\ p - 1 \in DOMAIN b
      BY <1>1, <1>3, <2>2
    <3>2. b[p - 1] = "n"
      BY <1>1, <1>3, <3>1 DEF IsTranscript
    <3>3. QED
      BY <1>1, <3>1, <3>2
  <2>3. QED
    BY <2>1, <2>2
<1>4. ASSUME NEW p \in DOMAIN b, b[p] = y, y \in {"c", "r"} PROVE FALSE
  <2>1. p <= Confirmed(b)
    BY <1>1, <1>2, <1>4
  <2>2. PICK e : IsRow(b, p - 1, e)
    BY <1>4, <2>1, RowOfByte
  <2>3. PICK s : s = p - 1
    OBVIOUS
  <2>4. IsRow(b, s, e) /\ b[s + 1] = y
    BY <1>1, <1>4, <2>2, <2>3
  <2>5. RowOf(b, s, e) \in Rows(b)
    BY <1>0, <2>4, RowsAre
  <2>6. ParsedKind(RowOf(b, s, e).text) = IF y = "c" THEN "call" ELSE "result"
    BY <1>0, <1>4, <2>4, FirstByte
  <2>7. QED
    BY <1>4, <2>5, <2>6
<1>5. ASSUME NEW p \in DOMAIN c, NEW q \in DOMAIN c, c[p] = c[q], c[p] \in {"c", "r"} PROVE p = q
  <2>1. CASE p = z /\ q # z
    BY <1>1, <1>4, <1>5, <2>1
  <2>2. CASE q = z /\ p # z
    BY <1>1, <1>4, <1>5, <2>2
  <2>3. CASE p # z /\ q # z
    <3>1. p \in DOMAIN b /\ q \in DOMAIN b
      BY <1>1, <2>3
    <3>2. QED
      BY <1>1, <1>5, <3>1 DEF IsTranscript
  <2>4. QED
    BY <2>1, <2>2, <2>3
<1>6. ASSUME NEW q \in DOMAIN c, c[q] = "r" PROVE \E p \in DOMAIN c : p < q /\ c[p] = "c"
  <2>1. CASE q = z
    <3>1. PICK row \in Rows(b) : ParsedKind(row.text) = "call"
      BY <1>1, <1>6, <2>1
    <3>2. PICK e \in Ends(b) : IsRow(b, row.at, e) /\ row = RowOf(b, row.at, e)
      BY <1>0, RowsAre
    <3>3. b[row.at + 1] = "c"
      BY <1>0, <3>1, <3>2, FirstByte
    <3>4. row.at \in Nat /\ row.at + 1 \in DOMAIN b
      BY <1>0, <1>1, <3>2, RowBounds
    <3>5. QED
      BY <1>1, <2>1, <3>3, <3>4
  <2>2. CASE q # z
    <3>1. q \in DOMAIN b
      BY <1>1, <2>2
    <3>2. PICK p \in DOMAIN b : p < q /\ b[p] = "c"
      BY <1>1, <1>6, <3>1 DEF IsTranscript
    <3>3. QED
      BY <1>1, <3>2
  <2>3. QED
    BY <2>1, <2>2
<1>7. IsTranscript(c)
  BY <1>1, <1>3, <1>5, <1>6 DEF IsTranscript
<1>8. QED
  BY <1>7 DEF c

-----------------------------------------------------------------------------
(* Windows                                                                 *)

\* The nodes of the rows of a file between two places, one for each.
NodesOf(b, from, to, ino, N) ==
  /\ IsFiniteSet(N) /\ N \subseteq AnyNode
  /\ \A n \in N : n.ino = ino /\ from <= n.at /\ n.at < to /\ Valid(b, n)
  /\ \A n, m \in N : n.at = m.at => n = m
  /\ \A s \in ShownAts(b) : from <= s /\ s < to => s \in Ats(N)

\* Nothing is cut in two where a row starts.
LEMMA StartIsClean ==
  ASSUME NEW b \in Seq(Byte), NEW a \in Starts(b)
  PROVE  Clean(b, a)
BY EndsAre DEF Clean, Starts

\* The image of a finite set of nodes.
LEMMA FiniteImage ==
  ASSUME NEW S, IsFiniteSet(S), NEW T, NEW f \in [S -> T], T = {f[x] : x \in S}
  PROVE  IsFiniteSet(T)
<1>1. f \in Surjection(S, T)
  BY DEF Surjection
<1>2. QED
  BY <1>1, FS_Surjection

\* The rows of a file are finitely many.
LEMMA RowsFinite ==
  ASSUME NEW b \in Seq(Byte)
  PROVE  IsFiniteSet(Rows(b))
<1> DEFINE f == [r \in Rows(b) |-> r.at]
<1>1. \A r \in Rows(b) : r.at \in 0 .. Len(b)
  BY RowsAre, RowBounds, EndsAre
<1>2. f \in Injection(Rows(b), 0 .. Len(b))
  <2>1. IsInjective(f)
    BY RowsAre DEF IsInjective
  <2>2. f \in [Rows(b) -> 0 .. Len(b)]
    BY <1>1
  <2>3. QED
    BY <2>1, <2>2, Zenon DEF Injection
<1>3. IsFiniteSet(0 .. Len(b))
  BY EndsAre, FS_Interval
<1> HIDE DEF f
<1>4. QED
  BY <1>2, <1>3, FS_Injection

\* The rows of the first bytes of a file, and where they start, are those of the
\* file that end there.
LEMMA PrefixOf ==
  ASSUME NEW b \in Seq(Byte), NEW c \in Seq(Byte), NEW eof \in Nat, eof <= Len(b), Len(c) = eof,
         \A i \in 1 .. eof : c[i] = b[i]
  PROVE  /\ \A s, e : IsRow(c, s, e) => IsRow(b, s, e) /\ RowOf(c, s, e) = RowOf(b, s, e)
         /\ \A s, e : IsRow(b, s, e) /\ e <= eof => IsRow(c, s, e)
         /\ \A x \in 0 .. eof : x \in Starts(c) <=> x \in Starts(b)
<1>2. PICK z \in Nat : z = 0
  OBVIOUS
<1>3. /\ \A x \in 1 .. Len(c) : x \in Ends(c) <=> z + x \in Ends(b)
      /\ \A s, e : IsRow(c, s, e) /\ (s # 0 \/ z \in Starts(b)) =>
           IsRow(b, z + s, z + e) /\ RowOf(c, s, e).text = RowOf(b, z + s, z + e).text
      /\ \A s, e \in Nat : IsRow(b, z + s, z + e) /\ e <= Len(c) => IsRow(c, s, e)
  <2>1. z + Len(c) <= Len(b) /\ \A i \in 1 .. Len(c) : c[i] = b[z + i]
    BY <1>2
  <2>2. z \in Nat
    BY <1>2
  <2>3. QED
    BY <2>1, <2>2, Piece, Zenon
<1>4. z \in Starts(b) /\ \A s \in Nat : z + s = s
  BY <1>2 DEF Starts
<1>5. ASSUME NEW s, NEW e, IsRow(c, s, e)
      PROVE  IsRow(b, s, e) /\ RowOf(c, s, e) = RowOf(b, s, e)
  <2>1. z + s = s /\ z + e = e
    BY <1>4, <1>5, RowBounds
  <2>2. IsRow(b, s, e) /\ RowOf(c, s, e).text = RowOf(b, s, e).text
    BY <1>3, <1>4, <1>5, <2>1
  <2>3. QED
    BY <2>2 DEF RowOf
<1>6. ASSUME NEW s, NEW e, IsRow(b, s, e), e <= eof PROVE IsRow(c, s, e)
  <2>1. s \in Nat /\ e \in Nat
    BY <1>6, RowBounds
  <2>2. z + s = s /\ z + e = e
    BY <1>4, <2>1
  <2>3. QED
    BY <1>3, <1>6, <2>1, <2>2
<1>7. ASSUME NEW x \in 0 .. eof PROVE x \in Starts(c) <=> x \in Starts(b)
  <2>1. CASE x = 0
    BY <2>1 DEF Starts
  <2>2. CASE x # 0
    <3>1. x \in 1 .. Len(c) /\ z + x = x
      BY <1>4, <2>2
    <3>2. QED
      BY <1>3, <2>2, <3>1 DEF Starts
  <2>3. QED
    BY <2>1, <2>2
<1>8. QED
  BY <1>5, <1>6, <1>7

\* The same of the bytes a reader sees that stops at `eof'.
LEMMA PrefixIs ==
  ASSUME NEW b \in Seq(Byte), NEW eof \in Nat, eof <= Len(b), NEW c, c = SubSeq(b, 1, eof)
  PROVE  /\ c \in Seq(Byte) /\ Len(c) = eof /\ \A i \in 1 .. eof : c[i] = b[i]
         /\ \A s, e : IsRow(c, s, e) => IsRow(b, s, e) /\ RowOf(c, s, e) = RowOf(b, s, e)
         /\ \A s, e : IsRow(b, s, e) /\ e <= eof => IsRow(c, s, e)
         /\ \A x \in 0 .. eof : x \in Starts(c) <=> x \in Starts(b)
<1>0. Len(b) \in Nat /\ DOMAIN b = 1 .. Len(b)
  BY EndsAre
<1>1. c \in Seq(Byte) /\ Len(c) = eof /\ \A i \in 1 .. eof : c[i] = b[i]
  <2>1. \A i \in 1 .. eof : b[i] \in Byte
    BY <1>0
  <2>2. /\ c \in Seq(Byte) /\ Len(c) = (IF 1 <= eof THEN eof - 1 + 1 ELSE 0)
        /\ \A i \in 1 .. eof - 1 + 1 : c[i] = b[1 + i - 1]
    BY <2>1, SubSeqProperties
  <2>3. \A i \in 1 .. eof : 1 + i - 1 = i
    OBVIOUS
  <2>4. QED
    BY <2>2, <2>3
<1>2. QED
  BY <1>1, PrefixOf

\* A flag that says whether a number is positive.
LEMMA TruthOf ==
  ASSUME NEW x, NEW n \in Nat, x = (n > 0)
  PROVE  x \in BOOLEAN /\ (x <=> n > 0)
<1>1. x \in BOOLEAN
  OBVIOUS
<1>2. x <=> n > 0
  BY <1>1, Zenon
<1>3. QED
  BY <1>1, <1>2, Zenon

\* The window of a file before a place: some of its last rows.
LEMMA WindowIs ==
  ASSUME NEW b \in Seq(Byte), NEW eof \in Nat, eof <= Len(b), NEW limit \in Nat \ {0},
         NEW W, W = FindWindow(b, eof, limit)
  PROVE  /\ W.to \in Starts(b) /\ W.to \in Nat /\ W.to <= eof /\ NoEndIn(b, W.to, eof)
         /\ W.from \in Starts(b) /\ W.from \in Nat /\ W.from <= W.to
         /\ W.truncatedBefore \in BOOLEAN /\ (W.truncatedBefore <=> W.from > 0)
         /\ IsFiniteSet(W.rows) /\ W.rows \subseteq Rows(b)
         /\ \A row \in W.rows : W.from <= row.at /\ row.at < W.to
         /\ \A row \in Rows(b) : W.from <= row.at /\ row.at < W.to => row \in W.rows
         /\ W.rows = {} => W.from = 0 /\ W.to = 0
         /\ W.carrySeed = CarrySeed(b, W.to, eof)
<1> DEFINE c    == SubSeq(b, 1, eof)
           rows == Rows(c)
           Up(row) == {r \in rows : r.at >= row.at}
           kept == {row \in rows : Cardinality(Up(row)) <= limit}
           to   == Confirmed(c)
<1>0. Len(b) \in Nat
  BY EndsAre
<1>1. /\ c \in Seq(Byte) /\ Len(c) = eof /\ \A i \in 1 .. eof : c[i] = b[i]
      /\ \A s, e : IsRow(c, s, e) => IsRow(b, s, e) /\ RowOf(c, s, e) = RowOf(b, s, e)
      /\ \A s, e : IsRow(b, s, e) /\ e <= eof => IsRow(c, s, e)
      /\ \A x \in 0 .. eof : x \in Starts(c) <=> x \in Starts(b)
  BY PrefixIs
<1>2. /\ W.rows = kept /\ W.to = to
      /\ W.from = IF kept = {} THEN to ELSE Min({row.at : row \in kept})
      /\ W.truncatedBefore = (W.from > 0)
      /\ W.carrySeed = CarrySeed(b, to, eof)
  BY DEF FindWindow
<1> HIDE DEF c
<1>3. /\ to \in Starts(c) /\ to \in Nat /\ to <= eof
      /\ \A e \in Starts(c) : e <= to
  BY <1>1, ConfirmedIs
<1>4. to \in Starts(b) /\ NoEndIn(b, to, eof)
  <2>1. to \in Starts(b)
    BY <1>1, <1>3
  <2>2. ASSUME NEW e \in Ends(b), e <= eof PROVE e <= to
    BY <1>1, <1>3, <2>2, EndsAre DEF Starts
  <2>3. QED
    BY <2>1, <2>2, EndsAre DEF NoEndIn
<1> HIDE DEF to
<1>5. rows \subseteq Rows(b) /\ \A row \in rows : row.at < to /\ row.at \in Nat /\ row.at \in Starts(b)
  <2>1. ASSUME NEW row \in rows
        PROVE  row \in Rows(b) /\ row.at < to /\ row.at \in Nat /\ row.at \in Starts(b)
    <3>1. PICK e \in Ends(c) : IsRow(c, row.at, e) /\ row = RowOf(c, row.at, e)
      BY <1>1, RowsAre
    <3>2. IsRow(b, row.at, e) /\ row = RowOf(b, row.at, e)
      BY <1>1, <3>1
    <3>3. RowOf(b, row.at, e) \in Rows(b)
      BY <3>2, RowsAre
    <3>4. row.at < e /\ e <= to /\ row.at \in Nat /\ e \in Nat
      BY <1>1, <3>1, RowBounds DEF to
    <3>5. QED
      BY <1>3, <3>2, <3>3, <3>4 DEF IsRow
  <2>2. QED
    BY <2>1
<1>6. ASSUME NEW row \in Rows(b), row.at < to PROVE row \in rows
  <2>1. PICK e \in Ends(b) : IsRow(b, row.at, e) /\ row = RowOf(b, row.at, e)
    BY RowsAre
  <2>2. row.at \in Nat /\ e \in Nat /\ row.at < e /\ \A x \in Ends(b) : x <= row.at \/ e <= x
    BY <2>1, RowBounds DEF IsRow
  <2>3. to \in Ends(b)
    BY <1>3, <1>4, <1>6, <2>2 DEF Starts
  <2>4. e <= eof
    BY <1>3, <1>6, <2>2, <2>3
  <2>5. IsRow(c, row.at, e) /\ row = RowOf(c, row.at, e)
    BY <1>1, <2>1, <2>4
  <2>6. RowOf(c, row.at, e) \in Rows(c)
    BY <1>1, <2>5, RowsAre
  <2>7. QED
    BY <2>5, <2>6
<1>7. IsFiniteSet(rows) /\ \A q, r \in rows : q.at = r.at => q = r
  BY <1>1, RowsFinite, RowsAre
<1> HIDE DEF rows
<1>8. ASSUME NEW row \in rows PROVE IsFiniteSet(Up(row)) /\ Cardinality(Up(row)) \in Nat
  <2>1. Up(row) \subseteq rows
    OBVIOUS
  <2> HIDE DEF Up
  <2>2. QED
    BY <1>7, <2>1, FS_Subset, FS_CardinalityType
<1>9. ASSUME NEW row \in kept, NEW r \in rows, r.at >= row.at PROVE r \in kept
  <2>1. Up(r) \subseteq Up(row)
    <3>1. ASSUME NEW q \in rows, q.at >= r.at PROVE q.at >= row.at
      <4>1. q.at \in Nat /\ r.at \in Nat /\ row.at \in Nat
        BY <1>5
      <4>2. QED
        BY <1>9, <3>1, <4>1
    <3>2. QED
      BY <3>1
  <2>2. Cardinality(Up(row)) <= limit /\ row \in rows
    OBVIOUS
  <2>3. Cardinality(Up(r)) <= Cardinality(Up(row)) /\ Cardinality(Up(r)) \in Nat /\ Cardinality(Up(row)) \in Nat
    <3> HIDE DEF Up
    <3>1. QED
      BY <1>8, <2>1, <2>2, FS_Subset
  <2>4. Cardinality(Up(r)) <= limit
    <3> HIDE DEF Up
    <3>1. QED
      BY <2>2, <2>3
  <2>5. QED
    BY <2>4
<1>10. ASSUME rows # {} PROVE kept # {}
  <2> DEFINE A == {row.at : row \in rows}
  <2>1. A \in SUBSET Nat /\ A # {} /\ \A a \in A : a <= to
    BY <1>3, <1>5, <1>10
  <2>2. Max(A) \in A /\ \A a \in A : a <= Max(A)
    <3> HIDE DEF A
    <3>1. QED
      BY <1>3, <2>1, GreatestIs
  <2>3. PICK m \in rows : m.at = Max(A)
    BY <2>2
  <2>4. \A r \in rows : r.at <= m.at
    BY <2>2, <2>3
  <2>5. Up(m) = {m}
    <3>1. m.at \in Nat /\ \A r \in rows : r.at \in Nat
      BY <1>5
    <3>2. \A r \in rows : r.at >= m.at => r = m
      BY <1>7, <2>4, <3>1
    <3>3. QED
      BY <3>1, <3>2
  <2>6. Cardinality(Up(m)) = 1
    <3> HIDE DEF Up
    <3>1. QED
      BY <2>5, FS_Singleton
  <2>7. QED
    BY <2>6
<1> HIDE DEF kept
<1>11. CASE kept = {}
  <2>1. rows = {}
    BY <1>10, <1>11
  <2>2. to = 0
    <3>1. CASE to # 0
      <4>1. to \in Ends(b) /\ 0 < to /\ 0 \in Starts(b)
        BY <1>3, <1>4, <3>1 DEF Starts
      <4>2. PICK e \in Ends(b) : IsRow(b, 0, e) /\ e <= to
        BY <4>1, NextRow
      <4>3. RowOf(b, 0, e) \in Rows(b) /\ RowOf(b, 0, e).at = 0
        BY <4>2, RowsAre, RowBounds
      <4>4. QED
        BY <1>6, <2>1, <4>1, <4>3
    <3>2. QED
      BY <3>1
  <2>3. W.from = 0 /\ W.to = 0
    BY <1>2, <1>11, <2>2
  <2>4. \A row \in Rows(b) : ~ (row.at < W.to)
    BY <1>6, <2>1, <2>2, <2>3
  <2>5. IsFiniteSet({}) /\ 0 \in Starts(b)
    BY FS_EmptySet DEF Starts
  <2>6. W.truncatedBefore \in BOOLEAN /\ (W.truncatedBefore <=> W.from > 0)
    BY <1>2, <2>3, TruthOf
  <2>7. W.rows = {} /\ W.carrySeed = CarrySeed(b, W.to, eof)
    BY <1>2, <1>11
  <2>8. W.to \in Starts(b) /\ W.to <= eof /\ NoEndIn(b, W.to, eof)
    BY <1>2, <1>3, <1>4
  <2>9. QED
    BY <2>3, <2>4, <2>5, <2>6, <2>7, <2>8
<1>12. CASE kept # {}
  <2> DEFINE A == {row.at : row \in kept}
  <2>0. kept \subseteq rows
    BY DEF kept
  <2>1. A \in SUBSET Nat /\ A # {}
    BY <1>5, <1>12, <2>0
  <2>2. Min(A) \in A /\ \A a \in A : Min(A) <= a
    <3> HIDE DEF A
    <3>1. QED
      BY <2>1, LeastIs
  <2>3. W.from = Min(A)
    BY <1>2, <1>12
  <2>4. PICK m \in kept : m.at = W.from
    BY <2>2, <2>3
  <2>5. \A row \in kept : W.from <= row.at
    BY <2>2, <2>3
  <2>6. W.from \in Starts(b) /\ W.from \in Nat /\ W.from < to
    BY <1>5, <2>0, <2>4
  <2>7. ASSUME NEW row \in Rows(b), W.from <= row.at, row.at < W.to PROVE row \in kept
    <3>1. row \in rows
      BY <1>2, <1>6, <2>7
    <3>2. row.at >= m.at
      BY <1>5, <2>4, <2>6, <2>7, <3>1
    <3>3. QED
      BY <1>9, <3>1, <3>2
  <2>8. IsFiniteSet(kept)
    BY <1>7, <2>0, FS_Subset
  <2>9. \A row \in kept : row.at < to
    BY <1>5, <2>0
  <2>10. W.truncatedBefore \in BOOLEAN /\ (W.truncatedBefore <=> W.from > 0)
    BY <1>2, <2>6, TruthOf
  <2>11. /\ W.to \in Starts(b) /\ W.to \in Nat /\ W.to <= eof /\ NoEndIn(b, W.to, eof)
         /\ W.from <= W.to /\ W.rows # {} /\ W.carrySeed = CarrySeed(b, W.to, eof)
    BY <1>2, <1>3, <1>4, <1>12, <2>6
  <2>12. /\ IsFiniteSet(W.rows) /\ W.rows \subseteq Rows(b)
         /\ \A row \in W.rows : W.from <= row.at /\ row.at < W.to
         /\ \A row \in Rows(b) : W.from <= row.at /\ row.at < W.to => row \in W.rows
    BY <1>2, <1>5, <2>0, <2>5, <2>7, <2>8, <2>9
  <2>13. QED
    BY <2>6, <2>10, <2>11, <2>12
<1>13. QED
  BY <1>11, <1>12

-----------------------------------------------------------------------------
(* Nodes                                                                   *)

\* The node of a row of the file says what is so.
LEMMA RowNode ==
  ASSUME NEW b \in Seq(Byte), NEW row \in Rows(b), NEW ino \in Nat,
         NEW n, n = Node(row.at, RowKind(row.text), ino)
  PROVE  /\ n \in AnyNode /\ n.at = row.at /\ n.ino = ino /\ Valid(b, n)
         /\ n.k = "call" => n.at \in CallAts(b)
         /\ row.at \in ShownAts(b) => n.k \in {"text", "call"}
<1>1. PICK e \in Ends(b) : IsRow(b, row.at, e) /\ row = RowOf(b, row.at, e)
  BY RowsAre
<1>2. /\ row.at \in Nat /\ e \in Nat /\ row.at < e /\ e <= Confirmed(b)
      /\ row.text \in Seq(Byte) /\ Len(row.text) = e - 1 - row.at
  BY <1>1, RowBounds
<1>3. n.at = row.at /\ n.k = RowKind(row.text) /\ n.ino = ino /\ n = [at |-> row.at, k |-> RowKind(row.text), ino |-> ino]
  BY DEF Node
<1>4. ParsedKind(row.text) \in {"text", "call", "result", "unreadable"}
  BY ParsedKindIs
<1>5. RowKind(row.text) \in {"text", "call", "result", "unreadable", "oversized"}
  BY <1>4 DEF RowKind
<1>6. n \in AnyNode
  BY <1>2, <1>3, <1>5 DEF AnyNode, Kinds
<1>7. Clean(b, n.at) /\ n.at < Confirmed(b)
  <2>1. row.at \in Starts(b) /\ Confirmed(b) \in Nat
    BY <1>1, ConfirmedIs DEF IsRow
  <2>2. QED
    BY <1>2, <1>3, <2>1, StartIsClean
<1>8. ASSUME row.at \in ShownAts(b)
      PROVE  Len(row.text) <= RowCap /\ ParsedKind(row.text) \in {"text", "call"}
  <2>1. PICK r \in Rows(b) : r.at = row.at /\ Len(r.text) <= RowCap /\ ParsedKind(r.text) \in {"text", "call"}
    BY <1>8 DEF ShownAts
  <2>2. r = row
    BY <2>1, RowsAre
  <2>3. QED
    BY <2>1, <2>2
<1>9. row.at \in ShownAts(b) => n.k \in {"text", "call"}
  <2>1. SUFFICES ASSUME row.at \in ShownAts(b) PROVE n.k \in {"text", "call"}
    OBVIOUS
  <2>2. ~ (Len(row.text) > RowCap)
    BY <1>2, <1>8, <2>1, RowCapAssumption
  <2>3. QED
    BY <1>3, <1>8, <2>1, <2>2 DEF RowKind
<1>10. n.k \notin {"oversized", "unreadable"} => n.k = ParsedKind(row.text)
  BY <1>3 DEF RowKind
<1>11. Valid(b, n)
  BY <1>3, <1>7, <1>9, <1>10 DEF Valid
<1>12. n.k = "call" => n.at \in CallAts(b)
  BY <1>3, <1>10 DEF CallAts
<1>13. QED
  BY <1>3, <1>6, <1>9, <1>11, <1>12

\* A result completes calls that are known and disappears, nothing else does.
LEMMA PairIs ==
  ASSUME NEW C, NEW P, NEW R, R = Pair(C, P)
  PROVE  /\ R.nodes \subseteq C /\ \A n \in C : n.k # "result" => n \in R.nodes
         /\ \A s \in R.patches : \E c \in C \cup P : c.k = "call" /\ c.at = s
         /\ \A c \in R.pending : c \in P \/ (c \in C /\ c.k = "call")
         /\ P = {} /\ C # {} => R.nodes # {}
<1> DEFINE known(r)  == {c \in P \cup C : c.k = "call" /\ c.ino = r.ino /\ c.at < r.at}
           results   == {r \in C : r.k = "result" /\ known(r) # {}}
           completed == UNION {known(r) : r \in results}
<1>1. /\ R.nodes = C \ results /\ R.patches = Ats(completed)
      /\ R.pending = (P \cup {c \in C : c.k = "call"}) \ completed
  BY Zenon DEF Pair
<1>2. \A c \in completed : c \in C \cup P /\ c.k = "call"
  OBVIOUS
<1>3. \A r \in results : r.k = "result" /\ r \in C /\ \E c \in P \cup C : c.k = "call"
  OBVIOUS
<1> HIDE DEF results, completed
<1>4. R.nodes \subseteq C /\ \A n \in C : n.k # "result" => n \in R.nodes
  BY <1>1, <1>3
<1>5. \A s \in R.patches : \E c \in C \cup P : c.k = "call" /\ c.at = s
  BY <1>1, <1>2 DEF Ats
<1>6. \A c \in R.pending : c \in P \/ (c \in C /\ c.k = "call")
  BY <1>1
<1>7. ASSUME P = {}, C # {} PROVE R.nodes # {}
  BY <1>1, <1>3, <1>4, <1>7
<1>8. QED
  BY <1>4, <1>5, <1>6, <1>7

\* A call that is completed has its result taken from the rows; a result that stays has
\* no call before it, and a call that is not completed is remembered.
LEMMA PairTells ==
  ASSUME NEW C, NEW P, NEW R, R = Pair(C, P)
  PROVE  /\ R.patches # {} => \E r \in C : r.k = "result" /\ r \notin R.nodes
         /\ \A r \in R.nodes : r.k = "result" => \A c \in C : ~(c.k = "call" /\ c.ino = r.ino /\ c.at < r.at)
         /\ \A c \in C : c.k = "call" => c \in R.pending \/ c.at \in R.patches
<1> DEFINE known(r)  == {c \in P \cup C : c.k = "call" /\ c.ino = r.ino /\ c.at < r.at}
           results   == {r \in C : r.k = "result" /\ known(r) # {}}
           completed == UNION {known(r) : r \in results}
<1>1. /\ R.nodes = C \ results /\ R.patches = Ats(completed)
      /\ R.pending = (P \cup {c \in C : c.k = "call"}) \ completed
  BY Zenon DEF Pair
<1>2. ASSUME R.patches # {} PROVE \E r \in C : r.k = "result" /\ r \notin R.nodes
  <2>1. completed # {}
    BY <1>1, <1>2 DEF Ats
  <2>2. PICK r \in results : TRUE
    BY <2>1
  <2>3. r \in C /\ r.k = "result" /\ r \in results
    BY <2>2
  <2> HIDE DEF results, completed
  <2>4. QED
    BY <1>1, <2>3
<1>3. ASSUME NEW r \in R.nodes, r.k = "result", NEW c \in C, c.k = "call", c.ino = r.ino, c.at < r.at
      PROVE  FALSE
  <2>1. c \in known(r)
    BY <1>3
  <2>2. r \in C /\ r \notin results
    BY <1>1
  <2> HIDE DEF known
  <2>3. QED
    BY <1>3, <2>1, <2>2
<1>4. ASSUME NEW c \in C, c.k = "call" PROVE c \in R.pending \/ c.at \in R.patches
  <2> HIDE DEF completed
  <2>1. QED
    BY <1>1, <1>4 DEF Ats
<1>5. QED
  BY <1>2, <1>3, <1>4

\* A patch that names calls leaves what a node says so.
LEMMA CompleteIs ==
  ASSUME NEW b \in Seq(Byte), NEW n \in AnyNode, NEW P, NEW m, m = Complete(n, P)
  PROVE  /\ m \in AnyNode /\ m.at = n.at /\ m.ino = n.ino
         /\ P \subseteq CallAts(b) /\ Valid(b, n) => Valid(b, m)
         /\ \A a : FitsFrom(b, n, a) => FitsFrom(b, m, a)
<1>1. m = n \/ (m = [n EXCEPT !.k = "done"] /\ n.at \in P)
  BY DEF Complete
<1>2. n = [at |-> n.at, k |-> n.k, ino |-> n.ino] /\ n.at \in Nat /\ n.ino \in Nat
  BY DEF AnyNode
<1>3. CASE m = n
  BY <1>3
<1>4. CASE m = [n EXCEPT !.k = "done"] /\ n.at \in P
  <2>1. m = [at |-> n.at, k |-> "done", ino |-> n.ino]
    BY <1>2, <1>4
  <2>2. m \in AnyNode /\ m.at = n.at /\ m.ino = n.ino /\ m.k = "done"
    BY <1>2, <2>1 DEF AnyNode, Kinds
  <2>3. ASSUME P \subseteq CallAts(b), Valid(b, n) PROVE Valid(b, m)
    <3>1. PICK row \in Rows(b) : row.at = n.at /\ ParsedKind(row.text) = "call"
      BY <1>4, <2>3 DEF CallAts
    <3>2. n.at < Confirmed(b) /\ Clean(b, n.at)
      BY <2>3 DEF Valid
    <3>3. QED
      BY <2>2, <3>1, <3>2 DEF Valid
  <2>4. QED
    BY <2>2, <2>3 DEF FitsFrom
<1>5. QED
  BY <1>1, <1>3, <1>4

\* Patching calls in some nodes leaves them the nodes of the same rows.
LEMMA CompletedKeeps ==
  ASSUME NEW b \in Seq(Byte), NEW from, NEW to, NEW ino, NEW N, NodesOf(b, from, to, ino, N),
         NEW P, P \subseteq CallAts(b)
  PROVE  NodesOf(b, from, to, ino, Completed(N, P))
<1> DEFINE M == Completed(N, P)
           f == [n \in N |-> Complete(n, P)]
<1>1. IsFiniteSet(N) /\ N \subseteq AnyNode
  BY DEF NodesOf
<1>2. M = {Complete(n, P) : n \in N}
  BY DEF Completed
<1>3. IsFiniteSet(M)
  <2>1. f \in [N -> M] /\ M = {f[x] : x \in N}
    BY <1>2
  <2> HIDE DEF f, M
  <2>2. QED
    BY <1>1, <2>1, FiniteImage
<1>4. \A n \in N : LET m == Complete(n, P) IN
         m \in AnyNode /\ m.at = n.at /\ m.ino = n.ino /\ Valid(b, m)
  BY <1>1, CompleteIs DEF NodesOf
<1>5. \A m \in M : \E n \in N : m = Complete(n, P)
  BY <1>2
<1>6. \A n \in N : Complete(n, P) \in M
  BY <1>2
<1> HIDE DEF M
<1>7. M \subseteq AnyNode /\ \A m \in M : m.ino = ino /\ from <= m.at /\ m.at < to /\ Valid(b, m)
  BY <1>4, <1>5 DEF NodesOf
<1>8. \A n, m \in M : n.at = m.at => n = m
  BY <1>4, <1>5 DEF NodesOf
<1>9. \A s \in ShownAts(b) : from <= s /\ s < to => s \in Ats(M)
  BY <1>4, <1>6 DEF NodesOf, Ats
<1>10. NodesOf(b, from, to, ino, M)
  BY <1>3, <1>7, <1>8, <1>9 DEF NodesOf
<1>11. QED
  BY <1>10 DEF M

\* What a window is made into: each row once, a result in its call.
LEMMA WindowNodes ==
  ASSUME NEW b \in Seq(Byte), NEW eof \in Nat, eof <= Len(b), NEW limit \in Nat \ {0}, NEW ino \in Nat,
         NEW W, W = FindWindow(b, eof, limit), NEW R, R = Pair(WindowCandidates(W, ino), {})
  PROVE  /\ NodesOf(b, W.from, W.to, ino, R.nodes)
         /\ NodesOf(b, W.from, W.to, ino, Completed(R.nodes, R.patches))
         /\ R.patches \subseteq CallAts(b) /\ Ats(R.pending) \subseteq CallAts(b)
         /\ R.pending \subseteq AnyNode /\ \A c \in R.pending : c.k = "call"
         /\ W.rows = {} => R.nodes = {}
         /\ W.rows # {} => R.nodes # {}
<1> DEFINE C == WindowCandidates(W, ino)
           f == [r \in W.rows |-> Node(r.at, RowKind(r.text), ino)]
<1>1. /\ IsFiniteSet(W.rows) /\ W.rows \subseteq Rows(b)
      /\ \A row \in W.rows : W.from <= row.at /\ row.at < W.to
      /\ \A row \in Rows(b) : W.from <= row.at /\ row.at < W.to => row \in W.rows
  BY WindowIs
<1>2. C = {Node(r.at, RowKind(r.text), ino) : r \in W.rows}
  BY DEF WindowCandidates
<1>3. IsFiniteSet(C)
  <2>1. f \in [W.rows -> C] /\ C = {f[x] : x \in W.rows}
    BY <1>2
  <2> HIDE DEF f, C
  <2>2. QED
    BY <1>1, <2>1, FiniteImage
<1>4. \A r \in W.rows : LET n == Node(r.at, RowKind(r.text), ino) IN
         /\ n \in AnyNode /\ n.at = r.at /\ n.ino = ino /\ Valid(b, n)
         /\ n.k = "call" => n.at \in CallAts(b)
         /\ r.at \in ShownAts(b) => n.k \in {"text", "call"}
  BY <1>1, RowNode
<1>5. \A n \in C : \E r \in W.rows : n = Node(r.at, RowKind(r.text), ino)
  BY <1>2
<1>6. \A r \in W.rows : Node(r.at, RowKind(r.text), ino) \in C
  BY <1>2
<1> HIDE DEF C
<1>7. /\ R.nodes \subseteq C /\ \A n \in C : n.k # "result" => n \in R.nodes
      /\ \A s \in R.patches : \E c \in C \cup {} : c.k = "call" /\ c.at = s
      /\ \A c \in R.pending : c \in {} \/ (c \in C /\ c.k = "call")
      /\ {} = {} /\ C # {} => R.nodes # {}
  BY PairIs DEF C
<1>8. C \subseteq AnyNode /\ \A n \in C : n.ino = ino /\ W.from <= n.at /\ n.at < W.to /\ Valid(b, n)
  BY <1>1, <1>4, <1>5
<1>9. \A n, m \in C : n.at = m.at => n = m
  BY <1>1, <1>4, <1>5, RowsAre
<1>10. ASSUME NEW s \in ShownAts(b), W.from <= s, s < W.to PROVE s \in Ats(R.nodes)
  <2>1. PICK r \in Rows(b) : r.at = s
    BY DEF ShownAts
  <2>2. r \in W.rows
    BY <1>1, <1>10, <2>1
  <2>3. PICK n \in C : n = Node(r.at, RowKind(r.text), ino)
    BY <1>6, <2>2
  <2>4. n.at = s /\ n.k \in {"text", "call"}
    BY <1>4, <2>1, <2>2, <2>3
  <2>5. QED
    BY <1>7, <2>4 DEF Ats
<1>11. NodesOf(b, W.from, W.to, ino, R.nodes)
  <2>1. IsFiniteSet(R.nodes)
    BY <1>3, <1>7, FS_Subset
  <2>2. QED
    BY <1>7, <1>8, <1>9, <1>10, <2>1 DEF NodesOf
<1>12. R.patches \subseteq CallAts(b)
  BY <1>4, <1>5, <1>7
<1>13. NodesOf(b, W.from, W.to, ino, Completed(R.nodes, R.patches))
  BY <1>11, <1>12, CompletedKeeps
<1>14. Ats(R.pending) \subseteq CallAts(b)
  BY <1>4, <1>5, <1>7 DEF Ats
<1>15. R.pending \subseteq AnyNode /\ \A c \in R.pending : c.k = "call"
  BY <1>7, <1>8
<1>16. W.rows = {} => R.nodes = {}
  BY <1>5, <1>7
<1>17. W.rows # {} => R.nodes # {}
  BY <1>6, <1>7
<1>18. QED
  BY <1>11, <1>12, <1>13, <1>14, <1>15, <1>16, <1>17

\* The rows S of a window up to `to' tell of the result in one form, and where they do
\* not, its call has no node that could be completed.
WindowTells(b, to, S) ==
  /\ OneForm(S)
  /\ Telling(S) # {} => \E r \in ResultAts(b) : r < to
  /\ (\E m \in S : m.k = "result") => \A n \in S : n.at \in CallAts(b) => n.k = "oversized"

\* A call in S that waits for its result.
Waits(b, S) == \E n \in S : n.at \in CallAts(b) /\ n.k \notin {"oversized", "done"}

\* A window pairs the result with its call, where it holds both.
LEMMA WindowTellsIs ==
  ASSUME NEW b, IsTranscript(b), NEW eof \in Nat, eof <= Len(b), NEW limit \in Nat \ {0}, NEW ino \in Nat,
         NEW W, W = FindWindow(b, eof, limit), NEW R, R = Pair(WindowCandidates(W, ino), {}),
         NEW N, N = Completed(R.nodes, R.patches)
  PROVE  WindowTells(b, W.to, N) /\ (Waits(b, N) => R.pending # {})
<1> DEFINE C == WindowCandidates(W, ino)
<1>0. b \in Seq(Byte)
  BY DEF IsTranscript
<1>1. W.rows \subseteq Rows(b) /\ \A row \in W.rows : row.at < W.to
  BY <1>0, WindowIs
<1>2. C = {Node(r.at, RowKind(r.text), ino) : r \in W.rows}
  BY DEF WindowCandidates
<1>3. /\ R.nodes \subseteq C
      /\ R.patches # {} => \E r \in C : r.k = "result" /\ r \notin R.nodes
      /\ \A r \in R.nodes : r.k = "result" => \A c \in C : ~(c.k = "call" /\ c.ino = r.ino /\ c.at < r.at)
      /\ \A c \in C : c.k = "call" => c \in R.pending \/ c.at \in R.patches
  <2>1. /\ R.nodes \subseteq C /\ \A n \in C : n.k # "result" => n \in R.nodes
        /\ \A s \in R.patches : \E c \in C \cup {} : c.k = "call" /\ c.at = s
        /\ \A c \in R.pending : c \in {} \/ (c \in C /\ c.k = "call")
        /\ {} = {} /\ C # {} => R.nodes # {}
    BY PairIs
  <2>2. QED
    BY <2>1, PairTells
<1>4. /\ \A c \in CallAts(b), r \in ResultAts(b) : c \in Nat /\ c < r
      /\ \A q, r \in ResultAts(b) : q = r
      /\ ResultAts(b) \subseteq Nat
  BY ResultAtsAre
<1>5. ASSUME NEW n \in C
      PROVE  /\ n.ino = ino /\ n.at < W.to /\ n.k # "done"
             /\ n.k = "result" => n.at \in ResultAts(b)
             /\ n.at \in CallAts(b) => n.k \in {"call", "oversized"}
             /\ \E row \in Rows(b) : n = Node(row.at, RowKind(row.text), ino)
  <2>1. PICK row \in W.rows : n = Node(row.at, RowKind(row.text), ino)
    BY <1>2
  <2>2. n.at = row.at /\ n.k = RowKind(row.text) /\ n.ino = ino /\ row \in Rows(b) /\ row.at < W.to
    BY <1>1, <2>1 DEF Node
  <2>3. n.k = "oversized" \/ n.k = ParsedKind(row.text)
    BY <2>2 DEF RowKind
  <2>4. ParsedKind(row.text) \in {"text", "call", "result", "unreadable"}
    BY ParsedKindIs
  <2>5. n.at \in CallAts(b) => ParsedKind(row.text) = "call"
    BY <1>0, <2>2, RowsAre DEF CallAts
  <2>6. n.k = "result" => n.at \in ResultAts(b)
    BY <2>2, <2>3, <2>4 DEF ResultAts
  <2>7. QED
    BY <2>1, <2>2, <2>3, <2>4, <2>5, <2>6
<1>6. \A n, m \in C : n.at = m.at => n = m
  <2>1. SUFFICES ASSUME NEW n \in C, NEW m \in C, n.at = m.at PROVE n = m
    OBVIOUS
  <2>2. PICK q \in Rows(b) : n = Node(q.at, RowKind(q.text), ino)
    BY <1>5
  <2>3. PICK r \in Rows(b) : m = Node(r.at, RowKind(r.text), ino)
    BY <1>5
  <2>4. q.at = r.at
    BY <2>1, <2>2, <2>3 DEF Node
  <2>5. QED
    BY <1>0, <2>2, <2>3, <2>4, RowsAre
<1> HIDE DEF C
<1>7. ASSUME NEW n \in N
      PROVE  \E q \in R.nodes : /\ q \in C /\ n.at = q.at
                                /\ (n = q /\ n.at \notin R.patches) \/ (n.k = "done" /\ R.patches # {})
  <2>1. PICK q \in R.nodes : n = Complete(q, R.patches)
    BY DEF Completed
  <2>2. q \in C
    BY <1>3
  <2>3. CASE q.at \in R.patches
    <3>1. PICK row \in Rows(b) : q = Node(row.at, RowKind(row.text), ino)
      BY <1>5, <2>2
    <3>2. n = [q EXCEPT !.k = "done"]
      BY <2>1, <2>3 DEF Complete
    <3>3. n.k = "done" /\ n.at = q.at
      BY <3>1, <3>2 DEF Node
    <3>4. QED
      BY <2>2, <2>3, <3>3
  <2>4. CASE q.at \notin R.patches
    BY <2>1, <2>2, <2>4 DEF Complete
  <2>5. QED
    BY <2>3, <2>4
<1>8. ASSUME R.patches # {}
      PROVE  /\ \A m \in N : m.k # "result"
             /\ \E r \in ResultAts(b) : r < W.to
  <2>1. PICK r \in C : r.k = "result" /\ r \notin R.nodes
    BY <1>3, <1>8
  <2>2. r.at \in ResultAts(b) /\ r.at < W.to
    BY <1>5, <2>1
  <2>3. ASSUME NEW m \in N, m.k = "result" PROVE FALSE
    <3>1. m \in R.nodes /\ m \in C
      BY <1>7, <2>3
    <3>2. m.at = r.at
      BY <1>4, <1>5, <2>2, <2>3, <3>1
    <3>3. m = r
      BY <1>6, <3>1, <3>2
    <3>4. QED
      BY <2>1, <3>1, <3>3
  <2>4. QED
    BY <2>2, <2>3
<1>9. ASSUME NEW n \in N, n.k = "done" PROVE R.patches # {}
  BY <1>5, <1>7, <1>9
<1>10. OneForm(N)
  BY <1>8, <1>9 DEF OneForm
<1>11. ASSUME NEW n \in N, n.k \in {"result", "done"} PROVE \E r \in ResultAts(b) : r < W.to
  <2>1. CASE n.k = "done"
    BY <1>8, <1>9, <2>1
  <2>2. CASE n.k = "result"
    BY <1>5, <1>7, <2>2
  <2>3. QED
    BY <1>11, <2>1, <2>2
<1>12. ASSUME NEW m \in N, m.k = "result", NEW n \in N, n.at \in CallAts(b) PROVE n.k = "oversized"
  <2>1. m \in R.nodes /\ m \in C /\ R.patches = {}
    BY <1>7, <1>8, <1>12
  <2>2. n \in R.nodes /\ n \in C
    BY <1>7, <2>1
  <2>3. m.at \in ResultAts(b) /\ n.ino = m.ino /\ n.k \in {"call", "oversized"}
    BY <1>5, <1>12, <2>1, <2>2
  <2>4. n.at < m.at
    BY <1>4, <1>12, <2>3
  <2>5. n.k # "call"
    BY <1>3, <1>12, <2>1, <2>2, <2>3, <2>4
  <2>6. QED
    BY <2>3, <2>5
<1>13. ASSUME Waits(b, N) PROVE R.pending # {}
  <2>1. PICK n \in N : n.at \in CallAts(b) /\ n.k \notin {"oversized", "done"}
    BY <1>13 DEF Waits
  <2>2. n \in C /\ n.at \notin R.patches
    BY <1>7, <2>1
  <2>3. n.k = "call"
    BY <1>5, <2>1, <2>2
  <2>4. QED
    BY <1>3, <2>2, <2>3
<1>14. WindowTells(b, W.to, N)
  BY <1>10, <1>11, <1>12 DEF WindowTells, Telling
<1>15. QED
  BY <1>13, <1>14

\* The places InFileOrder sorts by are in the order of the bytes.
LEMMA PlaceIs ==
  ASSUME NEW n \in AnyNode, NEW m \in AnyNode
  PROVE  /\ Place(n) \in Nat /\ Place(m) \in Nat
         /\ Place(n) < Place(m) => n.at <= m.at
         /\ Place(n) = Place(m) => n.at = m.at /\ (n.k = "oversized" <=> m.k = "oversized")
<1>1. n.at \in Nat /\ m.at \in Nat
  BY DEF AnyNode
<1>2. /\ (Place(n) = 2 * n.at /\ n.k = "oversized") \/ (Place(n) = 2 * n.at + 1 /\ n.k # "oversized")
      /\ (Place(m) = 2 * m.at /\ m.k = "oversized") \/ (Place(m) = 2 * m.at + 1 /\ m.k # "oversized")
  BY <1>1 DEF Place
<1>3. Place(n) \in Nat /\ Place(m) \in Nat /\ (Place(n) < Place(m) => n.at <= m.at)
  BY <1>1, <1>2
<1>4. Place(n) = Place(m) => n.at = m.at
  BY <1>1, <1>2
<1>5. Place(n) = Place(m) => (n.k = "oversized" <=> m.k = "oversized")
  BY <1>1, <1>2
<1>6. QED
  BY <1>3, <1>4, <1>5

\* Nodes in file order.
LEMMA Ordered ==
  ASSUME NEW N, IsFiniteSet(N), N \subseteq AnyNode,
         \A n, m \in N : n.at = m.at /\ (n.k = "oversized" <=> m.k = "oversized") => n = m,
         NEW s, s = InFileOrder(N)
  PROVE  /\ s \in Seq(AnyNode) /\ s \in Seq(N) /\ ToSet(s) = N
         /\ \A i, k \in DOMAIN s : i < k => s[i].at <= s[k].at
         /\ s = <<>> <=> N = {}
         /\ (\A n, m \in N : n.at = m.at => n = m) => Ascends(s)
         /\ Distinct(s)
<1>1. /\ \A n \in N : Place(n) \in Nat
      /\ \A n, m \in N : Place(n) = Place(m) => n = m
  BY PlaceIs
<1>2. /\ s \in Seq(N) /\ ToSet(s) = N /\ Len(s) = Cardinality(N)
      /\ \A i, k \in DOMAIN s : i < k => Place(s[i]) < Place(s[k])
  BY <1>1, InFileOrderIs
<1>3. \A i \in DOMAIN s : s[i] \in N /\ s[i] \in AnyNode
  BY <1>2
<1>4. s \in Seq(AnyNode)
  <2>1. \A i \in 1 .. Len(s) : s[i] \in AnyNode
    BY <1>2, <1>3
  <2>2. QED
    BY <1>2, <2>1
<1>5. \A i, k \in DOMAIN s : i < k => s[i].at <= s[k].at
  BY <1>2, <1>3, PlaceIs
<1>6. s = <<>> <=> N = {}
  <2>1. s = <<>> => ToSet(s) = {}
    BY DEF ToSet
  <2>2. N = {} => s = <<>>
    <3>1. N = {} => Len(s) = 0
      BY <1>2, FS_EmptySet
    <3>2. QED
      BY <1>2, <3>1
  <2>3. QED
    BY <1>2, <2>1, <2>2
<1>7. ASSUME \A n, m \in N : n.at = m.at => n = m PROVE Ascends(s)
  <2>1. SUFFICES ASSUME NEW i \in DOMAIN s, NEW k \in DOMAIN s, i < k PROVE s[i].at < s[k].at
    BY DEF Ascends
  <2>2. s[i].at <= s[k].at /\ s[i] # s[k]
    <3>1. Place(s[i]) \in Nat /\ Place(s[i]) < Place(s[k])
      BY <1>1, <1>2, <1>3, <2>1
    <3>2. QED
      BY <1>5, <2>1, <3>1
  <2>3. s[i].at # s[k].at /\ s[i].at \in Nat /\ s[k].at \in Nat
    BY <1>3, <1>7, <2>1, <2>2 DEF AnyNode
  <2>4. QED
    BY <2>2, <2>3
<1>8. Distinct(s)
  <2>1. SUFFICES ASSUME NEW i \in DOMAIN s, NEW k \in DOMAIN s, i < k PROVE s[i] # s[k]
    BY DEF Distinct
  <2>2. Place(s[i]) \in Nat /\ Place(s[i]) < Place(s[k])
    BY <1>1, <1>2, <1>3, <2>1
  <2>3. QED
    BY <2>2
<1>9. QED
  BY <1>2, <1>4, <1>5, <1>6, <1>7, <1>8

\* No row that is shown is cut in two at a clean place.
LEMMA CleanCut ==
  ASSUME NEW b \in Seq(Byte), NEW a, Clean(b, a), NEW s \in ShownAts(b)
  PROVE  /\ s < a => \E e \in Ends(b) : IsRow(b, s, e) /\ s < e /\ e <= a
         /\ \A x \in Nat : NoEndIn(b, x, a) /\ s < a => s < x
<1>1. PICK e : /\ IsRow(b, s, e) /\ e - 1 - s <= RowCap
               /\ ParsedKind(RowOf(b, s, e).text) \in {"text", "call"}
  BY ShownAre
<1>2. /\ s \in Nat /\ e \in Nat /\ s < e /\ e \in Ends(b) /\ s \in Starts(b)
      /\ \A x \in Ends(b) : x <= s \/ e <= x
  BY <1>1, RowBounds DEF IsRow
<1>3. a \in Nat /\ RowCap \in Nat /\ \A x \in Ends(b) : x \in Nat
  BY EndsAre, RowCapAssumption DEF Clean
<1>4. ASSUME s < a PROVE e <= a
  <2>1. CASE \E x \in Ends(b) : s < x /\ x <= a
    BY <1>2, <1>3, <2>1
  <2>2. CASE \A x \in Ends(b) : x <= s \/ s + RowCap + 1 < x
    BY <1>1, <1>2, <1>3, <2>2
  <2>3. QED
    BY <1>2, <1>4, <2>1, <2>2 DEF Clean
<1>5. ASSUME NEW x \in Nat, NoEndIn(b, x, a), s < a PROVE s < x
  BY <1>2, <1>3, <1>4, <1>5 DEF NoEndIn
<1>6. QED
  BY <1>1, <1>2, <1>4, <1>5

\* The ids a window holds are the places of its nodes.
LEMMA HeldIs ==
  ASSUME NEW s
  PROVE  Held(s) = Ats(ToSet(s))
BY DEF Held, Ats

\* The answer to a request: the rows of the window before a place, and at most
\* one orphan from beyond the window to be removed.
LEMMA PageIs ==
  ASSUME IsTranscript(file.bytes), NEW b, b = file.bytes, NEW ino \in Nat, file.ino = ino,
         NEW before \in Nat, before <= Len(b), NEW wanted, NEW p, p = ApiRows(before, wanted)
  PROVE  /\ p \in Pages /\ Ascends(p.nodes) /\ NodesOf(b, p.from, p.to, ino, ToSet(p.nodes))
         /\ p.from \in Starts(b) /\ p.to \in Starts(b) /\ NoEndIn(b, p.to, before)
         /\ p.from <= p.to /\ p.to <= before
         /\ p.nodes = <<>> => p.from = 0 /\ p.to = 0 /\ ~p.truncatedBefore /\ p.removed = {}
         /\ \A q, r \in p.removed : q = r
         /\ \A s \in p.removed : p.to <= s /\ s \notin ShownAts(b) /\ s < Confirmed(b)
<1> DEFINE W == FindWindow(b, before, Limit)
           R == Pair(WindowCandidates(W, ino), {})
           nodes == Completed(R.nodes, R.patches)
           results == {row.at : row \in {r \in Rows(b) : r.at >= W.to /\ ParsedKind(r.text) = "result"}}
           orphans == IF R.pending # {} /\ ino \in wanted THEN results ELSE {}
           repaired == IF orphans = {} THEN nodes ELSE Completed(nodes, Ats(R.pending))
<1>1. p = [nodes |-> InFileOrder(repaired), removed |-> orphans,
           from |-> W.from, to |-> W.to, truncatedBefore |-> W.truncatedBefore]
  BY Zenon DEF ApiRows
<1>2. b \in Seq(Byte)
  BY DEF IsTranscript
<1>3. PICK w : w = W
  OBVIOUS
<1>4. PICK r : r = Pair(WindowCandidates(w, ino), {})
  OBVIOUS
<1>5. r = R
  BY <1>3, <1>4
<1> HIDE DEF W, R
<1>6. /\ w.to \in Starts(b) /\ w.to \in Nat /\ w.to <= before /\ NoEndIn(b, w.to, before)
      /\ w.from \in Starts(b) /\ w.from \in Nat /\ w.from <= w.to
      /\ w.truncatedBefore \in BOOLEAN /\ (w.truncatedBefore <=> w.from > 0)
      /\ w.rows = {} => w.from = 0 /\ w.to = 0
  <2>1. w = FindWindow(b, before, Limit)
    BY <1>3 DEF W
  <2>2. QED
    BY <1>2, <2>1, WindowIs, SizesAssumption
<1>7. /\ NodesOf(b, w.from, w.to, ino, Completed(r.nodes, r.patches))
      /\ Ats(r.pending) \subseteq CallAts(b)
      /\ \A c \in r.pending : c.k = "call"
      /\ w.rows = {} => r.nodes = {}
      /\ w.rows # {} => r.nodes # {}
  <2>1. w = FindWindow(b, before, Limit)
    BY <1>3 DEF W
  <2>2. QED
    BY <1>2, <1>4, <2>1, WindowNodes, SizesAssumption
<1>8. NodesOf(b, w.from, w.to, ino, repaired)
  <2>1. NodesOf(b, w.from, w.to, ino, nodes)
    BY <1>5, <1>7
  <2>2. Ats(R.pending) \subseteq CallAts(b)
    BY <1>5, <1>7
  <2> HIDE DEF nodes, orphans
  <2>3. NodesOf(b, w.from, w.to, ino, Completed(nodes, Ats(R.pending)))
    BY <1>2, <2>1, <2>2, CompletedKeeps
  <2>4. QED
    BY <2>1, <2>3
<1>9. repaired = {} => w.from = 0 /\ w.to = 0 /\ orphans = {}
  <2>1. repaired = {} => r.nodes = {}
    <3>1. \A N, P : Completed(N, P) = {} => N = {}
      BY DEF Completed
    <3>2. nodes = {} => r.nodes = {}
      BY <1>5, <3>1
    <3> HIDE DEF nodes, orphans
    <3>3. repaired = {} => nodes = {}
      BY <3>1
    <3>4. QED
      BY <3>2, <3>3
  <2>2. r.nodes = {} => w.from = 0 /\ w.to = 0
    BY <1>6, <1>7
  <2>3. ASSUME w.rows = {} PROVE r.pending = {}
    <3>1. WindowCandidates(w, ino) = {}
      BY <2>3 DEF WindowCandidates
    <3>2. \A c \in r.pending : c \in {} \/ (c \in WindowCandidates(w, ino) /\ c.k = "call")
      BY <1>4, PairIs
    <3>3. QED
      BY <3>1, <3>2
  <2>4. QED
    BY <1>5, <1>7, <2>1, <2>2, <2>3
<1>10. \A s \in results : W.to <= s /\ s \in Nat /\ s \notin ShownAts(b) /\ s < Confirmed(b)
  <2>1. SUFFICES ASSUME NEW row \in Rows(b), row.at >= W.to, ParsedKind(row.text) = "result"
        PROVE  W.to <= row.at /\ row.at \in Nat /\ row.at \notin ShownAts(b) /\ row.at < Confirmed(b)
    OBVIOUS
  <2>2. row.at \in Nat /\ row.at < Confirmed(b)
    <3>1. PICK e \in Ends(b) : IsRow(b, row.at, e)
      BY <1>2, <2>1, RowsAre
    <3>2. row.at \in Nat /\ e \in Nat /\ row.at < e /\ e <= Confirmed(b) /\ Confirmed(b) \in Nat
      BY <1>2, <3>1, RowBounds, ConfirmedIs
    <3>3. QED
      BY <3>2
  <2>3. ~ \E q \in Rows(b) : q.at = row.at /\ ParsedKind(q.text) \in {"text", "call"}
    BY <1>2, <2>1, RowsAre
  <2>4. QED
    BY <1>3, <1>6, <2>1, <2>2, <2>3 DEF ShownAts
<1>11. \A q, s \in results : q = s
  BY OneResult
<1>12. orphans \subseteq results
  OBVIOUS
<1> HIDE DEF repaired, orphans, results
<1>13. PICK seqn : seqn = InFileOrder(repaired)
  OBVIOUS
<1>14. /\ seqn \in Seq(AnyNode) /\ ToSet(seqn) = repaired /\ (seqn = <<>> <=> repaired = {})
       /\ Ascends(seqn)
  <2>1. /\ IsFiniteSet(repaired) /\ repaired \subseteq AnyNode
        /\ \A n, m \in repaired : n.at = m.at => n = m
    BY <1>8 DEF NodesOf
  <2>2. QED
    BY <1>13, <2>1, Ordered
<1>15. /\ p.nodes = seqn /\ p.removed = orphans /\ p.from = w.from /\ p.to = w.to
       /\ p.truncatedBefore = w.truncatedBefore
       /\ p = [nodes |-> seqn, removed |-> orphans, from |-> w.from, to |-> w.to,
               truncatedBefore |-> w.truncatedBefore]
  BY <1>1, <1>3, <1>13
<1>16. p \in Pages
  <2>1. orphans \in SUBSET Nat
    BY <1>10, <1>12
  <2>2. QED
    BY <1>6, <1>14, <1>15, <2>1 DEF Pages
<1>17. Ascends(p.nodes) /\ NodesOf(b, p.from, p.to, ino, ToSet(p.nodes))
  BY <1>8, <1>14, <1>15
<1>18. /\ p.from \in Starts(b) /\ p.to \in Starts(b) /\ NoEndIn(b, p.to, before)
       /\ p.from <= p.to /\ p.to <= before
  BY <1>6, <1>15
<1>19. p.nodes = <<>> => p.from = 0 /\ p.to = 0 /\ ~p.truncatedBefore /\ p.removed = {}
  BY <1>6, <1>9, <1>14, <1>15
<1>20. \A q, s \in p.removed : q = s
  BY <1>11, <1>12, <1>15
<1>21. \A s \in p.removed : p.to <= s /\ s \notin ShownAts(b) /\ s < Confirmed(b)
  BY <1>3, <1>10, <1>12, <1>15
<1>22. QED
  BY <1>16, <1>17, <1>18, <1>19, <1>20, <1>21

\* What is known of the answer to a request for the rows before a place.
PageOf(b, before, ino, p) ==
  /\ p \in Pages /\ Ascends(p.nodes) /\ NodesOf(b, p.from, p.to, ino, ToSet(p.nodes))
  /\ p.from \in Starts(b) /\ p.to \in Starts(b) /\ NoEndIn(b, p.to, before)
  /\ p.from <= p.to /\ p.to <= before
  /\ p.nodes = <<>> => p.from = 0 /\ p.to = 0 /\ ~p.truncatedBefore /\ p.removed = {}
  /\ \A q, r \in p.removed : q = r
  /\ \A s \in p.removed : p.to <= s /\ s \notin ShownAts(b) /\ s < Confirmed(b)

Asked(before, wanted, p) == p = ApiRows(before, wanted)

\* PageIs, in the words of the invariant.
LEMMA AnswerIs ==
  ASSUME IsTranscript(file.bytes), NEW b, b = file.bytes, NEW ino \in Nat, file.ino = ino,
         NEW before \in Nat, before <= Len(b), NEW wanted, NEW p, Asked(before, wanted, p)
  PROVE  PageOf(b, before, ino, p)
<1>1. p = ApiRows(before, wanted)
  BY DEF Asked
<1>2. /\ p \in Pages /\ Ascends(p.nodes) /\ NodesOf(b, p.from, p.to, ino, ToSet(p.nodes))
      /\ p.from \in Starts(b) /\ p.to \in Starts(b) /\ NoEndIn(b, p.to, before)
      /\ p.from <= p.to /\ p.to <= before
      /\ p.nodes = <<>> => p.from = 0 /\ p.to = 0 /\ ~p.truncatedBefore /\ p.removed = {}
      /\ \A q, r \in p.removed : q = r
      /\ \A s \in p.removed : p.to <= s /\ s \notin ShownAts(b) /\ s < Confirmed(b)
  BY <1>1, PageIs
<1>3. QED
  BY <1>2, Zenon DEF PageOf

\* A page that repairs no call is as a window is, and no call of it waits for a result
\* that is held; one that does takes away the results after it.
PageTells(b, ino, wanted, p) ==
  IF p.removed = {}
  THEN /\ WindowTells(b, p.to, ToSet(p.nodes))
       /\ Waits(b, ToSet(p.nodes)) /\ ino \in wanted => \A r \in ResultAts(b) : r < p.to
  ELSE /\ ino \in wanted
       /\ \A r \in ResultAts(b) : p.to <= r => r \in p.removed

\* What an answer tells of the result.
LEMMA AnswerTells ==
  ASSUME IsTranscript(file.bytes), NEW b, b = file.bytes, NEW ino \in Nat, file.ino = ino,
         NEW before \in Nat, before <= Len(b), NEW wanted, NEW p, Asked(before, wanted, p)
  PROVE  PageTells(b, ino, wanted, p)
<1> DEFINE results(to) == {row.at : row \in {r \in Rows(b) : r.at >= to /\ ParsedKind(r.text) = "result"}}
           orphans(R, to) == IF R.pending # {} /\ ino \in wanted THEN results(to) ELSE {}
<1>1. b \in Seq(Byte)
  BY DEF IsTranscript
<1>2. PICK W : W = FindWindow(b, before, Limit)
  OBVIOUS
<1>3. PICK R : R = Pair(WindowCandidates(W, ino), {})
  OBVIOUS
<1>4. PICK N : N = Completed(R.nodes, R.patches)
  OBVIOUS
<1>5. p = [nodes |-> InFileOrder(IF orphans(R, W.to) = {} THEN N ELSE Completed(N, Ats(R.pending))),
           removed |-> orphans(R, W.to), from |-> W.from, to |-> W.to, truncatedBefore |-> W.truncatedBefore]
  <2>1. p = ApiRows(before, wanted)
    BY DEF Asked
  <2>2. QED
    BY <1>2, <1>3, <1>4, <2>1, Zenon DEF ApiRows
<1>6. /\ p.removed = orphans(R, W.to) /\ p.to = W.to
      /\ p.removed = {} => p.nodes = InFileOrder(N)
  <2> HIDE DEF orphans
  <2>1. QED
    BY <1>5
<1>7. W.to \in Nat
  BY <1>1, <1>2, WindowIs, SizesAssumption
<1>8. WindowTells(b, W.to, N) /\ (Waits(b, N) => R.pending # {})
  BY <1>2, <1>3, <1>4, WindowTellsIs, SizesAssumption
<1>9. ResultAts(b) \subseteq Nat
  BY ResultAtsAre
<1>10. \A r \in ResultAts(b) : W.to <= r => r \in results(W.to)
  <2>1. SUFFICES ASSUME NEW row \in Rows(b), ParsedKind(row.text) = "result", W.to <= row.at, row.at \in Nat
                 PROVE  row.at \in results(W.to)
    BY <1>9 DEF ResultAts
  <2>2. row.at >= W.to
    BY <1>7, <2>1
  <2>3. QED
    BY <2>1, <2>2
<1> HIDE DEF results
<1>11. CASE p.removed = {}
  <2>1. /\ IsFiniteSet(N) /\ N \subseteq AnyNode
        /\ \A n, m \in N : n.at = m.at => n = m
    <3>1. NodesOf(b, W.from, W.to, ino, N)
      BY <1>1, <1>2, <1>3, <1>4, WindowNodes, SizesAssumption
    <3>2. QED
      BY <3>1 DEF NodesOf
  <2>2. PICK s : s = InFileOrder(N)
    OBVIOUS
  <2>3. ToSet(s) = N
    BY <2>1, <2>2, Ordered
  <2>4. ToSet(p.nodes) = N
    BY <1>6, <1>11, <2>2, <2>3
  <2>5. ASSUME Waits(b, N), ino \in wanted, NEW r \in ResultAts(b) PROVE r < W.to
    <3>1. results(W.to) = {}
      BY <1>6, <1>8, <1>11, <2>5
    <3>2. QED
      BY <1>7, <1>9, <1>10, <3>1
  <2>6. QED
    BY <1>6, <1>8, <1>11, <2>4, <2>5 DEF PageTells
<1>12. CASE p.removed # {}
  <2>1. ino \in wanted /\ p.removed = results(W.to)
    BY <1>6, <1>12
  <2>2. QED
    BY <1>6, <1>10, <1>12, <2>1 DEF PageTells
<1>13. QED
  BY <1>11, <1>12

\* What a window keeps of the bytes after its last row begins at a clean place.
LEMMA SeedIs ==
  ASSUME NEW b \in Seq(Byte), NEW to \in Starts(b), NoEndIn(b, to, Len(b)),
         NEW seed, seed = CarrySeed(b, to, Len(b)), NEW ack, ack = Len(b) - Len(seed)
  PROVE  /\ ack \in Nat /\ to <= ack /\ ack <= Len(b) /\ seed \in Seq(Byte)
         /\ seed = SubSeq(b, ack + 1, Len(b))
         /\ Clean(b, ack) /\ NoEndIn(b, ack, Len(b))
<1> DEFINE m == Max({to, Len(b) - RowCap})
<1>1. /\ Len(b) \in Nat /\ to \in Nat /\ to <= Len(b) /\ RowCap \in Nat \ {0}
      /\ DOMAIN b = 1 .. Len(b) /\ \A e \in Ends(b) : e \in Nat
  BY EndsAre, RowCapAssumption
<1>2. m = IF to <= Len(b) - RowCap THEN Len(b) - RowCap ELSE to
  <2>1. Len(b) - RowCap \in Int /\ to \in Int
    BY <1>1
  <2>2. PICK d : d = Len(b) - RowCap
    OBVIOUS
  <2>3. Max({to, d}) = IF to <= d THEN d ELSE to
    BY <2>1, <2>2, OfTwo
  <2>4. QED
    BY <2>2, <2>3, Zenon
<1> HIDE DEF m
<1>3. m \in Nat /\ to <= m /\ m <= Len(b)
  BY <1>1, <1>2
<1>4. seed = SubSeq(b, m + 1, Len(b))
  BY DEF CarrySeed, m
<1>5. seed \in Seq(Byte) /\ Len(seed) = Len(b) - m
  <2>1. \A i \in m + 1 .. Len(b) : b[i] \in Byte
    BY <1>1, <1>3
  <2>2. m + 1 \in Int /\ Len(b) \in Int
    BY <1>1, <1>3
  <2>3. PICK x, y : x = m + 1 /\ y = Len(b)
    OBVIOUS
  <2>4. /\ SubSeq(b, x, y) \in Seq(Byte)
        /\ Len(SubSeq(b, x, y)) = (IF x <= y THEN y - x + 1 ELSE 0)
    BY <2>1, <2>2, <2>3, SubSeqProperties
  <2>5. seed = SubSeq(b, x, y)
    BY <1>4, <2>3, Zenon
  <2>6. seed \in Seq(Byte) /\ Len(seed) = (IF x <= y THEN y - x + 1 ELSE 0)
    BY <2>4, <2>5, Zenon
  <2>7. x \in Int /\ y \in Int /\ y - x + 1 = Len(b) - m /\ (~(x <= y) => Len(b) - m = 0)
    BY <1>1, <1>3, <2>3
  <2>8. Len(seed) = Len(b) - m
    BY <2>6, <2>7
  <2>9. QED
    BY <2>6, <2>8
<1>6. ack = m
  BY <1>1, <1>3, <1>5
<1>7. NoEndIn(b, m, Len(b))
  BY <1>1, <1>3 DEF NoEndIn
<1>8. Clean(b, m)
  <2>1. CASE m = to
    BY <2>1, StartIsClean
  <2>2. CASE m # to
    <3>1. m = Len(b) - RowCap /\ to < m
      BY <1>1, <1>2, <1>3, <2>2
    <3>2. ASSUME NEW s \in Starts(b), s < m
          PROVE  \/ \E e \in Ends(b) : s < e /\ e <= m
                 \/ s + RowCap < Len(b) /\ \A e \in Ends(b) : e <= s \/ s + RowCap + 1 < e
      <4>1. s \in Nat /\ \A e \in Ends(b) : e <= to
        BY <1>1, EndsAre DEF NoEndIn
      <4>2. CASE s < to
        BY <1>3, <4>2, <4>1 DEF Starts
      <4>3. CASE to <= s
        BY <1>1, <3>1, <3>2, <4>1, <4>3
      <4>4. QED
        BY <1>1, <4>1, <4>2, <4>3
    <3>3. QED
      BY <1>1, <1>3, <3>2 DEF Clean
  <2>3. QED
    BY <2>1, <2>2
<1>9. QED
  BY <1>3, <1>4, <1>5, <1>6, <1>7, <1>8

\* The bytes joined by a tick begin at a clean place; a row that is being skipped is
\* too large to be shown.
LEMMA BaseIs ==
  ASSUME NEW b \in Seq(Byte), NEW t \in Tails, Follows(b, t), NEW z, z = t.offset - Len(t.carry)
  PROVE  /\ z \in Nat /\ z <= t.offset /\ t.ackOffset <= z /\ Clean(b, z) /\ NoEndIn(b, t.ackOffset, z)
         /\ \A s \in ShownAts(b) : t.ackOffset <= s => z <= s
         /\ t.skipping => t.ackOffset < z /\ t.ackOffset \notin ShownAts(b)
         /\ ~t.skipping => t.ackOffset = z
<1>1. /\ t.offset \in Nat /\ t.ackOffset \in Nat /\ t.carry \in Seq(Byte) /\ t.skipping \in BOOLEAN
      /\ Len(t.carry) \in Nat /\ Len(b) \in Nat /\ RowCap \in Nat \ {0}
      /\ \A e \in Ends(b) : e \in Nat
  BY EndsAre, RowCapAssumption DEF Tails
<1>2. /\ t.offset <= Len(b) /\ Len(t.carry) <= t.offset
      /\ NoEndIn(b, t.ackOffset, t.offset) /\ Clean(b, t.ackOffset)
  BY DEF Follows
<1>3. z \in Nat /\ z <= t.offset
  BY <1>1, <1>2
<1>4. CASE ~t.skipping
  <2>1. t.ackOffset = z
    BY <1>4 DEF Follows
  <2>2. NoEndIn(b, t.ackOffset, z)
    BY <1>1, <1>3, <2>1 DEF NoEndIn
  <2>3. QED
    BY <1>1, <1>2, <1>3, <1>4, <2>1, <2>2
<1>5. CASE t.skipping
  <2>1. t.carry = <<>> /\ t.ackOffset + RowCap < t.offset
    BY <1>5 DEF Follows
  <2>2. z = t.offset
    BY <1>1, <2>1
  <2>3. t.ackOffset < z
    BY <1>1, <2>1, <2>2
  <2>4. ASSUME NEW s \in ShownAts(b), t.ackOffset <= s PROVE z <= s
    <3>1. PICK e : IsRow(b, s, e) /\ e - 1 - s <= RowCap
      BY <2>4, ShownAre
    <3>2. s \in Nat /\ e \in Nat /\ s < e /\ e \in Ends(b) /\ s \in Starts(b)
      BY <3>1, RowBounds DEF IsRow
    <3>3. t.offset < e
      BY <1>1, <1>2, <2>4, <3>2 DEF NoEndIn
    <3>4. s # t.ackOffset
      BY <1>1, <2>1, <3>1, <3>2, <3>3
    <3>5. s \in Ends(b)
      BY <1>1, <2>4, <3>2, <3>4 DEF Starts
    <3>6. QED
      BY <1>1, <1>2, <2>2, <2>4, <3>2, <3>4, <3>5 DEF NoEndIn
  <2>5. t.ackOffset \notin ShownAts(b)
    BY <1>1, <2>3, <2>4, <1>3
  <2>6. Clean(b, z)
    <3>1. ASSUME NEW s \in Starts(b), s < z
          PROVE  \/ \E e \in Ends(b) : s < e /\ e <= z
                 \/ s + RowCap < Len(b) /\ \A e \in Ends(b) : e <= s \/ s + RowCap + 1 < e
      <4>1. s \in Nat
        BY EndsAre
      <4>2. CASE s < t.ackOffset
        <5>1. CASE \E e \in Ends(b) : s < e /\ e <= t.ackOffset
          BY <1>1, <1>3, <2>3, <5>1
        <5>2. CASE s + RowCap < Len(b) /\ \A e \in Ends(b) : e <= s \/ s + RowCap + 1 < e
          BY <5>2
        <5>3. QED
          BY <1>2, <4>2, <5>1, <5>2 DEF Clean
      <4>3. CASE t.ackOffset <= s
        <5>1. s = t.ackOffset
          <6>1. CASE s = 0
            BY <1>1, <4>3, <6>1
          <6>2. CASE s \in Ends(b)
            BY <1>1, <1>2, <2>2, <3>1, <4>1, <4>3, <6>2 DEF NoEndIn
          <6>3. QED
            BY <6>1, <6>2 DEF Starts
        <5>2. \A e \in Ends(b) : e <= s \/ t.offset < e
          BY <1>2, <5>1 DEF NoEndIn
        <5>3. QED
          BY <1>1, <1>2, <2>1, <5>1, <5>2
      <4>4. QED
        BY <1>1, <4>1, <4>2, <4>3
    <3>2. QED
      BY <1>1, <1>2, <1>3, <3>1 DEF Clean
  <2>7. QED
    BY <1>1, <1>2, <1>3, <1>5, <2>2, <2>3, <2>4, <2>5, <2>6
<1>6. QED
  BY <1>1, <1>4, <1>5

-----------------------------------------------------------------------------
(* A tick of the tail                                                      *)

\* Some bytes of a file, by their places in it.
LEMMA SliceIs ==
  ASSUME NEW b \in Seq(Byte), NEW x \in Nat, NEW y \in Nat, x <= y, y <= Len(b)
  PROVE  /\ SubSeq(b, x + 1, y) \in Seq(Byte) /\ Len(SubSeq(b, x + 1, y)) = y - x
         /\ \A i \in 1 .. y - x : SubSeq(b, x + 1, y)[i] = b[x + i]
<1>1. Len(b) \in Nat /\ DOMAIN b = 1 .. Len(b)
  BY EndsAre
<1>2. PICK m \in Int : m = x + 1
  OBVIOUS
<1>3. \A i \in m .. y : b[i] \in Byte
  BY <1>1, <1>2
<1>4. /\ SubSeq(b, m, y) \in Seq(Byte)
      /\ Len(SubSeq(b, m, y)) = (IF m <= y THEN y - m + 1 ELSE 0)
      /\ \A i \in 1 .. y - m + 1 : SubSeq(b, m, y)[i] = b[m + i - 1]
  BY <1>3, SubSeqProperties
<1>5. y - m + 1 = y - x /\ (IF m <= y THEN y - m + 1 ELSE 0) = y - x
  BY <1>2
<1>6. ASSUME NEW i \in 1 .. y - x PROVE SubSeq(b, m, y)[i] = b[x + i]
  <2>1. m + i - 1 = x + i
    BY <1>2
  <2>2. SubSeq(b, m, y)[i] = b[m + i - 1]
    BY <1>4, <1>5, Zenon
  <2>3. QED
    BY <2>1, <2>2, Zenon
<1>7. SubSeq(b, x + 1, y) = SubSeq(b, m, y)
  BY <1>2, Zenon
<1>8. QED
  BY <1>4, <1>5, <1>6, <1>7, Zenon

\* Two neighbouring pieces of a file are one.
LEMMA SlicesJoin ==
  ASSUME NEW b \in Seq(Byte), NEW z \in Nat, NEW o \in Nat, NEW end \in Nat,
         z <= o, o <= end, end <= Len(b)
  PROVE  /\ SubSeq(b, z + 1, o) \o SubSeq(b, o + 1, end) \in Seq(Byte)
         /\ Len(SubSeq(b, z + 1, o) \o SubSeq(b, o + 1, end)) = end - z
         /\ \A i \in 1 .. end - z : (SubSeq(b, z + 1, o) \o SubSeq(b, o + 1, end))[i] = b[z + i]
<1>1. o <= Len(b)
  BY EndsAre
<1>2. PICK k : k = SubSeq(b, z + 1, o)
  OBVIOUS
<1>3. PICK d : d = SubSeq(b, o + 1, end)
  OBVIOUS
<1>4. k \in Seq(Byte) /\ Len(k) = o - z /\ \A i \in 1 .. o - z : k[i] = b[z + i]
  BY <1>1, <1>2, SliceIs, Zenon
<1>5. d \in Seq(Byte) /\ Len(d) = end - o /\ \A i \in 1 .. end - o : d[i] = b[o + i]
  BY <1>3, SliceIs, Zenon
<1>6. PICK c : c = k \o d
  OBVIOUS
<1>7. /\ k \o d \in Seq(Byte) /\ Len(k \o d) = Len(k) + Len(d)
      /\ \A i \in 1 .. Len(k) + Len(d) : (k \o d)[i] = IF i <= Len(k) THEN k[i] ELSE d[i - Len(k)]
  BY <1>4, <1>5, ConcatProperties
<1>8. PICK l \in Nat : l = Len(k)
  BY <1>4
<1>9. l = o - z /\ Len(k) + Len(d) = end - z
  BY <1>4, <1>5, <1>8
<1>10. c \in Seq(Byte) /\ Len(c) = end - z
  BY <1>6, <1>7, <1>9, Zenon
<1>11. ASSUME NEW i \in 1 .. end - z PROVE c[i] = b[z + i]
  <2>1. c[i] = IF i <= l THEN k[i] ELSE d[i - l]
    BY <1>6, <1>7, <1>8, <1>9, Zenon
  <2>2. CASE i <= l
    <3>1. k[i] = b[z + i]
      BY <1>4, <1>9, <2>2
    <3>2. QED
      BY <2>1, <2>2, <3>1, Zenon
  <2>3. CASE ~(i <= l)
    <3>1. PICK p : p = i - l
      OBVIOUS
    <3>2. p \in 1 .. end - o /\ o + p = z + i
      BY <1>8, <1>9, <2>3, <3>1
    <3>3. d[p] = b[o + p]
      BY <1>5, <3>2
    <3>4. QED
      BY <2>1, <2>3, <3>1, <3>2, <3>3, Zenon
  <2>4. QED
    BY <2>2, <2>3
<1>12. QED
  BY <1>2, <1>3, <1>6, <1>10, <1>11, Zenon

BaseOf(t, z)             == z = t.offset - Len(t.carry)
ChunkOf(b, t, end, d)    == d = SubSeq(b, t.offset + 1, end)
JoinedBytes(t, d, c)     == c = t.carry \o d

\* The carry and the chunk a tick reads are one piece of the file.
LEMMA TickBytes ==
  ASSUME NEW b \in Seq(Byte), NEW t \in Tails, Follows(b, t),
         NEW z, BaseOf(t, z), NEW end \in Nat, t.offset <= end, end <= Len(b),
         NEW d, ChunkOf(b, t, end, d), NEW c, JoinedBytes(t, d, c)
  PROVE  c \in Seq(Byte) /\ Len(c) = end - z /\ \A i \in 1 .. end - z : c[i] = b[z + i]
<1>0. z = t.offset - Len(t.carry)
  BY DEF BaseOf
<1>1. t.offset \in Nat /\ z \in Nat /\ z <= t.offset
  BY <1>0, BaseIs DEF Tails
<1>2. t.carry = SubSeq(b, t.offset - Len(t.carry) + 1, t.offset)
  BY DEF Follows
<1>3. PICK o \in Nat, y \in Nat : o = t.offset /\ y = z
  BY <1>1
<1>4. t.carry = SubSeq(b, y + 1, o)
  BY <1>0, <1>2, <1>3, Zenon
<1>5. y <= o /\ o <= end
  BY <1>1, <1>3, Zenon
<1>6. d = SubSeq(b, o + 1, end)
  BY <1>3, Zenon DEF ChunkOf
<1>7. c = SubSeq(b, y + 1, o) \o SubSeq(b, o + 1, end)
  BY <1>4, <1>6, Zenon DEF JoinedBytes
<1>8. /\ SubSeq(b, y + 1, o) \o SubSeq(b, o + 1, end) \in Seq(Byte)
      /\ Len(SubSeq(b, y + 1, o) \o SubSeq(b, o + 1, end)) = end - y
      /\ \A i \in 1 .. end - y : (SubSeq(b, y + 1, o) \o SubSeq(b, o + 1, end))[i] = b[y + i]
  BY <1>5, SlicesJoin, Zenon
<1>9. c \in Seq(Byte) /\ Len(c) = end - y /\ \A i \in 1 .. end - y : c[i] = b[y + i]
  BY <1>7, <1>8, Zenon
<1>10. QED
  BY <1>3, <1>9, Zenon

\* The bytes of the file from a place to `end'.
Joined(b, z, end, c) ==
  /\ z \in Nat /\ c \in Seq(Byte) /\ z + Len(c) = end
  /\ \A i \in 1 .. Len(c) : c[i] = b[z + i]

\* Where the bytes joined by a tick begin.
Based(b, t, z) ==
  /\ z \in Nat /\ z <= t.offset /\ t.ackOffset <= z /\ Clean(b, z) /\ NoEndIn(b, t.ackOffset, z)
  /\ \A s \in ShownAts(b) : t.ackOffset <= s => z <= s
  /\ t.skipping => t.ackOffset < z /\ t.ackOffset \notin ShownAts(b)
  /\ ~t.skipping => t.ackOffset = z

\* What advanceTail makes of the tail.
Advanced(t, z, c, ino, u) ==
  LET rest     == SubSeq(c, Confirmed(c) + 1, Len(c))
      still    == t.skipping /\ Rows(c) = {}
      skipping == still \/ Len(rest) > RowCap
  IN  /\ u.carry = IF skipping THEN <<>> ELSE rest
      /\ u.ackOffset = IF Rows(c) = {} THEN t.ackOffset ELSE z + Confirmed(c)
      /\ u.inode = ino
      /\ u.skipping = skipping
      /\ u.rowStart = IF still THEN t.rowStart ELSE IF skipping THEN z + Confirmed(c) ELSE 0
      /\ u = [offset |-> u.offset, carry |-> u.carry, ackOffset |-> u.ackOffset, inode |-> u.inode,
              skipping |-> u.skipping, rowStart |-> u.rowStart]

\* What is joined by a tick: a piece of the file, and the end of its last row.
LEMMA JoinedIs ==
  ASSUME NEW b \in Seq(Byte), NEW end \in Nat, end <= Len(b), NEW z, NEW c, Joined(b, z, end, c)
  PROVE  /\ Len(c) \in Nat
         /\ \A x \in 1 .. Len(c) : x \in Ends(c) <=> z + x \in Ends(b)
         /\ Confirmed(c) \in Nat /\ Confirmed(c) <= Len(c) /\ \A e \in Ends(c) : e <= Confirmed(c)
         /\ (Confirmed(c) = 0 <=> Ends(c) = {}) /\ (Rows(c) = {} <=> Ends(c) = {})
         /\ Confirmed(c) # 0 => Confirmed(c) \in Ends(c) /\ z + Confirmed(c) \in Ends(b)
         /\ NoEndIn(b, z + Confirmed(c), end)
<1>3. /\ z \in Nat /\ c \in Seq(Byte) /\ z + Len(c) = end /\ Len(c) \in Nat
      /\ \A i \in 1 .. Len(c) : c[i] = b[z + i]
  BY EndsAre DEF Joined
<1>5. \A x \in 1 .. Len(c) : x \in Ends(c) <=> z + x \in Ends(b)
  <2>1. z + Len(c) <= Len(b)
    BY <1>3
  <2>2. QED
    BY <1>3, <2>1, Piece, Zenon
<1>6. Confirmed(c) \in Nat /\ Confirmed(c) <= Len(c) /\ Confirmed(c) \in Starts(c) /\ \A e \in Starts(c) : e <= Confirmed(c)
  BY <1>3, ConfirmedIs
<1>7. Ends(c) \in SUBSET (1 .. Len(c)) /\ Ends(b) \in SUBSET (1 .. Len(b)) /\ Len(b) \in Nat
  BY <1>3, EndsAre
<1>8. Confirmed(c) = 0 <=> Ends(c) = {}
  BY <1>6, <1>7 DEF Starts
<1>9. Rows(c) = {} <=> Ends(c) = {}
  BY DEF Rows
<1>10. Confirmed(c) # 0 => Confirmed(c) \in Ends(c) /\ z + Confirmed(c) \in Ends(b)
  BY <1>5, <1>6, <1>7 DEF Starts
<1>11. ASSUME NEW e \in Ends(b), z + Confirmed(c) < e PROVE end < e
  <2>1. PICK x : x = e - z
    OBVIOUS
  <2>2. e \in Nat /\ x \in Int /\ z + x = e /\ Confirmed(c) < x
    BY <1>3, <1>6, <1>7, <1>11, <2>1
  <2>3. CASE x <= Len(c)
    <3>1. x \in Ends(c)
      BY <1>3, <1>5, <1>6, <2>2, <2>3
    <3>2. QED
      BY <1>6, <2>2, <3>1 DEF Starts
  <2>4. CASE ~(x <= Len(c))
    BY <1>3, <2>2, <2>4
  <2>5. QED
    BY <2>3, <2>4
<1>12. NoEndIn(b, z + Confirmed(c), end)
  BY <1>3, <1>6, <1>7, <1>11 DEF NoEndIn
<1>13. \A e \in Ends(c) : e <= Confirmed(c)
  BY <1>6 DEF Starts
<1>14. QED
  BY <1>3, <1>5, <1>6, <1>8, <1>9, <1>10, <1>12, <1>13

\* The tail after a tick still stands at a place in the file, one that is not earlier.
LEMMA TickState ==
  ASSUME NEW b \in Seq(Byte), NEW t \in Tails, Follows(b, t), NEW ino \in Nat,
         NEW end \in Nat, t.offset <= end, end <= Len(b), NEW z, Based(b, t, z), NEW c, Joined(b, z, end, c),
         NEW u, Advanced(t, z, c, ino, u), u.offset = end
  PROVE  /\ u \in Tails /\ Follows(b, u)
         /\ t.ackOffset <= u.ackOffset
         /\ u.ackOffset = IF Ends(c) = {} THEN t.ackOffset ELSE z + Confirmed(c)
<1> DEFINE K == Confirmed(c)
           rest == SubSeq(c, K + 1, Len(c))
           still == t.skipping /\ Rows(c) = {}
           skipping == still \/ Len(rest) > RowCap
<1>1. /\ z \in Nat /\ c \in Seq(Byte) /\ z + Len(c) = end /\ Len(c) \in Nat
      /\ \A i \in 1 .. Len(c) : c[i] = b[z + i]
      /\ K \in Nat /\ K <= Len(c) /\ \A e \in Ends(c) : e <= K
      /\ (K = 0 <=> Ends(c) = {}) /\ (Rows(c) = {} <=> Ends(c) = {})
      /\ K # 0 => K \in Ends(c) /\ z + K \in Ends(b)
      /\ NoEndIn(b, z + K, end)
  <2>1. /\ z \in Nat /\ c \in Seq(Byte) /\ z + Len(c) = end
        /\ \A i \in 1 .. Len(c) : c[i] = b[z + i]
    BY DEF Joined
  <2>2. /\ Len(c) \in Nat /\ K \in Nat /\ K <= Len(c) /\ \A e \in Ends(c) : e <= K
        /\ (K = 0 <=> Ends(c) = {}) /\ (Rows(c) = {} <=> Ends(c) = {})
        /\ K # 0 => K \in Ends(c) /\ z + K \in Ends(b)
        /\ NoEndIn(b, z + K, end)
    BY JoinedIs, Zenon
  <2>3. QED
    BY <2>1, <2>2
<1>2. /\ t.offset \in Nat /\ t.carry \in Seq(Byte) /\ t.ackOffset \in Nat /\ t.skipping \in BOOLEAN
      /\ t.rowStart \in Nat /\ Len(b) \in Nat /\ RowCap \in Nat \ {0}
      /\ \A e \in Ends(b) : e \in Nat
  BY EndsAre, RowCapAssumption DEF Tails
<1>3. /\ z <= t.offset /\ t.ackOffset <= z /\ NoEndIn(b, t.ackOffset, z)
      /\ t.skipping => t.ackOffset < z
      /\ ~t.skipping => t.ackOffset = z
      /\ Clean(b, t.ackOffset) /\ NoEndIn(b, t.ackOffset, t.offset)
      /\ t.skipping => t.carry = <<>> /\ t.rowStart = t.ackOffset /\ t.ackOffset + RowCap < t.offset
  BY DEF Based, Follows
<1>5. rest \in Seq(Byte) /\ Len(rest) = Len(c) - K /\ \A i \in 1 .. Len(c) - K : rest[i] = c[K + i]
  <2>1. Len(c) <= Len(c)
    BY <1>1
  <2>2. QED
    BY <1>1, <2>1, SliceIs, Zenon
<1>6. /\ u.offset = end
      /\ u.carry = IF skipping THEN <<>> ELSE rest
      /\ u.ackOffset = IF Rows(c) = {} THEN t.ackOffset ELSE z + K
      /\ u.inode = ino
      /\ u.skipping = skipping
      /\ u.rowStart = IF still THEN t.rowStart ELSE IF skipping THEN z + K ELSE 0
      /\ u = [offset |-> u.offset, carry |-> u.carry, ackOffset |-> u.ackOffset, inode |-> u.inode,
              skipping |-> u.skipping, rowStart |-> u.rowStart]
  BY Zenon DEF Advanced
<1> HIDE DEF K, rest
<1>9. u.ackOffset = (IF Ends(c) = {} THEN t.ackOffset ELSE z + K) /\ u.ackOffset \in Nat /\ t.ackOffset <= u.ackOffset
  BY SMTT(30), <1>1, <1>2, <1>3, <1>6
<1>10. still \in BOOLEAN /\ skipping \in BOOLEAN
  BY <1>2
<1>11. u \in Tails
  <2>1. u.carry \in Seq(Byte)
    BY <1>5, <1>6
  <2>2. u.rowStart \in Nat
    BY <1>1, <1>2, <1>6
  <2>3. u.skipping \in BOOLEAN
    BY <1>6, <1>10
  <2> HIDE DEF still, skipping
  <2>4. QED
    BY <1>6, <1>9, <2>1, <2>2, <2>3 DEF Tails
<1>12. NoEndIn(b, u.ackOffset, end)
  <2>1. CASE Ends(c) = {}
    <3>1. z + K = z /\ u.ackOffset = t.ackOffset
      BY <1>1, <1>9, <2>1
    <3>2. QED
      BY <1>1, <1>2, <1>3, <3>1 DEF NoEndIn
  <2>2. CASE Ends(c) # {}
    BY <1>1, <1>9, <2>2
  <2>3. QED
    BY <2>1, <2>2
<1>13. Clean(b, u.ackOffset)
  <2>1. CASE Ends(c) = {}
    BY <1>3, <1>9, <2>1
  <2>2. CASE Ends(c) # {}
    <3>1. z + K \in Starts(b)
      BY <1>1, <2>2 DEF Starts
    <3>2. QED
      BY <1>9, <2>2, <3>1, StartIsClean
  <2>3. QED
    BY <2>1, <2>2
<1>14. ASSUME u.skipping
       PROVE  u.carry = <<>> /\ u.rowStart = u.ackOffset /\ u.ackOffset + RowCap < u.offset
  <2>1. skipping
    BY <1>6, <1>14
  <2>2. u.carry = <<>>
    BY <1>6, <2>1
  <2>3. CASE still
    <3>1. Ends(c) = {} /\ t.skipping /\ u.rowStart = t.rowStart
      BY <1>1, <1>6, <2>3
    <3>2. QED
      BY <1>2, <1>3, <1>6, <1>9, <2>2, <3>1
  <2>4. CASE ~still
    <3>1. u.rowStart = z + K /\ Len(rest) > RowCap
      BY <1>6, <2>1, <2>4
    <3>2. u.ackOffset = z + K
      <4>1. CASE Ends(c) = {}
        <5>1. ~t.skipping /\ K = 0
          BY <1>1, <2>4, <4>1
        <5>2. QED
          BY <1>1, <1>3, <1>9, <4>1, <5>1
      <4>2. CASE Ends(c) # {}
        BY <1>9, <4>2
      <4>3. QED
        BY <4>1, <4>2
    <3>3. z + K + RowCap < end
      <4>1. Len(rest) = Len(c) - K /\ RowCap < Len(rest)
        BY <1>2, <1>5, <3>1
      <4>2. QED
        BY <1>1, <1>2, <4>1
    <3>4. QED
      BY <1>6, <2>2, <3>1, <3>2, <3>3
  <2>5. QED
    BY <2>3, <2>4
<1>15. ASSUME ~u.skipping
       PROVE  /\ u.ackOffset = u.offset - Len(u.carry) /\ Len(u.carry) <= u.offset
              /\ u.carry = SubSeq(b, u.offset - Len(u.carry) + 1, u.offset)
  <2>1. ~skipping /\ ~still /\ u.carry = rest
    BY <1>6, <1>15
  <2>2. u.ackOffset = z + K
    <3>1. CASE Ends(c) = {}
      <4>1. ~t.skipping /\ K = 0
        BY <1>1, <2>1, <3>1
      <4>2. QED
        BY <1>1, <1>3, <1>9, <3>1, <4>1
    <3>2. CASE Ends(c) # {}
      BY <1>9, <3>2
    <3>3. QED
      BY <3>1, <3>2
  <2>3. Len(u.carry) = Len(c) - K /\ u.offset - Len(u.carry) = z + K /\ Len(u.carry) <= u.offset
    BY <1>1, <1>5, <1>6, <2>1
  <2>4. PICK a \in Nat : a = z + K
    BY <1>1
  <2>5. a <= end /\ end - a = Len(c) - K
    BY <1>1, <2>4
  <2>6. PICK d : d = SubSeq(b, a + 1, end)
    OBVIOUS
  <2>7. d \in Seq(Byte) /\ Len(d) = end - a /\ \A i \in 1 .. end - a : d[i] = b[a + i]
    BY <2>5, <2>6, SliceIs, Zenon
  <2>8. \A i \in 1 .. end - a : rest[i] = d[i]
    <3>1. ASSUME NEW i \in 1 .. end - a PROVE rest[i] = d[i]
      <4>1. PICK x : x = K + i
        OBVIOUS
      <4>2. x \in 1 .. Len(c) /\ z + x = a + i
        BY <1>1, <2>4, <2>5, <4>1
      <4>3. rest[i] = c[x]
        BY <1>5, <2>5, <4>1
      <4>4. c[x] = b[z + x]
        BY <1>1, <4>2
      <4>5. d[i] = b[a + i]
        BY <2>7
      <4>6. QED
        BY <4>2, <4>3, <4>4, <4>5
    <3>2. QED
      BY <3>1
  <2>9. rest = d
    <3>1. Len(rest) = Len(d) /\ \A i \in 1 .. Len(rest) : rest[i] = d[i]
      BY <1>5, <2>5, <2>7, <2>8, Zenon
    <3>2. QED
      BY <1>5, <2>7, <3>1, SeqEqual
  <2>10. u.carry = SubSeq(b, u.offset - Len(u.carry) + 1, u.offset)
    BY <1>6, <2>1, <2>3, <2>4, <2>6, <2>9, Zenon
  <2>11. QED
    BY <2>2, <2>3, <2>10
<1>16. Follows(b, u)
  <2>1. CASE u.skipping
    <3>1. u.carry = <<>> /\ Len(u.carry) = 0
      BY <1>14, <2>1
    <3>2. PICK o : o = u.offset - Len(u.carry) + 1
      OBVIOUS
    <3>3. o = end + 1 /\ o \in Int /\ end < o
      BY <1>6, <3>1, <3>2
    <3>4. SubSeq(b, o, end) = <<>>
      BY <3>3, SubSeqEmpty
    <3>5. u.carry = SubSeq(b, u.offset - Len(u.carry) + 1, u.offset)
      BY <1>6, <3>1, <3>2, <3>4, Zenon
    <3>6. u.offset <= Len(b) /\ Len(u.carry) <= u.offset
      BY <1>6, <3>1
    <3>7. NoEndIn(b, u.ackOffset, u.offset)
      BY <1>6, <1>12
    <3>8. QED
      BY <1>13, <1>14, <2>1, <3>5, <3>6, <3>7, Zenon DEF Follows
  <2>2. CASE ~u.skipping
    <3>1. NoEndIn(b, u.ackOffset, u.offset) /\ u.offset <= Len(b)
      BY <1>6, <1>12
    <3>2. QED
      BY <1>13, <1>15, <2>2, <3>1, Zenon DEF Follows
  <2>3. QED
    BY <2>1, <2>2
<1>17. QED
  BY <1>6, <1>9, <1>11, <1>16 DEF K

\* Cutting a piece after its last row loses no row.
LEMMA RowsOfConfirmed ==
  ASSUME NEW c \in Seq(Byte), NEW a \in Int, a = Confirmed(c) \/ (a <= 0 /\ Ends(c) = {})
  PROVE  Rows(SubSeq(c, 1, a)) = Rows(c)
<1>1. Confirmed(c) \in Nat /\ Confirmed(c) <= Len(c) /\ Len(c) \in Nat
  BY ConfirmedIs, EndsAre
<1>2. CASE a <= 0 /\ Ends(c) = {}
  <2>1. SubSeq(c, 1, a) = <<>>
    BY <1>2, SubSeqEmpty
  <2>2. Rows(<<>>) = {}
    BY DEF Rows, Ends
  <2>3. Rows(c) = {}
    BY <1>2 DEF Rows
  <2>4. QED
    BY <2>1, <2>2, <2>3
<1>3. CASE a = Confirmed(c)
  <2>1. PICK d : d = SubSeq(c, 1, a)
    OBVIOUS
  <2>0. a \in Nat /\ a <= Len(c)
    BY <1>1, <1>3
  <2>2. /\ d \in Seq(Byte)
        /\ \A s, e : IsRow(d, s, e) => IsRow(c, s, e) /\ RowOf(d, s, e) = RowOf(c, s, e)
        /\ \A s, e : IsRow(c, s, e) /\ e <= a => IsRow(d, s, e)
    <3>1. d \in Seq(Byte) /\ Len(d) = a /\ \A i \in 1 .. a : d[i] = c[i]
      BY <2>0, <2>1, PrefixIs
    <3>2. /\ \A s, e : IsRow(d, s, e) => IsRow(c, s, e) /\ RowOf(d, s, e) = RowOf(c, s, e)
          /\ \A s, e : IsRow(c, s, e) /\ e <= a => IsRow(d, s, e)
      BY <2>0, <3>1, PrefixOf
    <3>3. QED
      BY <3>1, <3>2
  <2>3. ASSUME NEW row \in Rows(d) PROVE row \in Rows(c)
    <3>1. PICK e \in Ends(d) : IsRow(d, row.at, e) /\ row = RowOf(d, row.at, e)
      BY <2>2, RowsAre
    <3>2. IsRow(c, row.at, e) /\ row = RowOf(c, row.at, e)
      BY <2>2, <3>1
    <3>3. RowOf(c, row.at, e) \in Rows(c)
      BY <3>2, RowsAre
    <3>4. QED
      BY <3>2, <3>3
  <2>4. ASSUME NEW row \in Rows(c) PROVE row \in Rows(d)
    <3>1. PICK e \in Ends(c) : IsRow(c, row.at, e) /\ row = RowOf(c, row.at, e)
      BY RowsAre
    <3>2. e <= a
      BY <1>3, <3>1, RowBounds
    <3>3. IsRow(d, row.at, e) /\ row = RowOf(d, row.at, e)
      BY <2>2, <3>1, <3>2
    <3>4. RowOf(d, row.at, e) \in Rows(d)
      BY <2>2, <3>3, RowsAre
    <3>5. QED
      BY <3>3, <3>4
  <2>5. QED
    BY <2>1, <2>3, <2>4
<1>4. QED
  BY <1>2, <1>3

\* c is the bytes of b after the first z.
PieceOf(b, z, c) == z + Len(c) <= Len(b) /\ \A i \in 1 .. Len(c) : c[i] = b[z + i]

\* Piece, of bytes that are known as a piece of a file.
LEMMA PieceRows ==
  ASSUME NEW b \in Seq(Byte), NEW c \in Seq(Byte), NEW z \in Nat, PieceOf(b, z, c)
  PROVE  /\ \A x \in 1 .. Len(c) : x \in Ends(c) <=> z + x \in Ends(b)
         /\ \A s, e : IsRow(c, s, e) /\ (s # 0 \/ z \in Starts(b)) =>
              IsRow(b, z + s, z + e) /\ RowOf(c, s, e).text = RowOf(b, z + s, z + e).text
         /\ \A s, e \in Nat : IsRow(b, z + s, z + e) /\ e <= Len(c) => IsRow(c, s, e)
<1>1. z + Len(c) <= Len(b)
  BY DEF PieceOf
<1>2. \A i \in 1 .. Len(c) : c[i] = b[z + i]
  BY DEF PieceOf
<1>3. QED
  BY <1>1, <1>2, Piece, Zenon

\* Piece, of the carry and the chunk of a tick.
LEMMA JoinedRows ==
  ASSUME NEW b \in Seq(Byte), NEW end \in Nat, end <= Len(b), NEW z \in Nat, NEW c \in Seq(Byte),
         Joined(b, z, end, c)
  PROVE  /\ \A x \in 1 .. Len(c) : x \in Ends(c) <=> z + x \in Ends(b)
         /\ \A s, e : IsRow(c, s, e) /\ (s # 0 \/ z \in Starts(b)) =>
              IsRow(b, z + s, z + e) /\ RowOf(c, s, e).text = RowOf(b, z + s, z + e).text
         /\ \A s, e \in Nat : IsRow(b, z + s, z + e) /\ e <= Len(c) => IsRow(c, s, e)
<1>1. PieceOf(b, z, c)
  BY DEF Joined, PieceOf
<1>2. QED
  BY <1>1, PieceRows, Zenon

\* A row of the joined bytes: a row of the file, or the end of one, which does not parse.
LEMMA JoinedRow ==
  ASSUME NEW b \in Seq(Byte), IsTranscript(b), NEW end \in Nat, end <= Len(b), NEW z \in Nat, NEW c \in Seq(Byte), Joined(b, z, end, c),
         Clean(b, z), NEW row \in Rows(c)
  PROVE  /\ row.at \in Nat /\ z + row.at < z + Confirmed(c) /\ z + row.at < Confirmed(b)
         /\ Clean(b, z + row.at)
         /\ ParsedKind(row.text) \in {"text", "call", "result", "unreadable"}
         /\ ParsedKind(row.text) = "unreadable" => z + row.at \notin ShownAts(b)
         /\ Len(row.text) > RowCap => z + row.at \notin ShownAts(b)
         /\ ParsedKind(row.text) # "unreadable" =>
              \E r \in Rows(b) : r.at = z + row.at /\ ParsedKind(r.text) = ParsedKind(row.text)
         /\ ParsedKind(row.text) = "call" => z + row.at \in CallAts(b)
<1>1. /\ z \in Nat /\ c \in Seq(Byte) /\ z + Len(c) = end /\ Len(c) \in Nat /\ Len(b) \in Nat
      /\ \A i \in 1 .. Len(c) : c[i] = b[z + i]
      /\ b \in Seq(Byte) /\ DOMAIN b = 1 .. Len(b)
  BY EndsAre DEF Joined, IsTranscript
<1>2. PICK e \in Ends(c) : IsRow(c, row.at, e) /\ row = RowOf(c, row.at, e)
  BY <1>1, RowsAre
<1>3. /\ row.at \in Nat /\ e \in Nat /\ row.at < e /\ e <= Len(c) /\ e <= Confirmed(c)
      /\ row.text \in Seq(Byte) /\ Len(row.text) = e - 1 - row.at
      /\ row.text # <<>> => row.at + 1 < e /\ Head(row.text) = c[row.at + 1]
  <2>1. PICK q : q = row.at
    OBVIOUS
  <2>2. IsRow(c, q, e) /\ row.text = RowOf(c, q, e).text
    BY <1>2, <2>1
  <2>3. /\ q \in Nat /\ e \in Nat /\ q < e /\ e <= Len(c) /\ e <= Confirmed(c)
        /\ RowOf(c, q, e).text \in Seq(Byte) /\ Len(RowOf(c, q, e).text) = e - 1 - q
        /\ RowOf(c, q, e).text # <<>> => q + 1 < e /\ Head(RowOf(c, q, e).text) = c[q + 1]
    BY <2>2, RowBounds
  <2>4. QED
    BY <2>1, <2>2, <2>3, Zenon
<1>4. z + e \in Ends(b) /\ z + e <= Confirmed(b) /\ Confirmed(b) \in Nat /\ Confirmed(c) \in Nat
  <2>1. z + e \in Ends(b)
    <3>1. \A x \in 1 .. Len(c) : x \in Ends(c) <=> z + x \in Ends(b)
      BY JoinedRows, Zenon
    <3>2. e \in 1 .. Len(c)
      BY <1>1, <1>3
    <3>3. QED
      BY <1>2, <3>1, <3>2
  <2>2. QED
    BY <1>1, <2>1, ConfirmedIs DEF Starts
<1>5. ParsedKind(row.text) \in {"text", "call", "result", "unreadable"}
  BY ParsedKindIs
<1>6. z + row.at < z + Confirmed(c) /\ z + row.at < Confirmed(b)
  BY <1>1, <1>3, <1>4
<1>7. CASE row.at # 0 \/ z \in Starts(b)
  <2>0. PICK q \in Nat : q = row.at
    BY <1>3
  <2>1. PICK s, x : s = z + q /\ x = z + e
    OBVIOUS
  <2>13. IsRow(c, q, e) /\ (q # 0 \/ z \in Starts(b)) /\ row.text = RowOf(c, q, e).text
    BY <1>2, <1>7, <2>0
  <2>14. \A s1, e1 : IsRow(c, s1, e1) /\ (s1 # 0 \/ z \in Starts(b)) =>
              IsRow(b, z + s1, z + e1) /\ RowOf(c, s1, e1).text = RowOf(b, z + s1, z + e1).text
    BY JoinedRows, ZenonT(40)
  <2>3. IsRow(b, z + q, z + e) /\ RowOf(c, q, e).text = RowOf(b, z + q, z + e).text
    BY <2>13, <2>14, Zenon
  <2>4. IsRow(b, s, x) /\ row.text = RowOf(b, s, x).text
    BY <2>1, <2>3, <2>13, Zenon
  <2>5. /\ RowOf(b, s, x) \in Rows(b) /\ RowOf(b, s, x).at = s /\ s \in Starts(b)
        /\ \A q1, r \in Rows(b) : q1.at = r.at => q1 = r
    BY <1>1, <2>4, RowsAre, RowBounds DEF IsRow
  <2>6. Clean(b, s)
    BY <1>1, <2>5, StartIsClean
  <2>7. ASSUME s \in ShownAts(b)
        PROVE  Len(row.text) <= RowCap /\ ParsedKind(row.text) \in {"text", "call"}
    <3>1. PICK r \in Rows(b) : r.at = s /\ Len(r.text) <= RowCap /\ ParsedKind(r.text) \in {"text", "call"}
      BY <2>7 DEF ShownAts
    <3>2. r = RowOf(b, s, x)
      BY <2>5, <3>1
    <3>3. QED
      BY <2>4, <3>1, <3>2
  <2>8. Len(row.text) > RowCap => s \notin ShownAts(b)
    BY <1>1, <1>3, <2>7, RowCapAssumption
  <2>9. ParsedKind(row.text) = "unreadable" => s \notin ShownAts(b)
    BY <2>7
  <2>10. \E r \in Rows(b) : r.at = s /\ ParsedKind(r.text) = ParsedKind(row.text)
    BY <2>4, <2>5
  <2>11. ParsedKind(row.text) = "call" => s \in CallAts(b)
    BY <2>10 DEF CallAts
  <2>12. QED
    BY <1>3, <1>5, <1>6, <2>0, <2>1, <2>6, <2>8, <2>9, <2>10, <2>11
<1>8. CASE row.at = 0 /\ z \notin Starts(b)
  <2>1. z # 0 /\ z \notin Ends(b)
    BY <1>8 DEF Starts
  <2>2. ParsedKind(row.text) = "unreadable"
    <3>1. CASE row.text = <<>>
      BY <3>1, ParsedKindIs
    <3>2. CASE row.text # <<>>
      <4>1. 1 \in 1 .. Len(c) /\ Head(row.text) = c[1]
        BY <1>1, <1>3, <1>8, <3>2
      <4>2. PICK p : p = z + 1
        OBVIOUS
      <4>3. p \in DOMAIN b /\ p > 1 /\ p - 1 = z /\ c[1] = b[p]
        BY <1>1, <1>3, <2>1, <4>1, <4>2
      <4>4. b[p - 1] # "n"
        BY <1>1, <2>1, <4>3 DEF Ends
      <4>5. b[p] \notin {"t", "c", "r"}
        BY <4>3, <4>4 DEF IsTranscript
      <4>6. QED
        BY <3>2, <4>1, <4>3, <4>5, ParsedKindIs
    <3>3. QED
      BY <3>1, <3>2
  <2>3. z \notin ShownAts(b)
    BY <1>1, <1>8, ShownAre DEF IsRow
  <2>4. z + row.at = z
    BY <1>1, <1>8
  <2>5. QED
    BY <1>3, <1>5, <1>6, <2>2, <2>3, <2>4
<1>9. QED
  BY <1>7, <1>8

\* What is sent of a file: the rows that begin from `from' up to `to', in the
\* range of rows that begins at `base'.
Emission(b, from, to, base, ino, N) ==
  /\ IsFiniteSet(N) /\ N \subseteq AnyNode
  /\ \A n, m \in N : n.at = m.at /\ (n.k = "oversized" <=> m.k = "oversized") => n = m
  /\ \A n \in N : n.ino = ino /\ from <= n.at /\ n.at < to /\ Valid(b, n) /\ FitsFrom(b, n, base)
  /\ \A s \in ShownAts(b) : from <= s /\ s < to => s \in Ats(N)

\* The rows S and the patch P of a tick tell of the result in one form, when they pass it.
TickTells(b, from, to, S, P) ==
  /\ \A n \in S : n.k # "done"
  /\ P # {} => /\ \A n \in S : n.k # "result"
               /\ \E r \in ResultAts(b) : from <= r /\ r < to

\* P are calls of b.
Calls(b, P) == P \subseteq AnyNode /\ \A c \in P : c.k = "call" /\ c.at \in CallAts(b)

\* N are the nodes a tick makes of the rows in c.
TickNodesOf(t, z, c, ino, N) ==
  N = {Node(z + row.at, ParsedKind(row.text), ino) : row \in Rows(c)}
        \cup {Node(at, "oversized", ino) : at \in
               {IF t.skipping /\ row.at = 0 THEN t.rowStart ELSE z + row.at :
                  row \in {r \in Rows(c) : Len(r.text) > RowCap \/ (t.skipping /\ r.at = 0)}}}

\* Each row that ends in the bytes of a tick becomes a node or is paired away: what
\* is shown of the file between the two places the tail stood at is emitted.
LEMMA TickNodes ==
  ASSUME NEW b \in Seq(Byte), IsTranscript(b), NEW t \in Tails, Follows(b, t), NEW ino \in Nat,
         NEW end \in Nat, end <= Len(b), NEW z \in Nat, Based(b, t, z),
         NEW c \in Seq(Byte), Joined(b, z, end, c),
         NEW a \in Nat, (Ends(c) = {} => a = t.ackOffset) /\ (Ends(c) # {} => a = z + Confirmed(c)),
         NEW N, TickNodesOf(t, z, c, ino, N), NEW P, Calls(b, P), NEW R, R = Pair(N, P)
  PROVE  /\ Emission(b, t.ackOffset, a, z, ino, R.nodes)
         /\ R.patches \subseteq CallAts(b) /\ Calls(b, R.pending)
         /\ TickTells(b, t.ackOffset, a, R.nodes, R.patches)
<1> DEFINE big  == {r \in Rows(c) : Len(r.text) > RowCap \/ (t.skipping /\ r.at = 0)}
           Over(r) == IF t.skipping /\ r.at = 0 THEN t.rowStart ELSE z + r.at
           Small(r) == Node(z + r.at, ParsedKind(r.text), ino)
           Large(r) == Node(Over(r), "oversized", ino)
           N1 == {Small(r) : r \in Rows(c)}
           N2 == {Large(r) : r \in big}
<1>1. N = N1 \cup N2
  <2>1. {Node(at, "oversized", ino) : at \in {Over(r) : r \in big}} = N2
    OBVIOUS
  <2>2. QED
    BY <2>1, Zenon DEF TickNodesOf
<1>2. /\ t.ackOffset \in Nat /\ t.rowStart \in Nat /\ t.skipping \in BOOLEAN /\ Len(b) \in Nat
      /\ \A e \in Ends(b) : e \in Nat
  BY EndsAre DEF Tails
<1>3. /\ t.ackOffset <= z /\ Clean(b, z) /\ NoEndIn(b, t.ackOffset, z) /\ Clean(b, t.ackOffset)
      /\ \A s \in ShownAts(b) : t.ackOffset <= s => z <= s
      /\ t.skipping => t.ackOffset < z /\ t.ackOffset \notin ShownAts(b) /\ t.rowStart = t.ackOffset
  BY DEF Based, Follows
<1>4. ASSUME NEW row \in Rows(c)
      PROVE  /\ row.at \in Nat /\ z + row.at < z + Confirmed(c) /\ z + row.at < Confirmed(b)
             /\ Clean(b, z + row.at)
             /\ ParsedKind(row.text) \in {"text", "call", "result", "unreadable"}
             /\ ParsedKind(row.text) = "unreadable" => z + row.at \notin ShownAts(b)
             /\ Len(row.text) > RowCap => z + row.at \notin ShownAts(b)
             /\ ParsedKind(row.text) # "unreadable" =>
                  \E r \in Rows(b) : r.at = z + row.at /\ ParsedKind(r.text) = ParsedKind(row.text)
             /\ ParsedKind(row.text) = "call" => z + row.at \in CallAts(b)
  BY <1>3, JoinedRow, Zenon
<1>5. Rows(c) # {} => a = z + Confirmed(c) /\ Ends(c) # {}
  BY DEF Rows
<1>6. ASSUME NEW row \in Rows(c)
      PROVE  /\ Small(row) \in AnyNode /\ Small(row).ino = ino /\ Small(row).at = z + row.at
             /\ t.ackOffset <= Small(row).at /\ Small(row).at < a
             /\ Small(row).k = ParsedKind(row.text)
             /\ Valid(b, Small(row)) /\ FitsFrom(b, Small(row), z)
  <2>1. PICK n : n = Small(row)
    OBVIOUS
  <2>2. n = [at |-> z + row.at, k |-> ParsedKind(row.text), ino |-> ino]
    BY <2>1 DEF Node
  <2>3. n.at = z + row.at /\ n.k = ParsedKind(row.text) /\ n.ino = ino
    BY <2>2
  <2>4. n \in AnyNode
    BY <1>4, <2>2 DEF AnyNode, Kinds
  <2>5. t.ackOffset <= n.at /\ n.at < a /\ z <= n.at
    BY <1>2, <1>3, <1>4, <1>5, <2>3
  <2>6. n.k # "oversized"
    BY <1>4, <2>3
  <2>7. Valid(b, n)
    BY <1>4, <2>3, <2>6 DEF Valid
  <2>8. FitsFrom(b, n, z)
    BY <1>2, <2>5 DEF FitsFrom
  <2>9. QED
    BY <2>1, <2>3, <2>4, <2>5, <2>7, <2>8, Zenon
<1>7. ASSUME NEW row \in big
      PROVE  /\ Large(row) \in AnyNode /\ Large(row).ino = ino
             /\ t.ackOffset <= Large(row).at /\ Large(row).at < a
             /\ Large(row).k = "oversized"
             /\ Valid(b, Large(row)) /\ FitsFrom(b, Large(row), z)
  <2>0. row \in Rows(c) /\ (Len(row.text) > RowCap \/ (t.skipping /\ row.at = 0))
    OBVIOUS
  <2>1. PICK n : n = Large(row)
    OBVIOUS
  <2>2. n = [at |-> Over(row), k |-> "oversized", ino |-> ino]
    BY <2>1 DEF Node
  <2>3. n.at = Over(row) /\ n.k = "oversized" /\ n.ino = ino
    BY <2>2
  <2>4. CASE t.skipping /\ row.at = 0
    <3>1. n.at = t.ackOffset
      BY <1>3, <2>3, <2>4
    <3>2. n \in AnyNode
      BY <1>2, <1>3, <2>2, <2>4 DEF AnyNode, Kinds
    <3>3. z + row.at = z
      BY <2>4
    <3>4. t.ackOffset <= n.at /\ n.at < a /\ n.at < Confirmed(b)
      <4>1. z < a /\ z < Confirmed(b)
        BY <1>4, <1>5, <2>0, <3>3
      <4>2. t.ackOffset < z /\ Confirmed(b) \in Nat
        BY <1>3, <2>4, ConfirmedIs
      <4>3. QED
        BY <1>2, <3>1, <4>1, <4>2
    <3>5. Valid(b, n)
      BY <1>3, <2>3, <2>4, <3>1, <3>4 DEF Valid
    <3>6. FitsFrom(b, n, z)
      BY <1>3, <3>1 DEF FitsFrom
    <3>7. QED
      BY <2>1, <2>3, <3>2, <3>4, <3>5, <3>6, Zenon
  <2>5. CASE ~(t.skipping /\ row.at = 0)
    <3>1. n.at = z + row.at /\ Len(row.text) > RowCap
      BY <2>0, <2>3, <2>5
    <3>2. n \in AnyNode
      BY <1>4, <2>0, <2>2, <2>5 DEF AnyNode, Kinds
    <3>3. t.ackOffset <= n.at /\ n.at < a /\ z <= n.at
      BY <1>2, <1>3, <1>4, <1>5, <2>0, <3>1
    <3>4. Valid(b, n)
      BY <1>4, <2>0, <2>3, <3>1 DEF Valid
    <3>5. FitsFrom(b, n, z)
      BY <3>3 DEF FitsFrom
    <3>6. QED
      BY <2>1, <2>3, <3>2, <3>3, <3>4, <3>5, Zenon
  <2>6. QED
    BY <2>4, <2>5
<1>8. IsFiniteSet(N)
  <2> DEFINE f == [r \in Rows(c) |-> Small(r)]
             g == [r \in big |-> Large(r)]
  <2>1. IsFiniteSet(Rows(c)) /\ big \subseteq Rows(c)
    BY RowsFinite
  <2>2. f \in [Rows(c) -> N1] /\ N1 = {f[x] : x \in Rows(c)}
    OBVIOUS
  <2>3. g \in [big -> N2] /\ N2 = {g[x] : x \in big}
    OBVIOUS
  <2>4. IsFiniteSet(big)
    <3> HIDE DEF big
    <3>1. QED
      BY <2>1, FS_Subset
  <2> HIDE DEF f, g, N1, N2, big
  <2>5. IsFiniteSet(N1)
    BY <2>1, <2>2, FiniteImage
  <2>6. IsFiniteSet(N2)
    BY <2>3, <2>4, FiniteImage
  <2>7. QED
    BY <1>1, <2>5, <2>6, FS_Union
<1>9. \A n \in N : (\E r \in Rows(c) : n = Small(r)) \/ (\E r \in big : n = Large(r))
  BY <1>1
<1>10. \A r \in Rows(c) : Small(r) \in N
  BY <1>1
<1>11. \A n \in N : n \in AnyNode /\ n.ino = ino /\ t.ackOffset <= n.at /\ n.at < a /\ Valid(b, n) /\ FitsFrom(b, n, z)
  <2> HIDE DEF Small, Large, big, Over
  <2>1. QED
    BY <1>6, <1>7, <1>9
<1>20. ASSUME NEW n \in N, n.k # "oversized"
       PROVE  \E r \in Rows(c) : n.at = z + r.at /\ n.k = ParsedKind(r.text)
  <2> HIDE DEF Small, Large, big
  <2>1. QED
    BY <1>6, <1>7, <1>9, <1>20
<1>12. ASSUME NEW n \in N, NEW m \in N, n.at = m.at, n.k = "oversized" <=> m.k = "oversized" PROVE n = m
  <2>1. n = [at |-> n.at, k |-> n.k, ino |-> n.ino] /\ m = [at |-> m.at, k |-> m.k, ino |-> m.ino] /\ n.ino = m.ino
    BY <1>11 DEF AnyNode
  <2>2. CASE n.k = "oversized"
    BY <1>12, <2>1, <2>2
  <2>3. CASE n.k # "oversized"
    <3>1. m.k # "oversized"
      BY <1>12, <2>3
    <3>2. PICK r \in Rows(c) : n.at = z + r.at /\ n.k = ParsedKind(r.text)
      BY <1>20, <2>3
    <3>3. PICK q \in Rows(c) : m.at = z + q.at /\ m.k = ParsedKind(q.text)
      BY <1>20, <3>1, Zenon
    <3>4. r.at = q.at
      <4>1. r.at \in Nat
        BY <1>4, Zenon
      <4>2. q.at \in Nat
        BY <1>4, Zenon
      <4>3. z + r.at = z + q.at
        BY <1>12, <3>2, <3>3
      <4>4. PICK x \in Nat, y \in Nat : x = r.at /\ y = q.at
        BY <4>1, <4>2
      <4>5. z + x = z + y
        BY <4>3, <4>4
      <4>6. x = y
        BY <4>5
      <4>7. QED
        BY <4>4, <4>6
    <3>5. r = q
      BY <3>4, RowsAre
    <3>6. QED
      BY <1>12, <2>1, <3>2, <3>3, <3>5
  <2>4. QED
    BY <2>2, <2>3
<1>13. /\ R.nodes \subseteq N /\ \A n \in N : n.k # "result" => n \in R.nodes
       /\ \A s \in R.patches : \E x \in N \cup P : x.k = "call" /\ x.at = s
       /\ \A x \in R.pending : x \in P \/ (x \in N /\ x.k = "call")
  BY PairIs
<1>14. \A n \in N : n.k = "call" => n.at \in CallAts(b)
  <2>1. ASSUME NEW n \in N, n.k = "call" PROVE n.at \in CallAts(b)
    <3>1. PICK r \in Rows(c) : n.at = z + r.at /\ n.k = ParsedKind(r.text)
      BY <1>20, <2>1
    <3>2. QED
      BY <1>4, <2>1, <3>1
  <2>2. QED
    BY <2>1
<1>21. /\ \A x \in 1 .. Len(c) : x \in Ends(c) <=> z + x \in Ends(b)
       /\ \A s, e : IsRow(c, s, e) /\ (s # 0 \/ z \in Starts(b)) =>
            IsRow(b, z + s, z + e) /\ RowOf(c, s, e).text = RowOf(b, z + s, z + e).text
       /\ \A s, e \in Nat : IsRow(b, z + s, z + e) /\ e <= Len(c) => IsRow(c, s, e)
  BY JoinedRows, ZenonT(40)
<1>15. ASSUME NEW s \in ShownAts(b), t.ackOffset <= s, s < a PROVE s \in Ats(R.nodes)
  <2>1. PICK e : IsRow(b, s, e) /\ ParsedKind(RowOf(b, s, e).text) \in {"text", "call"}
    BY ShownAre
  <2>2. s \in Nat /\ e \in Nat /\ s < e /\ s \in Starts(b) /\ \A x \in Ends(b) : x <= s \/ e <= x
    BY <2>1, RowBounds DEF IsRow
  <2>3. Ends(c) # {} /\ a = z + Confirmed(c)
    BY <1>2, <1>15, <2>2
  <2>4. Confirmed(c) \in Nat /\ Confirmed(c) <= Len(c) /\ a \in Ends(b) /\ Len(c) \in Nat
    BY <2>3, JoinedIs
  <2>5. z <= s /\ e <= a
    BY <1>3, <1>15, <2>2, <2>4
  <2>6. PICK r \in Nat, f \in Nat : z + r = s /\ z + f = e
    <3>1. s - z \in Nat /\ e - z \in Nat /\ z + (s - z) = s /\ z + (e - z) = e
      BY <2>2, <2>5
    <3>2. QED
      BY <3>1
  <2>7. f <= Len(c)
    BY <2>3, <2>4, <2>5, <2>6
  <2>8. IsRow(b, z + r, z + f) /\ (r # 0 \/ z \in Starts(b))
    BY <2>1, <2>2, <2>6
  <2>9. IsRow(c, r, f)
    BY <2>7, <2>8, JoinedRows, ZenonT(40)
  <2>10. RowOf(c, r, f).text = RowOf(b, z + r, z + f).text
    <3>1. QED
      BY <1>21, <2>8, <2>9, Zenon
  <2>11. RowOf(c, r, f) \in Rows(c) /\ RowOf(c, r, f).at = r
    BY <2>9, RowsAre, RowBounds
  <2>12. ParsedKind(RowOf(c, r, f).text) \in {"text", "call"}
    BY <2>1, <2>6, <2>10, Zenon
  <2>13. PICK n \in N : n = Small(RowOf(c, r, f))
    BY <1>10, <2>11
  <2>14. n.at = z + r /\ n.k \in {"text", "call"}
    <3> HIDE DEF Small
    <3>1. QED
      BY <1>6, <2>11, <2>12, <2>13
  <2>15. QED
    BY <1>13, <2>6, <2>14 DEF Ats
<1> HIDE DEF Small, Large, big, N1, N2
<1>16. Emission(b, t.ackOffset, a, z, ino, R.nodes)
  <2>1. IsFiniteSet(R.nodes)
    BY <1>8, <1>13, FS_Subset
  <2>2. R.nodes \subseteq AnyNode
    BY <1>11, <1>13
  <2>3. \A n, m \in R.nodes : n.at = m.at /\ (n.k = "oversized" <=> m.k = "oversized") => n = m
    BY <1>12, <1>13
  <2>4. \A n \in R.nodes : n.ino = ino /\ t.ackOffset <= n.at /\ n.at < a /\ Valid(b, n) /\ FitsFrom(b, n, z)
    BY <1>11, <1>13
  <2>5. QED
    BY <1>15, <2>1, <2>2, <2>3, <2>4 DEF Emission
<1>17. R.patches \subseteq CallAts(b)
  BY <1>13, <1>14 DEF Calls
<1>18. Calls(b, R.pending)
  BY <1>11, <1>13, <1>14 DEF Calls
<1>22. \A n \in N : n.k # "done"
  BY <1>4, <1>20
<1>23. ASSUME R.patches # {}
       PROVE  /\ \A n \in R.nodes : n.k # "result"
              /\ \E r \in ResultAts(b) : t.ackOffset <= r /\ r < a
  <2>1. PICK r \in N : r.k = "result" /\ r \notin R.nodes
    BY <1>23, PairTells
  <2>2. \A n \in N : n.k = "result" => n.at \in ResultAts(b)
    BY <1>11, ResultAtsAre
  <2>3. t.ackOffset <= r.at /\ r.at < a
    BY <1>11
  <2>4. ASSUME NEW n \in R.nodes, n.k = "result" PROVE FALSE
    <3>1. n \in N /\ n.at = r.at
      BY <1>13, <2>1, <2>2, <2>4, ResultAtsAre
    <3>2. n = r
      BY <1>12, <2>1, <2>4, <3>1
    <3>3. QED
      BY <2>1, <2>4, <3>2
  <2>5. QED
    BY <2>1, <2>2, <2>3, <2>4
<1>24. TickTells(b, t.ackOffset, a, R.nodes, R.patches)
  BY <1>13, <1>22, <1>23 DEF TickTells
<1>19. QED
  BY <1>16, <1>17, <1>18, <1>24

\* The frames that are sent for the nodes of N and the completed calls of P.
Carries(sent, N, from, P) ==
  /\ sent \in Seq(Frames)
  /\ \A j \in DOMAIN sent : sent[j].f = "rows" =>
       /\ sent[j].nodes # <<>> /\ sent[j].nodes \in Seq(AnyNode) /\ sent[j].from = from
       /\ \A i, k \in DOMAIN sent[j].nodes : i < k => sent[j].nodes[i].at <= sent[j].nodes[k].at
       /\ \A n \in ToSet(sent[j].nodes) : n \in N
  /\ \A i, j \in DOMAIN sent : i < j /\ sent[i].f = "rows" /\ sent[j].f = "rows" =>
       \A n \in ToSet(sent[i].nodes), m \in ToSet(sent[j].nodes) : n.at <= m.at /\ n # m
  /\ \A n \in N : \E j \in DOMAIN sent : sent[j].f = "rows" /\ n \in ToSet(sent[j].nodes)
  /\ \A j \in DOMAIN sent : sent[j].f = "patch" => sent[j].ids \subseteq P /\ P # {}
  /\ \A i, j \in DOMAIN sent : sent[i].f = "patch" /\ sent[j].f = "patch" => i = j

\* The frames of the rows alone.
LEMMA RowsSent ==
  ASSUME NEW b, NEW lo, NEW to, NEW base, NEW ino, NEW N, Emission(b, lo, to, base, ino, N),
         NEW from \in Nat, NEW F, F = RowsFrames(InFileOrder(N), from)
  PROVE  Carries(F, N, from, {}) /\ \A j \in DOMAIN F : F[j].f = "rows"
<1>1. PICK s : s = InFileOrder(N)
  OBVIOUS
<1>2. /\ s \in Seq(AnyNode) /\ s \in Seq(N) /\ ToSet(s) = N
      /\ \A i, k \in DOMAIN s : i < k => s[i].at <= s[k].at
      /\ Distinct(s)
  BY <1>1, Ordered DEF Emission
<1>3. \A n \in AnyNode : n.at \in Nat
  BY DEF AnyNode
<1>4. /\ F \in Seq([f : {"rows"}, nodes : Seq(AnyNode), from : {from}])
      /\ \A j \in DOMAIN F : F[j].nodes # <<>> /\ \A n \in ToSet(F[j].nodes) : n \in N
      /\ \A j \in DOMAIN F : \A i, k \in DOMAIN F[j].nodes : i < k => F[j].nodes[i].at <= F[j].nodes[k].at
      /\ \A n \in N : \E j \in DOMAIN F : n \in ToSet(F[j].nodes)
      /\ \A i, j \in DOMAIN F : i < j =>
              \A n \in ToSet(F[i].nodes), m \in ToSet(F[j].nodes) : n.at <= m.at /\ n # m
  <2>1. InOrder(s) /\ Placed(AnyNode)
    BY <1>2, <1>3 DEF InOrder, Placed
  <2>2. Framed(RowsFrames(s, from), AnyNode, s, from)
    BY <1>2, <2>1, RowsFramesAre
  <2>3. Framed(F, AnyNode, s, from)
    BY <1>1, <2>2
  <2>4. N = ToSet(s)
    BY <1>2
  <2>5. QED
    BY <2>3, <2>4 DEF Framed
<1>5. \A j \in DOMAIN F : F[j].f = "rows" /\ F[j].nodes \in Seq(AnyNode) /\ F[j].from = from /\ F[j] \in Frames
  <2>1. ASSUME NEW j \in DOMAIN F
        PROVE F[j].f = "rows" /\ F[j].nodes \in Seq(AnyNode) /\ F[j].from = from /\ F[j] \in Frames
    <3>1. F[j] \in [f : {"rows"}, nodes : Seq(AnyNode), from : {from}]
      <4>1. PICK R : R = [f : {"rows"}, nodes : Seq(AnyNode), from : {from}]
        OBVIOUS
      <4>2. F \in Seq(R)
        BY <1>4, <4>1
      <4>3. F[j] \in R
        BY <4>2
      <4>4. QED
        BY <4>1, <4>3
    <3>2. PICK x \in [f : {"rows"}, nodes : Seq(AnyNode), from : {from}] : x = F[j]
      BY <3>1
    <3>3. x.f = "rows" /\ x.nodes \in Seq(AnyNode) /\ x.from = from
      OBVIOUS
    <3>4. x \in [f : {"rows"}, nodes : Seq(AnyNode), from : Nat]
      OBVIOUS
    <3>5. QED
      BY <3>2, <3>3, <3>4 DEF Frames
  <2>2. QED
    BY <2>1
<1>6. F \in Seq(Frames)
  <2>1. F \in [1 .. Len(F) -> Frames] /\ Len(F) \in Nat /\ DOMAIN F = 1 .. Len(F)
    BY <1>4, <1>5
  <2>2. QED
    BY <2>1
<1>7. \A j \in DOMAIN F : F[j].f # "patch"
  BY <1>5
<1>8. QED
  <2>1. \A j \in DOMAIN F : F[j].f = "rows" =>
       /\ F[j].nodes # <<>> /\ F[j].nodes \in Seq(AnyNode) /\ F[j].from = from
       /\ \A i, k \in DOMAIN F[j].nodes : i < k => F[j].nodes[i].at <= F[j].nodes[k].at
       /\ \A n \in ToSet(F[j].nodes) : n \in N
    BY <1>4, <1>5, Zenon
  <2>2. \A i, j \in DOMAIN F : i < j /\ F[i].f = "rows" /\ F[j].f = "rows" =>
       \A n \in ToSet(F[i].nodes), m \in ToSet(F[j].nodes) : n.at <= m.at /\ n # m
    BY <1>4, Zenon
  <2>3. \A n \in N : \E j \in DOMAIN F : F[j].f = "rows" /\ n \in ToSet(F[j].nodes)
    BY <1>4, <1>5, Zenon
  <2>4. \A j \in DOMAIN F : F[j].f = "patch" => F[j].ids \subseteq {} /\ {} # {}
    BY <1>7
  <2>5. \A i, j \in DOMAIN F : F[i].f = "patch" /\ F[j].f = "patch" => i = j
    BY <1>7
  <2>6. QED
    BY <1>5, <1>6, <2>1, <2>2, <2>3, <2>4, <2>5, Zenon DEF Carries

\* What a tick sends: the rows, then the results of the calls sent before.
LEMMA TickSent ==
  ASSUME NEW N, NEW from, NEW F, Carries(F, N, from, {}), \A j \in DOMAIN F : F[j].f = "rows",
         NEW P, P \subseteq Nat, NEW sent, sent = F \o PatchFrames(P)
  PROVE  Carries(sent, N, from, P) /\ \A j \in DOMAIN sent : sent[j].f \in {"rows", "patch"}
<1>1. /\ PatchFrames(P) \in Seq(Frames) /\ Len(PatchFrames(P)) <= 1 /\ (P = {} => Len(PatchFrames(P)) = 0)
      /\ \A j \in DOMAIN PatchFrames(P) : PatchFrames(P)[j].f = "patch" /\ PatchFrames(P)[j].ids = P
  <2>1. CASE P = {}
    BY <2>1 DEF PatchFrames
  <2>2. CASE P # {}
    <3>1. [f |-> "patch", ids |-> P] \in Frames
      BY DEF Frames
    <3>2. QED
      BY <2>2, <3>1 DEF PatchFrames
  <2>3. QED
    BY <2>1, <2>2
<1>2. PICK G : G = PatchFrames(P)
  OBVIOUS
<1>3. /\ F \in Seq(Frames) /\ G \in Seq(Frames) /\ Len(F) \in Nat /\ Len(G) \in Nat
      /\ Len(G) <= 1 /\ (P = {} => Len(G) = 0)
  BY <1>1, <1>2 DEF Carries
<1>4. /\ sent \in Seq(Frames) /\ Len(sent) = Len(F) + Len(G)
      /\ \A i \in 1 .. Len(F) : sent[i] = F[i]
      /\ \A i \in 1 .. Len(G) : sent[Len(F) + i] = G[i]
  BY <1>2, <1>3, ConcatProperties
<1>5. \A j \in DOMAIN sent :
        \/ j \in DOMAIN F /\ sent[j] = F[j]
        \/ sent[j].f = "patch" /\ sent[j].ids = P /\ P # {} /\ j = Len(F) + 1
  <2>1. ASSUME NEW j \in DOMAIN sent, j \notin DOMAIN F
        PROVE  sent[j].f = "patch" /\ sent[j].ids = P /\ P # {} /\ j = Len(F) + 1
    <3>1. PICK i \in 1 .. Len(G) : j = Len(F) + i
      <4>1. j - Len(F) \in 1 .. Len(G) /\ j = Len(F) + (j - Len(F))
        BY <1>3, <1>4, <2>1
      <4>2. QED
        BY <4>1
    <3>2. i = 1 /\ P # {}
      BY <1>3, <3>1
    <3>3. i \in DOMAIN G /\ sent[j] = G[i]
      BY <1>3, <1>4, <3>1
    <3>4. QED
      BY <1>1, <1>2, <3>1, <3>2, <3>3
  <2>2. \A j \in DOMAIN sent : j \in DOMAIN F => sent[j] = F[j]
    BY <1>3, <1>4
  <2>3. QED
    BY <2>1, <2>2
<1>6. \A j \in DOMAIN F : j \in DOMAIN sent /\ sent[j] = F[j]
  BY <1>3, <1>4
<1>7. \A j \in DOMAIN sent : sent[j].f = "rows" => j \in DOMAIN F /\ sent[j] = F[j]
  BY <1>5
<1>8. QED
  <2>1. \A j \in DOMAIN sent : sent[j].f = "rows" =>
       /\ sent[j].nodes # <<>> /\ sent[j].nodes \in Seq(AnyNode) /\ sent[j].from = from
       /\ \A i, k \in DOMAIN sent[j].nodes : i < k => sent[j].nodes[i].at <= sent[j].nodes[k].at
       /\ \A n \in ToSet(sent[j].nodes) : n \in N
    BY <1>7 DEF Carries
  <2>2. \A i, j \in DOMAIN sent : i < j /\ sent[i].f = "rows" /\ sent[j].f = "rows" =>
       \A n \in ToSet(sent[i].nodes), m \in ToSet(sent[j].nodes) : n.at <= m.at /\ n # m
    <3>1. ASSUME NEW i \in DOMAIN sent, NEW j \in DOMAIN sent, i < j, sent[i].f = "rows", sent[j].f = "rows"
          PROVE  \A n \in ToSet(sent[i].nodes), m \in ToSet(sent[j].nodes) : n.at <= m.at /\ n # m
      <4>1. i \in DOMAIN F /\ j \in DOMAIN F /\ sent[i] = F[i] /\ sent[j] = F[j]
        BY <1>7, <3>1
      <4>2. \A n \in ToSet(F[i].nodes), m \in ToSet(F[j].nodes) : n.at <= m.at /\ n # m
        BY <3>1, <4>1 DEF Carries
      <4>3. QED
        BY <4>1, <4>2
    <3>2. QED
      BY <3>1
  <2>3. \A n \in N : \E j \in DOMAIN sent : sent[j].f = "rows" /\ n \in ToSet(sent[j].nodes)
    BY <1>6 DEF Carries
  <2>4. /\ \A j \in DOMAIN sent : sent[j].f = "patch" => sent[j].ids \subseteq P /\ P # {}
        /\ \A i, j \in DOMAIN sent : sent[i].f = "patch" /\ sent[j].f = "patch" => i = j
    BY <1>5
  <2>5. \A j \in DOMAIN sent : sent[j].f \in {"rows", "patch"}
    BY <1>5
  <2>6. QED
    BY <1>4, <2>1, <2>2, <2>3, <2>4, <2>5 DEF Carries

\* Frames that begin with a hello or a reset.
Opens(sent, first, F) == sent = <<first>> \o F

\* What is sent when a stream begins: a hello or a reset, then the rows.
LEMMA WindowSent ==
  ASSUME NEW N, NEW from, NEW F, Carries(F, N, from, {}), \A j \in DOMAIN F : F[j].f = "rows",
         NEW first \in Frames, first.f \in {"hello", "reset"}, NEW sent, Opens(sent, first, F)
  PROVE  /\ Carries(sent, N, from, {}) /\ sent # <<>> /\ sent[1] = first
         /\ \A j \in DOMAIN sent : j # 1 => sent[j].f = "rows"
<1>3. F \in Seq(Frames) /\ Len(F) \in Nat /\ <<first>> \in Seq(Frames) /\ Len(<<first>>) = 1 /\ <<first>>[1] = first
  BY DEF Carries
<1>4. /\ sent \in Seq(Frames) /\ Len(sent) = 1 + Len(F)
      /\ \A i \in 1 .. 1 : sent[i] = <<first>>[i]
      /\ \A i \in 1 .. Len(F) : sent[1 + i] = F[i]
  <2>1. sent = <<first>> \o F
    BY DEF Opens
  <2>2. QED
    BY <1>3, <2>1, ConcatProperties
<1>5. sent[1] = first /\ sent # <<>>
  BY <1>3, <1>4
<1>6. \A i \in DOMAIN F : 1 + i \in DOMAIN sent /\ sent[1 + i] = F[i] /\ 1 + i # 1
  BY <1>3, <1>4
<1>7. \A j \in DOMAIN sent : j # 1 => \E i \in DOMAIN F : j = 1 + i
  <2>1. ASSUME NEW j \in DOMAIN sent, j # 1 PROVE \E i \in DOMAIN F : j = 1 + i
    <3>1. j - 1 \in DOMAIN F /\ j = 1 + (j - 1)
      BY <1>3, <1>4, <2>1
    <3>2. QED
      BY <3>1
  <2>2. QED
    BY <2>1
<1>8. \A j \in DOMAIN sent : sent[j].f \in {"rows", "patch"} => \E i \in DOMAIN F : j = 1 + i /\ sent[j] = F[i]
  BY <1>5, <1>6, <1>7
<1>9. \A j \in DOMAIN sent : j # 1 => sent[j].f = "rows"
  BY <1>6, <1>7
<1>10. QED
  <2>1. \A j \in DOMAIN sent : sent[j].f = "rows" =>
       /\ sent[j].nodes # <<>> /\ sent[j].nodes \in Seq(AnyNode) /\ sent[j].from = from
       /\ \A i, k \in DOMAIN sent[j].nodes : i < k => sent[j].nodes[i].at <= sent[j].nodes[k].at
       /\ \A n \in ToSet(sent[j].nodes) : n \in N
    <3>1. ASSUME NEW j \in DOMAIN sent, sent[j].f = "rows"
          PROVE /\ sent[j].nodes # <<>> /\ sent[j].nodes \in Seq(AnyNode) /\ sent[j].from = from
                /\ \A i, k \in DOMAIN sent[j].nodes : i < k => sent[j].nodes[i].at <= sent[j].nodes[k].at
                /\ \A n \in ToSet(sent[j].nodes) : n \in N
      <4>1. PICK i \in DOMAIN F : sent[j] = F[i]
        BY <1>8, <3>1
      <4>2. QED
        BY <3>1, <4>1 DEF Carries
    <3>2. QED
      BY <3>1
  <2>2. ASSUME NEW i \in DOMAIN sent, NEW j \in DOMAIN sent, i < j, sent[i].f = "rows", sent[j].f = "rows",
               NEW n \in ToSet(sent[i].nodes), NEW m \in ToSet(sent[j].nodes)
        PROVE  n.at <= m.at /\ n # m
    <3>1. PICK x \in DOMAIN F : i = 1 + x /\ sent[i] = F[x]
      BY <1>8, <2>2
    <3>2. PICK y \in DOMAIN F : j = 1 + y /\ sent[j] = F[y]
      BY <1>8, <2>2
    <3>3. x < y
      BY <1>3, <2>2, <3>1, <3>2
    <3>4. QED
      BY <2>2, <3>1, <3>2, <3>3 DEF Carries
  <2>3. ASSUME NEW n \in N PROVE \E j \in DOMAIN sent : sent[j].f = "rows" /\ n \in ToSet(sent[j].nodes)
    <3>1. PICK i \in DOMAIN F : F[i].f = "rows" /\ n \in ToSet(F[i].nodes)
      BY DEF Carries
    <3>2. 1 + i \in DOMAIN sent /\ sent[1 + i].f = "rows" /\ n \in ToSet(sent[1 + i].nodes)
      BY <1>6, <3>1
    <3>3. QED
      BY <3>2
  <2>4. \A j \in DOMAIN sent : sent[j].f # "patch"
    BY <1>5, <1>9
  <2>5. QED
    BY <1>4, <1>5, <1>9, <2>1, <2>2, <2>3, <2>4 DEF Carries

\* What the frames that are sent are on the channel.
LEMMA EmitIs ==
  ASSUME chan \in Seq(Envelopes), seq \in Nat, NEW sent \in Seq(Frames), NEW ver \in Nat, Emit(sent, ver)
  PROVE  /\ chan' \in Seq(Envelopes) /\ seq' \in Nat /\ Len(chan') = Len(chan) + Len(sent)
         /\ \A j \in DOMAIN chan : j \in DOMAIN chan' /\ chan'[j] = chan[j]
         /\ \A j \in DOMAIN sent : /\ Len(chan) + j \in DOMAIN chan' /\ chan'[Len(chan) + j].ver = ver
                                   /\ chan'[Len(chan) + j].frame = sent[j]
         /\ \A k \in DOMAIN chan' : k \in DOMAIN chan \/ \E j \in DOMAIN sent : k = Len(chan) + j
<1> DEFINE E == [j \in DOMAIN sent |-> [id |-> seq + j, ver |-> ver, frame |-> sent[j]]]
<1>1. chan' = chan \o E /\ seq' = seq + Len(sent)
  BY DEF Emit
<1>2. Len(sent) \in Nat /\ DOMAIN sent = 1 .. Len(sent) /\ Len(chan) \in Nat /\ DOMAIN chan = 1 .. Len(chan)
  OBVIOUS
<1>3. \A j \in DOMAIN sent : E[j].ver = ver /\ E[j].frame = sent[j] /\ E[j] \in Envelopes
  BY <1>2 DEF Envelopes
<1>4. E \in Seq(Envelopes) /\ Len(E) = Len(sent) /\ DOMAIN E = DOMAIN sent
  <2>1. DOMAIN E = 1 .. Len(sent)
    BY <1>2
  <2>2. E \in [1 .. Len(sent) -> Envelopes]
    BY <1>2, <1>3, Zenon
  <2> HIDE DEF E
  <2>3. QED
    BY <1>2, <2>1, <2>2
<1> HIDE DEF E
<1>5. /\ chan' \in Seq(Envelopes) /\ Len(chan') = Len(chan) + Len(sent)
      /\ \A i \in 1 .. Len(chan) : chan'[i] = chan[i]
      /\ \A i \in 1 .. Len(sent) : chan'[Len(chan) + i] = E[i]
  <2>1. PICK c, e, d : c = chan /\ e = E /\ d = chan'
    OBVIOUS
  <2>2. c \in Seq(Envelopes) /\ e \in Seq(Envelopes) /\ d = c \o e
    BY <1>1, <1>4, <2>1
  <2>3. /\ d \in Seq(Envelopes) /\ Len(d) = Len(c) + Len(e)
        /\ \A i \in 1 .. Len(c) : d[i] = c[i]
        /\ \A i \in 1 .. Len(e) : d[Len(c) + i] = e[i]
    BY <2>2, ConcatProperties
  <2>4. QED
    BY <1>4, <2>1, <2>3
<1>6. DOMAIN chan' = 1 .. Len(chan) + Len(sent)
  BY <1>5
<1>7. \A k \in DOMAIN chan' : k \in DOMAIN chan \/ \E j \in DOMAIN sent : k = Len(chan) + j
  <2>1. ASSUME NEW k \in DOMAIN chan', k \notin DOMAIN chan PROVE \E j \in DOMAIN sent : k = Len(chan) + j
    <3>1. k - Len(chan) \in DOMAIN sent /\ k = Len(chan) + (k - Len(chan))
      BY <1>2, <1>6, <2>1
    <3>2. QED
      BY <3>1
  <2>2. QED
    BY <2>1
<1>8. QED
  <2>1. seq' \in Nat
    BY <1>1, <1>2
  <2>2. \A j \in DOMAIN chan : j \in DOMAIN chan' /\ chan'[j] = chan[j]
    BY <1>2, <1>5, <1>6
  <2>3. \A j \in DOMAIN sent : Len(chan) + j \in DOMAIN chan'
    BY <1>2, <1>6
  <2>4. \A j \in DOMAIN sent : chan'[Len(chan) + j].ver = ver /\ chan'[Len(chan) + j].frame = sent[j]
    BY <1>2, <1>3, <1>5
  <2>5. QED
    BY <1>5, <1>7, <2>1, <2>2, <2>3, <2>4

\* What a stream begins with.
Begun(b, t, P, sent, first, from, N, ino) ==
  /\ t \in Tails /\ t.inode = ino /\ Follows(b, t) /\ Calls(b, P)
  /\ from \in Nat /\ from <= t.ackOffset /\ Clean(b, from)
  /\ Emission(b, from, t.ackOffset, from, ino, N) /\ WindowTells(b, t.ackOffset, N)
  /\ Carries(sent, N, from, {}) /\ sent # <<>> /\ sent[1] = first
  /\ \A j \in DOMAIN sent : j # 1 => sent[j].f = "rows"

\* The nodes of the rows between two places are all that is sent up to a place
\* before which no other row ends.
LEMMA NodesEmitted ==
  ASSUME NEW b \in Seq(Byte), NEW from \in Nat, NEW to \in Nat, NEW a \in Nat, NEW ino,
         NEW N, NodesOf(b, from, to, ino, N), to <= a, a <= Len(b), NoEndIn(b, to, Len(b))
  PROVE  Emission(b, from, a, from, ino, N)
<1>1. /\ IsFiniteSet(N) /\ N \subseteq AnyNode
      /\ \A n \in N : n.ino = ino /\ from <= n.at /\ n.at < to /\ Valid(b, n)
      /\ \A n, m \in N : n.at = m.at => n = m
      /\ \A s \in ShownAts(b) : from <= s /\ s < to => s \in Ats(N)
  BY DEF NodesOf
<1>2. \A n \in N : n.at \in Nat
  BY <1>1 DEF AnyNode
<1>3. \A n \in N : n.at < a /\ FitsFrom(b, n, from)
  BY <1>1, <1>2 DEF FitsFrom
<1>4. ASSUME NEW s \in ShownAts(b), from <= s, s < a PROVE s \in Ats(N)
  <2>1. PICK e : IsRow(b, s, e)
    BY ShownAre
  <2>2. s \in Nat /\ e \in Ends(b) /\ s < e /\ e <= Len(b) /\ e \in Nat /\ Len(b) \in Nat
    BY <2>1, RowBounds, EndsAre DEF IsRow
  <2>3. e <= to \/ Len(b) < e
    BY <2>2 DEF NoEndIn
  <2>4. s < to
    BY <2>2, <2>3
  <2>5. QED
    BY <1>1, <1>4, <2>4
<1>5. QED
  BY <1>1, <1>3, <1>4 DEF Emission

\* A tail that follows the file after its last window.
Seeded(t, eof, seed, ino) ==
  t = [NoTail EXCEPT !.offset = eof, !.carry = seed, !.ackOffset = eof - Len(seed), !.inode = ino]

\* What seedFromWindow leaves.
LEMMA SeedFollows ==
  ASSUME NEW b \in Seq(Byte), NEW to \in Starts(b), NoEndIn(b, to, Len(b)), NEW ino \in Nat,
         NEW seed, seed = CarrySeed(b, to, Len(b)),
         NEW t, Seeded(t, Len(b), seed, ino)
  PROVE  t \in Tails /\ t.inode = ino /\ Follows(b, t) /\ to <= t.ackOffset /\ t.ackOffset <= Len(b)
<1>1. PICK ack : ack = Len(b) - Len(seed)
  OBVIOUS
<1>2. /\ ack \in Nat /\ to <= ack /\ ack <= Len(b) /\ seed \in Seq(Byte)
      /\ seed = SubSeq(b, ack + 1, Len(b))
      /\ Clean(b, ack) /\ NoEndIn(b, ack, Len(b))
  BY <1>1, SeedIs
<1>3. t = [offset |-> Len(b), carry |-> seed, ackOffset |-> ack, inode |-> ino,
           skipping |-> FALSE, rowStart |-> 0]
  BY <1>1 DEF NoTail, Seeded
<1>4. /\ t.offset = Len(b) /\ t.carry = seed /\ t.ackOffset = ack /\ t.inode = ino
      /\ t.skipping = FALSE /\ t.rowStart = 0
  BY <1>3
<1>5. seed \in Seq(Byte) /\ ack \in Nat /\ ack <= Len(b) /\ to <= ack
  BY <1>2
<1>11. Len(b) \in Nat /\ Len(seed) \in Nat
  BY <1>5
<1>6. t \in Tails
  BY <1>3, <1>5, <1>11 DEF Tails
<1>7. t.ackOffset = t.offset - Len(t.carry) /\ Len(t.carry) <= t.offset
  <2>1. Len(t.carry) = Len(seed)
    BY <1>4
  <2>2. QED
    BY <1>1, <1>4, <1>5, <1>11, <2>1
<1>8. t.carry = SubSeq(b, t.offset - Len(t.carry) + 1, t.offset)
  <2>1. seed = SubSeq(b, ack + 1, Len(b))
    BY <1>2
  <2>2. t.offset - Len(t.carry) = ack
    BY <1>4, <1>7
  <2>3. QED
    BY <1>4, <2>1, <2>2, Zenon
<1>12. Clean(b, ack) /\ NoEndIn(b, ack, Len(b))
  BY <1>2
<1>9. Follows(b, t)
  BY <1>4, <1>5, <1>7, <1>8, <1>11, <1>12 DEF Follows
<1>10. QED
  BY <1>4, <1>5, <1>6, <1>9

\* A hello or a reset begins with what the file's last window holds.
LEMMA WindowBegins ==
  ASSUME NEW b \in Seq(Byte), IsTranscript(b), NEW ino \in Nat, NEW W, W = FindWindow(b, Len(b), Limit),
         NEW R, R = Pair(WindowCandidates(W, ino), {}),
         NEW N, N = Completed(R.nodes, R.patches),
         NEW t, Seeded(t, Len(b), W.carrySeed, ino),
         NEW first \in Frames, first.f \in {"hello", "reset"},
         NEW sent, Opens(sent, first, RowsFrames(InFileOrder(N), W.from))
  PROVE  Begun(b, t, R.pending, sent, first, W.from, N, ino)
<1>0. Len(b) \in Nat /\ Limit \in Nat \ {0}
  BY SizesAssumption
<1>1. /\ W.to \in Starts(b) /\ W.to \in Nat /\ W.to <= Len(b) /\ NoEndIn(b, W.to, Len(b))
      /\ W.from \in Starts(b) /\ W.from \in Nat /\ W.from <= W.to
      /\ W.carrySeed = CarrySeed(b, W.to, Len(b))
  BY <1>0, WindowIs
<1>2. /\ NodesOf(b, W.from, W.to, ino, N)
      /\ R.patches \subseteq CallAts(b) /\ Ats(R.pending) \subseteq CallAts(b)
      /\ R.pending \subseteq AnyNode /\ \A c \in R.pending : c.k = "call"
  BY <1>0, WindowNodes
<1>3. PICK to, from, seed :
        to \in Starts(b) /\ from \in Starts(b) /\ to = W.to /\ from = W.from /\ seed = W.carrySeed
  BY <1>1
<1>4. /\ to \in Starts(b) /\ from \in Starts(b)
      /\ to \in Nat /\ from \in Nat /\ to <= Len(b) /\ from <= to /\ NoEndIn(b, to, Len(b))
      /\ seed = CarrySeed(b, to, Len(b)) /\ NodesOf(b, from, to, ino, N)
  <2>1. to \in Nat /\ from \in Nat /\ to <= Len(b) /\ from <= to /\ NoEndIn(b, to, Len(b))
    BY <1>1, <1>3
  <2>2. seed = CarrySeed(b, to, Len(b))
    BY <1>1, <1>3, Zenon
  <2>3. NodesOf(b, from, to, ino, N)
    BY <1>2, <1>3
  <2>4. QED
    BY <1>3, <2>1, <2>2, <2>3
<1>5. Seeded(t, Len(b), seed, ino)
  BY <1>3
<1>6. t \in Tails /\ t.inode = ino /\ Follows(b, t) /\ to <= t.ackOffset /\ t.ackOffset <= Len(b)
  BY <1>4, <1>5, SeedFollows
<1>7. t.ackOffset \in Nat
  BY <1>6 DEF Tails
<1>8. Emission(b, from, t.ackOffset, from, ino, N)
  <2>1. PICK a \in Nat : a = t.ackOffset
    BY <1>7
  <2>2. to <= a /\ a <= Len(b)
    BY <1>6, <2>1
  <2>3. Emission(b, from, a, from, ino, N)
    BY <1>4, <2>2, NodesEmitted
  <2>4. QED
    BY <2>1, <2>3
<1>9. Calls(b, R.pending)
  <2>1. \A c \in R.pending : c.at \in Ats(R.pending)
    BY DEF Ats
  <2>2. QED
    BY <1>2, <2>1, Zenon DEF Calls
<1>10. PICK F : F = RowsFrames(InFileOrder(N), from)
  OBVIOUS
<1>11. Carries(F, N, from, {}) /\ \A j \in DOMAIN F : F[j].f = "rows"
  BY <1>4, <1>8, <1>10, RowsSent
<1>12. Opens(sent, first, F)
  BY <1>3, <1>10
<1>13. /\ Carries(sent, N, from, {}) /\ sent # <<>> /\ sent[1] = first
       /\ \A j \in DOMAIN sent : j # 1 => sent[j].f = "rows"
  BY <1>11, <1>12, WindowSent
<1>14. Clean(b, from) /\ from <= t.ackOffset
  BY <1>4, <1>6, <1>7, StartIsClean
<1>15. WindowTells(b, t.ackOffset, N)
  <2>1. WindowTells(b, W.to, N)
    BY <1>0, WindowTellsIs
  <2>2. \A r \in ResultAts(b) : r \in Nat
    BY ResultAtsAre
  <2>3. W.to \in Nat /\ W.to <= t.ackOffset
    BY <1>1, <1>3, <1>6
  <2>4. \A r \in ResultAts(b) : r < W.to => r < t.ackOffset
    BY <1>7, <2>2, <2>3
  <2>5. QED
    BY <2>1, <2>4 DEF WindowTells
<1>16. QED
  BY <1>3, <1>4, <1>6, <1>8, <1>9, <1>13, <1>14, <1>15 DEF Begun

\* The parts of a tick, as TickRows names them.
ReadTo(b, t, end)        == end = Min({Len(b), t.offset + TickReadCap})
Ticked(tick, t, d, ino)  == tick = AdvanceTail(t, d, ino)

\* q is the complete rows among the bytes of a tick.
ConfirmedOf(t, d, z, u, q) == q = SubSeq(t.carry \o d, 1, u.ackOffset - z)
NodesFor(tick, z, q, ino, N) ==
  N = {Node(z + row.at, ParsedKind(row.text), ino) : row \in Rows(q)}
        \cup {Node(at, "oversized", ino) : at \in tick.oversized}

\* What a tick that reads rows does.
Advances(b, t, u, z, ino, R) ==
  /\ u \in Tails /\ Follows(b, u) /\ u.inode = ino /\ t.ackOffset <= u.ackOffset
  /\ z \in Nat /\ Clean(b, z) /\ t.ackOffset <= z
  /\ Emission(b, t.ackOffset, u.ackOffset, z, ino, R.nodes)
  /\ R.patches \subseteq CallAts(b) /\ Calls(b, R.pending)
  /\ TickTells(b, t.ackOffset, u.ackOffset, R.nodes, R.patches)

\* A tick reads on from where the tail stands.
LEMMA TickParts ==
  ASSUME NEW b \in Seq(Byte), NEW t \in Tails, Follows(b, t),
         NEW end, ReadTo(b, t, end), NEW d, ChunkOf(b, t, end, d), NEW z, BaseOf(t, z),
         NEW c, JoinedBytes(t, d, c)
  PROVE  /\ end \in Nat /\ t.offset <= end /\ end <= Len(b) /\ z \in Nat /\ c \in Seq(Byte)
         /\ t.offset + Len(d) = end
         /\ Based(b, t, z) /\ Joined(b, z, end, c)
<1>1. t.offset \in Nat /\ Len(b) \in Nat /\ TickReadCap \in Nat /\ t.offset <= Len(b) /\ t.carry \in Seq(Byte)
      /\ Len(t.carry) \in Nat /\ Len(t.carry) <= t.offset
  BY SizesAssumption DEF Tails, Follows
<1>2. end \in Nat /\ t.offset <= end /\ end <= Len(b)
  <2>1. PICK x \in Nat, y \in Nat : x = Len(b) /\ y = t.offset + TickReadCap
    BY <1>1
  <2>2. end = Min({x, y})
    BY <2>1 DEF ReadTo
  <2>3. end = IF x <= y THEN x ELSE y
    BY <2>2, OfTwo
  <2>4. QED
    BY <1>1, <2>1, <2>3
<1>3. Based(b, t, z)
  BY BaseIs DEF Based, BaseOf
<1>4. z \in Nat /\ z <= t.offset
  BY <1>3 DEF Based
<1>6. c \in Seq(Byte) /\ Len(c) = end - z /\ \A i \in 1 .. end - z : c[i] = b[z + i]
  BY <1>2, TickBytes
<1>7. Joined(b, z, end, c)
  BY <1>2, <1>4, <1>6 DEF Joined
<1>8. t.offset + Len(d) = end
  <2>1. PICK x \in Nat : x = t.offset
    BY <1>1
  <2>5. x <= end
    BY <1>2, <2>1
  <2>6. /\ SubSeq(b, x + 1, end) \in Seq(Byte) /\ Len(SubSeq(b, x + 1, end)) = end - x
        /\ \A i \in 1 .. end - x : SubSeq(b, x + 1, end)[i] = b[x + i]
    BY <1>2, <2>5, SliceIs, Zenon
  <2>2. Len(SubSeq(b, x + 1, end)) = end - x
    BY <2>6
  <2>3. Len(d) = end - x
    BY <2>1, <2>2 DEF ChunkOf
  <2>4. QED
    BY <1>2, <2>1, <2>3
<1>9. QED
  BY <1>2, <1>3, <1>4, <1>6, <1>7, <1>8

\* Where the tail stands after a tick, and which rows the tick gave up as too large.
LEMMA TickAdvanced ==
  ASSUME NEW t, NEW d, NEW ino, NEW tick, Ticked(tick, t, d, ino), NEW z, BaseOf(t, z),
         NEW c, JoinedBytes(t, d, c)
  PROVE  /\ Advanced(t, z, c, ino, tick.state)
         /\ tick.state.offset = t.offset + Len(d)
         /\ tick.oversized = {IF t.skipping /\ row.at = 0 THEN t.rowStart ELSE z + row.at :
                                row \in {r \in Rows(c) : Len(r.text) > RowCap \/ (t.skipping /\ r.at = 0)}}
<1> DEFINE rest     == SubSeq(c, Confirmed(c) + 1, Len(c))
           still    == t.skipping /\ Rows(c) = {}
           skipping == still \/ Len(rest) > RowCap
<1>1. PICK u, o : u = tick.state /\ o = tick.oversized
  OBVIOUS
<1>2. tick = [state |-> [offset    |-> t.offset + Len(d),
                         carry     |-> IF skipping THEN <<>> ELSE rest,
                         ackOffset |-> IF Rows(c) = {} THEN t.ackOffset ELSE z + Confirmed(c),
                         inode     |-> ino,
                         skipping  |-> skipping,
                         rowStart  |-> IF still THEN t.rowStart
                                       ELSE IF skipping THEN z + Confirmed(c) ELSE 0],
              oversized |-> {IF t.skipping /\ row.at = 0 THEN t.rowStart ELSE z + row.at :
                                row \in {r \in Rows(c) : Len(r.text) > RowCap \/ (t.skipping /\ r.at = 0)}}]
  <2>1. c = t.carry \o d /\ z = t.offset - Len(t.carry) /\ tick = AdvanceTail(t, d, ino)
    BY DEF JoinedBytes, BaseOf, Ticked
  <2>2. QED
    BY <2>1 DEF AdvanceTail, AbsBase
<1> HIDE DEF rest, still, skipping
<1>3. u = [offset    |-> t.offset + Len(d),
           carry     |-> IF skipping THEN <<>> ELSE rest,
           ackOffset |-> IF Rows(c) = {} THEN t.ackOffset ELSE z + Confirmed(c),
           inode     |-> ino,
           skipping  |-> skipping,
           rowStart  |-> IF still THEN t.rowStart
                         ELSE IF skipping THEN z + Confirmed(c) ELSE 0]
  BY <1>1, <1>2
<1>4. o = {IF t.skipping /\ row.at = 0 THEN t.rowStart ELSE z + row.at :
             row \in {r \in Rows(c) : Len(r.text) > RowCap \/ (t.skipping /\ r.at = 0)}}
  BY <1>1, <1>2
<1>5. /\ u.offset = t.offset + Len(d) /\ u.carry = (IF skipping THEN <<>> ELSE rest)
      /\ u.ackOffset = (IF Rows(c) = {} THEN t.ackOffset ELSE z + Confirmed(c))
      /\ u.inode = ino /\ u.skipping = skipping
      /\ u.rowStart = (IF still THEN t.rowStart ELSE IF skipping THEN z + Confirmed(c) ELSE 0)
  BY <1>3
<1>6. u = [offset |-> u.offset, carry |-> u.carry, ackOffset |-> u.ackOffset, inode |-> u.inode,
           skipping |-> u.skipping, rowStart |-> u.rowStart]
  BY <1>3
<1>7. Advanced(t, z, c, ino, u)
  BY <1>5, <1>6 DEF Advanced, rest, still, skipping
<1>8. QED
  BY <1>1, <1>4, <1>5, <1>7

\* A tick takes the tail to another place of the file and emits what is between.
LEMMA TickIs ==
  ASSUME NEW b \in Seq(Byte), IsTranscript(b), NEW t \in Tails, Follows(b, t), NEW ino \in Nat,
         NEW end, ReadTo(b, t, end), NEW d, ChunkOf(b, t, end, d), NEW tick, Ticked(tick, t, d, ino),
         NEW z, BaseOf(t, z), NEW q, ConfirmedOf(t, d, z, tick.state, q),
         NEW N, NodesFor(tick, z, q, ino, N), NEW P, Calls(b, P), NEW R, R = Pair(N, P)
  PROVE  Advances(b, t, tick.state, z, ino, R)
<1>1. PICK c : JoinedBytes(t, d, c)
  BY DEF JoinedBytes
<1>2. /\ end \in Nat /\ t.offset <= end /\ end <= Len(b) /\ z \in Nat /\ c \in Seq(Byte)
      /\ t.offset + Len(d) = end
      /\ Based(b, t, z) /\ Joined(b, z, end, c)
  BY <1>1, TickParts
<1>3. /\ Advanced(t, z, c, ino, tick.state)
      /\ tick.state.offset = t.offset + Len(d)
      /\ tick.oversized = {IF t.skipping /\ row.at = 0 THEN t.rowStart ELSE z + row.at :
                             row \in {r \in Rows(c) : Len(r.text) > RowCap \/ (t.skipping /\ r.at = 0)}}
  BY <1>1, TickAdvanced
<1>4. PICK u : u = tick.state
  OBVIOUS
<1>5. Advanced(t, z, c, ino, u) /\ u.offset = end
  BY <1>2, <1>3, <1>4
<1>6. /\ u \in Tails /\ Follows(b, u) /\ t.ackOffset <= u.ackOffset
      /\ u.ackOffset = IF Ends(c) = {} THEN t.ackOffset ELSE z + Confirmed(c)
  BY <1>2, <1>5, TickState
<1>7. u.ackOffset \in Nat /\ t.ackOffset \in Nat /\ t.ackOffset <= z /\ Clean(b, z)
  BY <1>2, <1>6 DEF Tails, Based
<1>8. Rows(q) = Rows(c)
  <2>1. PICK a \in Int : a = u.ackOffset - z
    BY <1>2, <1>7
  <2>2. Confirmed(c) \in Nat
    BY <1>2, ConfirmedIs
  <2>3. a = Confirmed(c) \/ (a <= 0 /\ Ends(c) = {})
    BY <1>2, <1>6, <1>7, <2>1, <2>2
  <2>4. q = SubSeq(c, 1, a)
    BY <1>1, <1>4, <2>1 DEF ConfirmedOf, JoinedBytes
  <2>5. Rows(SubSeq(c, 1, a)) = Rows(c)
    BY <1>2, <2>3, RowsOfConfirmed
  <2>6. QED
    BY <2>4, <2>5
<1>9. TickNodesOf(t, z, c, ino, N)
  BY <1>3, <1>8, Zenon DEF TickNodesOf, NodesFor
<1>10. PICK a \in Nat : a = u.ackOffset
  BY <1>7
<1>11. (Ends(c) = {} => a = t.ackOffset) /\ (Ends(c) # {} => a = z + Confirmed(c))
  BY <1>6, <1>10
<1>12. /\ Emission(b, t.ackOffset, a, z, ino, R.nodes)
       /\ R.patches \subseteq CallAts(b) /\ Calls(b, R.pending)
       /\ TickTells(b, t.ackOffset, a, R.nodes, R.patches)
  BY <1>2, <1>9, <1>11, TickNodes
<1>13. u.inode = ino
  BY <1>5 DEF Advanced
<1>14. Advances(b, t, u, z, ino, R)
  BY <1>2, <1>6, <1>7, <1>10, <1>12, <1>13 DEF Advances
<1>15. QED
  BY <1>4, <1>14

-----------------------------------------------------------------------------
(* Steps that leave alone what a part of the invariant speaks of           *)

\* Each part of the invariant, for a step that changes nothing it speaks of.
LEMMA TypedSame ==
  ASSUME Typed, UNCHANGED <<file, tail, pending, seq, lastSeq, connections, chan, conn, store, request, reloaded>>
  PROVE  Typed'
BY DEF Typed

LEMMA VersionsSame ==
  ASSUME Versions, UNCHANGED <<file, tail, connections, chan, conn, store>>
  PROVE  Versions'
BY DEF Versions, Kind, Begins, Synced

LEMMA TailFitsSame ==
  ASSUME TailFits, UNCHANGED <<file, tail, conn, pending>>
  PROVE  TailFits'
BY DEF TailFits, Live

LEMMA InSequenceSame ==
  ASSUME InSequence, UNCHANGED <<tail, chan>>
  PROVE  InSequence'
BY DEF InSequence, IsRows, Kind, Sent

LEMMA FramesValidSame ==
  ASSUME FramesValid, UNCHANGED <<file, chan>>
  PROVE  FramesValid'
BY DEF FramesValid, IsRows, Kind, Sent

LEMMA HelloFitsSame ==
  ASSUME HelloFits, UNCHANGED <<file, tail, conn, chan>>
  PROVE  HelloFits'
BY DEF HelloFits, IsRows, Kind, Sent, UnderWay, Live, Shown

LEMMA FirstFramesSame ==
  ASSUME FirstFrames, UNCHANGED <<file, tail, conn, connections, chan, store, torn>>
  PROVE  FirstFrames'
BY DEF FirstFrames, IsRows, Kind, Sent, UnderWay, Live, Shown, Synced, Good

LEMMA WindowFitsSame ==
  ASSUME WindowFits, UNCHANGED <<tail, conn, connections, chan, store, torn, reloaded>>
  PROVE  WindowFits'
BY DEF WindowFits, IsRows, Kind, Sent, UnderWay, Synced, Good, InStore

LEMMA WindowCoversSame ==
  ASSUME WindowCovers, UNCHANGED <<file, tail, conn, connections, chan, store, torn>>
  PROVE  WindowCovers'
BY DEF WindowCovers, IsRows, Kind, Sent, UnderWay, Live, Shown, Synced, Good, InStore, Anchored

LEMMA EarlierFitsSame ==
  ASSUME EarlierFits, UNCHANGED <<file, request, store, torn>>
  PROVE  EarlierFits'
BY DEF EarlierFits, Shown, Good, InStore, Open

LEMMA TailPageFitsSame ==
  ASSUME TailPageFits, UNCHANGED <<file, tail, conn, connections, chan, request, store, torn>>
  PROVE  TailPageFits'
BY DEF TailPageFits, IsRows, Kind, Sent, UnderWay, Live, Shown, Synced, Good, InStore, Open

-----------------------------------------------------------------------------
(* The stream is not there, breaks off, or its file goes                   *)

\* A browser that has not connected shows nothing.
LEMMA InitIInv == Init => IInv
<1> SUFFICES ASSUME Init PROVE IInv
  OBVIOUS
<1>1. PICK c \in Contents : file = [ino |-> 1, bytes |-> c]
  BY DEF Init
<1>2. IsTranscript(c) /\ file.ino = 1 /\ file.bytes = c
  BY <1>1, ContentsAssumption
<1>3. c \in Seq(Byte)
  BY <1>2 DEF IsTranscript
<1>4. /\ tail = NoTail /\ pending = {} /\ seq = 0 /\ chan = <<>> /\ conn = "waiting" /\ connections = 0
      /\ lastSeq = 0 /\ store = EmptyStore /\ request = [r \in Requests |-> NoRequest]
      /\ reloaded = 0 /\ torn = {}
  BY DEF Init
<1>5. /\ store.nodes = <<>> /\ store.truncatedBefore = FALSE /\ store.following = TRUE
      /\ store.newBelow = 0 /\ store.ver = 0 /\ store.gen = 0
  BY <1>4 DEF EmptyStore
<1>6. \A r \in Requests : request[r].st # "asked" /\ DOMAIN request[r] = {"st", "raced", "page"}
  BY <1>4 DEF NoRequest
<1>7. DOMAIN chan = {} /\ ToSet(store.nodes) = {}
  BY <1>4, <1>5 DEF ToSet
<1>8. Typed
  <2>1. NoTail \in Tails
    BY DEF NoTail, Tails
  <2>2. EmptyStore \in Stores
    BY DEF EmptyStore, Stores
  <2>3. file \in [ino : Nat, bytes : Seq(Byte)]
    BY <1>1, <1>3
  <2>4. QED
    BY <1>2, <1>4, <1>6, <2>1, <2>2, <2>3 DEF Typed
<1>9. Versions
  BY <1>2, <1>4, <1>5, <1>7 DEF Versions, Synced
<1>10. TailFits /\ InSequence /\ FramesValid /\ HelloFits /\ FirstFrames
  BY <1>4, <1>7 DEF TailFits, Live, InSequence, FramesValid, HelloFits, FirstFrames
<1>11. WindowFits
  BY <1>4, <1>5, <1>7 DEF WindowFits, Synced, InStore, Ascends
<1>12. WindowCovers
  BY <1>2, <1>5 DEF WindowCovers
<1>13. EarlierFits /\ TailPageFits
  BY <1>6 DEF EarlierFits, TailPageFits, Open
<1>14. QED
  BY <1>8, <1>9, <1>10, <1>11, <1>12, <1>13 DEF IInv

\* The part of the invariant a request is in changes when it fails.
LEMMA FailKeeps ==
  ASSUME IInv, NEW r \in Requests, FailAnswer(r)
  PROVE  IInv'
<1>1. /\ request' = [request EXCEPT ![r] = NoRequest]
      /\ UNCHANGED <<file, tail, pending, seq, lastSeq, connections, chan, conn, store, reloaded, torn>>
  BY DEF FailAnswer, server, client, history
<1>2. DOMAIN request = Requests
  BY DEF IInv, Typed
<1>3. \A q \in Requests : request'[q].st = "asked" => request'[q] = request[q]
  BY <1>1, <1>2 DEF NoRequest
<1>4. \A q : Open(q)' => Open(q) /\ request'[q] = request[q]
  BY <1>3 DEF Open
<1>5. Typed'
  <2>1. \A q \in Requests : DOMAIN request'[q] = {"st", "raced", "page"}
    BY <1>1, <1>2 DEF IInv, Typed, NoRequest
  <2>2. QED
    BY <1>1, <1>2, <1>3, <2>1 DEF IInv, Typed
<1>6. Versions' /\ TailFits' /\ InSequence' /\ FramesValid' /\ HelloFits' /\ FirstFrames' /\ WindowFits' /\ WindowCovers'
  BY <1>1, VersionsSame, TailFitsSame, InSequenceSame, FramesValidSame, HelloFitsSame, FirstFramesSame,
     WindowFitsSame, WindowCoversSame DEF IInv
<1>7. EarlierFits'
  <2>1. SUFFICES ASSUME Open("earlier")', Good' PROVE EarlierFits'
    BY DEF EarlierFits
  <2>2. request'["earlier"] = request["earlier"] /\ Open("earlier") /\ Good
    BY <1>1, <1>4, <2>1 DEF Good
  <2>3. EarlierFits
    BY DEF IInv
  <2>4. QED
    BY <1>1, <2>2, <2>3 DEF EarlierFits, Shown, InStore
<1>8. TailPageFits'
  <2>1. SUFFICES ASSUME Open("tail")' PROVE TailPageFits'
    BY DEF TailPageFits
  <2>2. request'["tail"] = request["tail"] /\ Open("tail")
    BY <1>4, <2>1
  <2>3. TailPageFits
    BY DEF IInv
  <2>4. QED
    BY <1>1, <2>2, <2>3 DEF TailPageFits, IsRows, Kind, Sent, UnderWay, Live, Shown, Synced, Good, InStore
<1>9. QED
  BY <1>5, <1>6, <1>7, <1>8 DEF IInv

\* The poller fails and says so: the stream ends.
LEMMA PollerFailsKeeps ==
  ASSUME IInv, PollerFails
  PROVE  IInv'
<1>1. UNCHANGED <<file, tail, pending, seq, lastSeq, connections, chan, conn, store, request, reloaded, torn>>
  BY DEF PollerFails, client, asking, history
<1>2. QED
  BY <1>1, TypedSame, VersionsSame, TailFitsSame, InSequenceSame, FramesValidSame, HelloFitsSame, FirstFramesSame,
     WindowFitsSame, WindowCoversSame, EarlierFitsSame, TailPageFitsSame DEF IInv

\* The stream ends, whoever ended it: the window stays as it is.
LEMMA DisconnectKeeps ==
  ASSUME IInv, Disconnect
  PROVE  IInv'
<1>1. /\ conn' = "waiting" /\ tail' = NoTail /\ pending' = {} /\ seq' = 0 /\ chan' = <<>>
      /\ UNCHANGED <<file, connections, lastSeq, store, request, reloaded, torn>>
  BY DEF Disconnect, asking, history
<1>2. DOMAIN chan' = {} /\ tail'.inode = 0 /\ ~Synced' /\ ~Live'
  BY <1>1 DEF NoTail, Synced, Live
<1>3. Typed'
  <2>1. NoTail \in Tails
    BY DEF NoTail, Tails
  <2>2. QED
    BY <1>1, <2>1 DEF IInv, Typed
<1>4. Versions'
  BY <1>1, <1>2 DEF IInv, Versions
<1>5. TailFits' /\ InSequence' /\ FramesValid' /\ HelloFits' /\ FirstFrames'
  BY <1>1, <1>2 DEF TailFits, InSequence, FramesValid, HelloFits, FirstFrames
<1>6. WindowFits'
  BY <1>1, <1>2 DEF IInv, WindowFits, Good, InStore
<1>7. WindowCovers'
  BY <1>1, <1>2 DEF IInv, WindowCovers, Good, InStore, Anchored, Shown
<1>8. EarlierFits'
  BY <1>1, EarlierFitsSame DEF IInv
<1>9. TailPageFits'
  BY <1>1, <1>2 DEF IInv, TailPageFits, Good, InStore, Open, Shown
<1>10. QED
  BY <1>3, <1>4, <1>5, <1>6, <1>7, <1>8, <1>9 DEF IInv

\* When the path names another file, or none, what is held and under way is of no
\* version that it has.
LEMMA ReplacedKeeps ==
  ASSUME IInv, file' \in [ino : Nat, bytes : Seq(Byte)], IsTranscript(file'.bytes),
         file.ino # 0, file'.ino = 0 \/ file'.ino > file.ino,
         UNCHANGED <<server, chan, client, store, asking, history>>
  PROVE  IInv'
<1>1. UNCHANGED <<tail, pending, seq, lastSeq, connections, chan, conn, store, request, reloaded, torn>>
  BY DEF server, client, asking, history
<1>2. /\ file \in [ino : Nat, bytes : Seq(Byte)] /\ tail.inode \in Nat /\ store.ver \in Nat
      /\ \A j \in DOMAIN chan : chan[j].ver \in Nat
  <2>1. \A j \in DOMAIN chan : chan[j] \in Envelopes
    BY DEF IInv, Typed
  <2>2. \A j \in DOMAIN chan : chan[j].ver \in Nat
    BY <2>1 DEF Envelopes
  <2>3. tail.inode \in Nat /\ store.ver \in Nat
    BY DEF IInv, Typed, Tails, Stores
  <2>4. QED
    BY <2>2, <2>3 DEF IInv, Typed
<1>3. file.ino \in Nat /\ file'.ino \in Nat
  BY <1>2
<1>4. Typed'
  BY <1>1 DEF IInv, Typed
<1>5. Versions
  BY DEF IInv
<1>6. conn = "open" => file'.ino # tail.inode
  BY <1>2, <1>3, <1>5 DEF Versions
<1>7. ~Live'
  BY <1>1, <1>6 DEF Live
<1>8. \A j \in DOMAIN chan : chan'[j].ver # file'.ino
  <2>1. ASSUME NEW j \in DOMAIN chan PROVE chan'[j].ver # file'.ino
    <3>1. chan # <<>>
      BY <2>1 DEF IInv, Typed
    <3>2. conn # "waiting"
      BY <1>5, <3>1 DEF Versions
    <3>3. tail.inode <= file.ino /\ 1 <= chan[j].ver /\ chan[j].ver <= tail.inode
      BY <1>5, <3>2 DEF Versions
    <3>4. QED
      BY <1>1, <1>2, <1>3, <3>3
  <2>2. QED
    BY <2>1
<1>9. store.ver <= file.ino
  BY <1>5 DEF Versions
<1>10. file'.ino # 0 => store'.ver # file'.ino /\ store'.ver <= file'.ino
  BY <1>1, <1>2, <1>3, <1>9
<1>11. Versions'
  <2>1. conn' # "waiting" => tail'.inode >= 1 /\ (file'.ino = 0 \/ tail'.inode <= file'.ino)
    BY <1>1, <1>2, <1>3, <1>5 DEF Versions
  <2>2. QED
    BY <1>1, <1>5, <1>10, <2>1 DEF Versions, Kind, Begins, Synced
<1>12. TailFits' /\ FirstFrames'
  BY <1>7 DEF TailFits, FirstFrames
<1>13. InSequence'
  BY <1>1, InSequenceSame DEF IInv
<1>14. FramesValid'
  BY <1>1, <1>8 DEF FramesValid
<1>15. HelloFits'
  <2>1. SUFFICES ASSUME chan' # <<>>, Kind(1)' = "hello" PROVE HelloFits'
    BY DEF HelloFits
  <2>2. 1 \in DOMAIN chan
    BY <1>1, <2>1 DEF IInv, Typed
  <2>3. chan'[1].ver # file'.ino
    BY <1>8, <2>2
  <2>4. HelloFits
    BY DEF IInv
  <2>5. QED
    BY <1>1, <2>1, <2>3, <2>4 DEF HelloFits, UnderWay, IsRows, Kind, Sent
<1>16. WindowFits'
  BY <1>1, WindowFitsSame DEF IInv
<1>17. WindowCovers'
  BY <1>10 DEF WindowCovers
<1>18. EarlierFits'
  <2>1. EarlierFits
    BY DEF IInv
  <2>2. QED
    BY <1>1, <1>10, <2>1 DEF EarlierFits, Open, Good, InStore
<1>19. TailPageFits'
  <2>1. TailPageFits
    BY DEF IInv
  <2>2. QED
    BY <1>1, <1>10, <2>1 DEF TailPageFits, Open, Good, InStore
<1>20. QED
  BY <1>4, <1>11, <1>12, <1>13, <1>14, <1>15, <1>16, <1>17, <1>18, <1>19 DEF IInv

\* Another file takes the transcript's name: nothing of the old one is claimed of it.
LEMMA RotateKeeps ==
  ASSUME IInv, Rotate
  PROVE  IInv'
<1>1. PICK c \in Contents : file' = [ino |-> file.ino + 1, bytes |-> c]
  BY DEF Rotate
<1>2. IsTranscript(c) /\ c \in Seq(Byte)
  BY ContentsAssumption DEF IsTranscript
<1>3. file.ino \in Nat
  BY DEF IInv, Typed
<1>4. file' \in [ino : Nat, bytes : Seq(Byte)] /\ IsTranscript(file'.bytes) /\ file'.ino > file.ino
  BY <1>1, <1>2, <1>3
<1>5. QED
  BY <1>4, ReplacedKeeps DEF Rotate

\* The transcript is deleted.
LEMMA DeleteKeeps ==
  ASSUME IInv, Delete
  PROVE  IInv'
<1>1. file' = [ino |-> 0, bytes |-> <<>>]
  BY DEF Delete
<1>2. file' \in [ino : Nat, bytes : Seq(Byte)] /\ IsTranscript(file'.bytes) /\ file'.ino = 0
  BY <1>1 DEF IsTranscript
<1>3. QED
  BY <1>2, ReplacedKeeps DEF Delete

-----------------------------------------------------------------------------
(* The session writes a byte                                               *)

\* b with another byte at its end.
Appended(b, y, c) == c = Append(b, y)

\* Grow and GrowNode, of a byte that the session wrote.
LEMMA GrowKeeps ==
  ASSUME NEW b \in Seq(Byte), NEW y \in Byte, NEW c, Appended(b, y, c)
  PROVE  /\ Len(b) \in Nat /\ CallAts(b) \subseteq CallAts(c)
         /\ Confirmed(b) \in Nat /\ Confirmed(c) \in Nat /\ Confirmed(b) <= Confirmed(c)
         /\ \A s \in ShownAts(c) : s \in ShownAts(b) \/ s = Confirmed(b)
         /\ \A a : Clean(b, a) => Clean(c, a) /\ \A s \in ShownAts(c) : s < a => s \in ShownAts(b)
         /\ \A n \in AnyNode : Valid(b, n) => /\ Valid(c, n)
                                              /\ \A s \in ShownAts(c) : s <= n.at => s \in ShownAts(b)
         /\ \A n \in AnyNode : \A a : Valid(b, n) /\ Clean(b, a) /\ FitsFrom(b, n, a) => FitsFrom(c, n, a)
<1>1. c = Append(b, y)
  BY DEF Appended
<1>2. /\ c \in Seq(Byte) /\ CallAts(b) \subseteq CallAts(c) /\ Confirmed(b) <= Confirmed(c)
      /\ \A s \in ShownAts(c) : s \in ShownAts(b) \/ s = Confirmed(b)
      /\ \A a : Clean(b, a) => Clean(c, a) /\ \A s \in ShownAts(c) : s < a => s \in ShownAts(b)
  BY <1>1, Grow
<1>3. Len(b) \in Nat /\ Confirmed(b) \in Nat /\ Confirmed(c) \in Nat
  BY <1>2, ConfirmedIs, EndsAre
<1>4. ASSUME NEW n \in AnyNode, Valid(b, n)
      PROVE  /\ Valid(c, n) /\ \A s \in ShownAts(c) : s <= n.at => s \in ShownAts(b)
             /\ \A a \in 0 .. Len(b) : FitsFrom(b, n, a) => FitsFrom(c, n, a)
  BY <1>1, <1>4, GrowNode
<1>5. \A a : Clean(b, a) => a \in 0 .. Len(b)
  BY DEF Clean
<1>6. QED
  BY <1>2, <1>3, <1>4, <1>5

\* The tail still stands where it stood when the file grows.
LEMMA FollowsGrow ==
  ASSUME NEW b \in Seq(Byte), NEW y \in Byte, NEW c, Appended(b, y, c), NEW t \in Tails, Follows(b, t)
  PROVE  Follows(c, t)
<1>1. c = Append(b, y)
  BY DEF Appended
<1>2. /\ c \in Seq(Byte) /\ Len(c) = Len(b) + 1 /\ \A i \in 1 .. Len(b) : c[i] = b[i]
      /\ \A e \in Ends(c) : e \in Ends(b) \/ e = Len(b) + 1
      /\ \A a : Clean(b, a) => Clean(c, a)
  BY <1>1, Grow
<1>3. /\ t.offset \in Nat /\ t.ackOffset \in Nat /\ t.carry \in Seq(Byte) /\ Len(t.carry) \in Nat
      /\ t.offset <= Len(b) /\ Len(t.carry) <= t.offset /\ Len(b) \in Nat
  BY DEF Follows, Tails
<1>4. t.carry = SubSeq(c, t.offset - Len(t.carry) + 1, t.offset)
  <2>1. PICK z \in Nat, o \in Nat : z = t.offset - Len(t.carry) /\ o = t.offset
    BY <1>3
  <2>2. z <= o /\ o <= Len(b) /\ o <= Len(c)
    BY <1>2, <1>3, <2>1
  <2>3. /\ SubSeq(b, z + 1, o) \in Seq(Byte) /\ Len(SubSeq(b, z + 1, o)) = o - z
        /\ \A i \in 1 .. o - z : SubSeq(b, z + 1, o)[i] = b[z + i]
    BY <2>2, SliceIs, Zenon
  <2>4. /\ SubSeq(c, z + 1, o) \in Seq(Byte) /\ Len(SubSeq(c, z + 1, o)) = o - z
        /\ \A i \in 1 .. o - z : SubSeq(c, z + 1, o)[i] = c[z + i]
    BY <1>2, <2>2, SliceIs, Zenon
  <2>5. PICK p, q : p = SubSeq(b, z + 1, o) /\ q = SubSeq(c, z + 1, o)
    OBVIOUS
  <2>6. p \in Seq(Byte) /\ q \in Seq(Byte) /\ Len(p) = o - z /\ Len(q) = o - z
    BY <2>3, <2>4, <2>5
  <2>7. \A i \in 1 .. o - z : p[i] = q[i]
    <3>1. ASSUME NEW i \in 1 .. o - z PROVE p[i] = q[i]
      <4>1. z + i \in 1 .. Len(b)
        BY <1>3, <2>2
      <4>2. c[z + i] = b[z + i]
        BY <1>2, <4>1
      <4>3. p[i] = b[z + i] /\ q[i] = c[z + i]
        BY <2>3, <2>4, <2>5
      <4>4. QED
        BY <4>2, <4>3
    <3>2. QED
      BY <3>1
  <2>8. p = q
    BY <2>6, <2>7
  <2>9. t.carry = SubSeq(b, t.offset - Len(t.carry) + 1, t.offset)
    BY DEF Follows
  <2>10. QED
    BY <2>1, <2>5, <2>8, <2>9, Zenon
<1>5. NoEndIn(c, t.ackOffset, t.offset)
  <2>1. NoEndIn(b, t.ackOffset, t.offset)
    BY DEF Follows
  <2>2. QED
    BY <1>2, <1>3, <2>1 DEF NoEndIn
<1>6. Clean(c, t.ackOffset)
  BY <1>2 DEF Follows
<1>7. QED
  BY <1>2, <1>3, <1>4, <1>5, <1>6 DEF Follows

\* A write appends one byte and touches nothing else.
LEMMA WriteIs ==
  ASSUME Typed, Write
  PROVE  /\ \E y \in Byte : Appended(file.bytes, y, file'.bytes)
         /\ file' \in [ino : Nat, bytes : Seq(Byte)] /\ file'.ino = file.ino /\ IsTranscript(file'.bytes)
         /\ UNCHANGED <<tail, pending, seq, lastSeq, connections, chan, conn, store, request, reloaded, torn>>
<1>1. PICK y \in Byte :
       /\ CASE y = "n" -> RowSoFar > 0
            [] y = "x" -> RowSoFar > 0 /\ RowSoFar < MaxRow
            [] y = "t" -> RowSoFar = 0
            [] y = "c" -> RowSoFar = 0 /\ ~Has("call")
            [] y = "r" -> RowSoFar = 0 /\ Has("call") /\ ~Has("result")
       /\ file' = [file EXCEPT !.bytes = Append(@, y)]
  BY DEF Write
<1>2. file \in [ino : Nat, bytes : Seq(Byte)] /\ IsTranscript(file.bytes) /\ file.bytes \in Seq(Byte)
  BY DEF Typed
<1>3. /\ y \in {"t", "c", "r"} => Len(file.bytes) - Confirmed(file.bytes) = 0
      /\ y = "c" => ~ \E row \in Rows(file.bytes) : ParsedKind(row.text) = "call"
      /\ y = "r" => /\ \E row \in Rows(file.bytes) : ParsedKind(row.text) = "call"
                    /\ ~ \E row \in Rows(file.bytes) : ParsedKind(row.text) = "result"
  <2>1. y \in {"t", "c", "r"} => RowSoFar = 0
    BY <1>1
  <2>2. y = "c" => ~Has("call")
    BY <1>1
  <2>3. y = "r" => Has("call") /\ ~Has("result")
    BY <1>1
  <2>4. QED
    BY <2>1, <2>2, <2>3 DEF RowSoFar, Has
<1>4. PICK b : b = file.bytes
  OBVIOUS
<1>5. /\ y \in {"t", "c", "r"} => Len(b) - Confirmed(b) = 0
      /\ y = "c" => ~ \E row \in Rows(b) : ParsedKind(row.text) = "call"
      /\ y = "r" => /\ \E row \in Rows(b) : ParsedKind(row.text) = "call"
                    /\ ~ \E row \in Rows(b) : ParsedKind(row.text) = "result"
  BY <1>3, <1>4
<1>6. IsTranscript(b)
  BY <1>2, <1>4
<1>7. IsTranscript(Append(b, y))
  BY <1>5, <1>6, WrittenTranscript
<1>8. /\ file'.bytes = Append(file.bytes, y) /\ file'.ino = file.ino
      /\ file' \in [ino : Nat, bytes : Seq(Byte)]
  BY SMTT(30), <1>1, <1>2
<1>9. QED
  BY <1>4, <1>7, <1>8 DEF Write, Appended, server, client, asking, history

\* The session writes: what is shown and under way still fits the longer file.
LEMMA WriteKeeps ==
  ASSUME IInv, Write
  PROVE  IInv'
<1>1. /\ \E y \in Byte : Appended(file.bytes, y, file'.bytes)
      /\ file' \in [ino : Nat, bytes : Seq(Byte)] /\ file'.ino = file.ino /\ IsTranscript(file'.bytes)
      /\ UNCHANGED <<tail, pending, seq, lastSeq, connections, chan, conn, store, request, reloaded, torn>>
  BY WriteIs DEF IInv
<1>2. PICK b, c : b = file.bytes /\ c = file'.bytes
  OBVIOUS
<1>3. b \in Seq(Byte) /\ tail \in Tails
  BY <1>2 DEF IInv, Typed
<1>4. PICK y \in Byte : Appended(b, y, c)
  BY <1>1, <1>2
<1>5. /\ Len(b) \in Nat /\ CallAts(b) \subseteq CallAts(c)
      /\ Confirmed(b) \in Nat /\ Confirmed(c) \in Nat /\ Confirmed(b) <= Confirmed(c)
      /\ \A s \in ShownAts(c) : s \in ShownAts(b) \/ s = Confirmed(b)
      /\ \A a : Clean(b, a) => Clean(c, a) /\ \A s \in ShownAts(c) : s < a => s \in ShownAts(b)
      /\ \A n \in AnyNode : Valid(b, n) => /\ Valid(c, n)
                                           /\ \A s \in ShownAts(c) : s <= n.at => s \in ShownAts(b)
      /\ \A n \in AnyNode : \A a : Valid(b, n) /\ Clean(b, a) /\ FitsFrom(b, n, a) => FitsFrom(c, n, a)
  BY <1>3, <1>4, GrowKeeps
<1>6. Follows(b, tail) => Follows(c, tail)
  <2>1. PICK t \in Tails : t = tail
    BY <1>3
  <2>2. Follows(b, t) => Follows(c, t)
    BY <1>3, <1>4, FollowsGrow
  <2>3. QED
    BY <2>1, <2>2
<1>7. Live => \A s \in ShownAts(c) : s < tail.ackOffset => s \in ShownAts(b)
  <2>1. Live => Clean(b, tail.ackOffset)
    BY <1>2 DEF IInv, TailFits, Follows
  <2>2. QED
    BY <1>5, <2>1
<1>8. /\ Live' = Live /\ Synced' = Synced /\ Good' = Good /\ Shown' = ShownAts(c) /\ Shown = ShownAts(b)
      /\ \A v : UnderWay(v)' = UnderWay(v)
      /\ \A j : IsRows(j)' = IsRows(j) /\ Kind(j)' = Kind(j) /\ Sent(j)' = Sent(j)
      /\ \A r : Open(r)' = Open(r)
      /\ InStore' = InStore /\ Anchored' = Anchored
  BY <1>1, <1>2 DEF Live, Synced, Good, Shown, UnderWay, IsRows, Kind, Sent, Open, InStore, Anchored
<1>9. /\ \A j \in DOMAIN chan : IsRows(j) => \A n \in Sent(j) : n \in AnyNode
      /\ \A n \in InStore : n \in AnyNode
      /\ \A r : Open(r) => \A n \in ToSet(request[r].page.nodes) : n \in AnyNode
  <2>1. ASSUME NEW j \in DOMAIN chan, IsRows(j), NEW n \in Sent(j) PROVE n \in AnyNode
    <3>1. chan[j] \in Envelopes
      BY DEF IInv, Typed
    <3>2. chan[j].frame \in Frames /\ chan[j].frame.f = "rows"
      BY <2>1, <3>1 DEF Envelopes, IsRows, Kind
    <3>3. chan[j].frame.nodes \in Seq(AnyNode)
      BY <3>2 DEF Frames
    <3>4. QED
      BY <2>1, <3>3 DEF Sent, ToSet
  <2>2. ASSUME NEW n \in InStore PROVE n \in AnyNode
    <3>1. store.nodes \in Seq(AnyNode)
      BY DEF IInv, Typed, Stores
    <3>2. QED
      BY <2>2, <3>1 DEF InStore, ToSet
  <2>3. ASSUME NEW r, Open(r), NEW n \in ToSet(request[r].page.nodes) PROVE n \in AnyNode
    <3>1. request[r].page \in Pages
      BY <2>3 DEF IInv, Typed, Open
    <3>2. request[r].page.nodes \in Seq(AnyNode)
      BY <3>1 DEF Pages
    <3>3. QED
      BY <2>3, <3>2 DEF ToSet
  <2>4. QED
    BY <2>1, <2>2, <2>3
<1>10. Typed'
  BY <1>1 DEF IInv, Typed
<1>11. Versions'
  BY <1>1, <1>8 DEF IInv, Versions, Begins
<1>12. TailFits'
  BY <1>1, <1>2, <1>5, <1>6, <1>8 DEF IInv, TailFits
<1>13. InSequence'
  BY <1>1, InSequenceSame DEF IInv
<1>14. FramesValid'
  <2>1. FramesValid
    BY DEF IInv
  <2>2. SUFFICES ASSUME NEW j \in DOMAIN chan', chan'[j].ver = file'.ino
        PROVE /\ IsRows(j)' => /\ Clean(c, chan'[j].frame.from)
                               /\ \A n \in Sent(j)' : Valid(c, n) /\ FitsFrom(c, n, chan'[j].frame.from)
              /\ Kind(j)' = "patch" => chan'[j].frame.ids \subseteq CallAts(c)
    BY <1>2 DEF FramesValid
  <2>3. j \in DOMAIN chan /\ chan[j].ver = file.ino /\ chan'[j] = chan[j]
    BY <1>1, <2>2
  <2>4. Kind(j) = "patch" => chan[j].frame.ids \subseteq CallAts(c)
    BY <1>2, <1>5, <2>1, <2>3 DEF FramesValid
  <2>5. ASSUME IsRows(j), NEW n \in Sent(j)
        PROVE  Clean(c, chan[j].frame.from) /\ Valid(c, n) /\ FitsFrom(c, n, chan[j].frame.from)
    <3>1. Clean(b, chan[j].frame.from) /\ Valid(b, n) /\ FitsFrom(b, n, chan[j].frame.from)
      BY <1>2, <2>1, <2>3, <2>5 DEF FramesValid
    <3>2. n \in AnyNode
      BY <1>9, <2>3, <2>5
    <3>3. QED
      BY <1>5, <3>1, <3>2
  <2>6. IsRows(j) => Clean(c, chan[j].frame.from)
    BY <1>2, <1>5, <2>1, <2>3 DEF FramesValid
  <2>7. QED
    BY <1>8, <2>3, <2>4, <2>5, <2>6
<1>15. HelloFits'
  <2>1. HelloFits
    BY DEF IInv
  <2>2. QED
    BY <1>1, <1>2, <1>5, <1>7, <1>8, <2>1 DEF HelloFits
<1>16. FirstFrames'
  <2>1. FirstFrames
    BY DEF IInv
  <2>2. QED
    BY <1>1, <1>7, <1>8, <2>1 DEF FirstFrames
<1>17. WindowFits'
  BY <1>1, WindowFitsSame DEF IInv
<1>18. WindowCovers'
  <2>1. WindowCovers
    BY DEF IInv
  <2>2. SUFFICES ASSUME Good, store.ver = file.ino, file.ino # 0 PROVE WindowCovers'
    BY <1>1, <1>8 DEF WindowCovers
  <2>3. /\ \A m \in InStore : Valid(b, m) /\ FitsFrom(b, m, store.first)
        /\ \A s \in ShownAts(b), m \in InStore : store.first <= s /\ s <= m.at => s \in Held(store.nodes)
        /\ Anchored => Clean(b, store.first)
        /\ Synced /\ Live /\ store.following /\ Anchored =>
             \A s \in ShownAts(b) : store.first <= s /\ s < tail.ackOffset =>
                s \in Held(store.nodes) \cup Ats(UnderWay(store.ver))
    BY <1>2, <1>8, <2>1, <2>2 DEF WindowCovers
  <2>4. ASSUME NEW m \in InStore PROVE Valid(c, m) /\ FitsFrom(c, m, store.first)
    <3>1. store.nodes # <<>>
      BY <2>4 DEF InStore, ToSet
    <3>2. Clean(b, store.first)
      BY <2>3, <3>1 DEF Anchored
    <3>3. QED
      BY <1>5, <1>9, <2>3, <3>2
  <2>5. \A s \in ShownAts(c), m \in InStore : store.first <= s /\ s <= m.at => s \in Held(store.nodes)
    BY <1>5, <1>9, <2>3
  <2>6. Anchored => Clean(c, store.first)
    BY <1>5, <2>3
  <2>7. Synced /\ Live /\ store.following /\ Anchored =>
             \A s \in ShownAts(c) : store.first <= s /\ s < tail.ackOffset =>
                s \in Held(store.nodes) \cup Ats(UnderWay(store.ver))
    BY <1>7, <2>3
  <2>8. QED
    BY <1>1, <1>2, <1>8, <2>4, <2>5, <2>6, <2>7 DEF WindowCovers
<1>19. EarlierFits'
  <2>1. EarlierFits /\ WindowCovers
    BY DEF IInv
  <2>2. SUFFICES ASSUME Open("earlier"), Good, file.ino # 0, store.ver = file.ino
        PROVE LET p == request["earlier"].page IN
              /\ \A n \in ToSet(p.nodes) : Valid(c, n) /\ n.at >= p.from
              /\ Clean(c, p.from)
              /\ p.removed \cap ShownAts(c) = {} /\ \A q \in p.removed : q < Confirmed(c)
              /\ \A s \in ShownAts(c) : p.from <= s /\ s < store.first => s \in Held(p.nodes)
    BY <1>1, <1>2, <1>8, <2>1 DEF EarlierFits
  <2>3. PICK p : p = request["earlier"].page
    OBVIOUS
  <2>4. /\ \A n \in ToSet(p.nodes) : Valid(b, n) /\ n.at >= p.from
        /\ Clean(b, p.from)
        /\ p.removed \cap ShownAts(b) = {} /\ \A q \in p.removed : q < Confirmed(b)
        /\ \A s \in ShownAts(b) : p.from <= s /\ s < store.first => s \in Held(p.nodes)
    BY <1>2, <1>8, <2>1, <2>2, <2>3 DEF EarlierFits
  <2>5. store.truncatedBefore
    BY <2>1, <2>2 DEF EarlierFits
  <2>6. Clean(b, store.first)
    BY <1>2, <2>1, <2>2, <2>5 DEF WindowCovers, Anchored
  <2>7. \A n \in ToSet(p.nodes) : n \in AnyNode
    BY <1>9, <2>2, <2>3
  <2>8. p.removed \subseteq Nat
    BY <2>2, <2>3 DEF IInv, Typed, Open, Pages
  <2>9. \A q \in p.removed : q < Confirmed(c) /\ q # Confirmed(b)
    BY <1>5, <2>4, <2>8
  <2>10. p.removed \cap ShownAts(c) = {}
    BY <1>5, <2>4, <2>9
  <2>11. \A n \in ToSet(p.nodes) : Valid(c, n) /\ n.at >= p.from
    BY <1>5, <2>4, <2>7
  <2>12. \A s \in ShownAts(c) : p.from <= s /\ s < store.first => s \in Held(p.nodes)
    BY <1>5, <2>4, <2>6
  <2>13. QED
    BY <1>5, <2>3, <2>4, <2>9, <2>10, <2>11, <2>12
<1>20. TailPageFits'
  <2>1. TailPageFits
    BY DEF IInv
  <2>2. SUFFICES ASSUME Open("tail"), Good, file.ino # 0, store.ver = file.ino
        PROVE LET p == request["tail"].page IN
              /\ \A n \in ToSet(p.nodes) : Valid(c, n) /\ n.at >= p.from
              /\ Clean(c, p.from) /\ Clean(c, p.to)
              /\ \A s \in ShownAts(c) :
                   /\ p.from <= s /\ s < p.to => s \in Held(p.nodes)
                   /\ Synced /\ Live /\ p.to <= s /\ s < tail.ackOffset => s \in Ats(UnderWay(store.ver))
    BY <1>1, <1>2, <1>8, <2>1 DEF TailPageFits
  <2>3. PICK p : p = request["tail"].page
    OBVIOUS
  <2>4. /\ \A n \in ToSet(p.nodes) : Valid(b, n) /\ n.at >= p.from
        /\ Clean(b, p.from) /\ Clean(b, p.to)
        /\ \A s \in ShownAts(b) :
             /\ p.from <= s /\ s < p.to => s \in Held(p.nodes)
             /\ Synced /\ Live /\ p.to <= s /\ s < tail.ackOffset => s \in Ats(UnderWay(store.ver))
    BY <1>2, <1>8, <2>1, <2>2, <2>3 DEF TailPageFits
  <2>5. \A n \in ToSet(p.nodes) : n \in AnyNode
    BY <1>9, <2>2, <2>3
  <2>6. \A n \in ToSet(p.nodes) : Valid(c, n) /\ n.at >= p.from
    BY <1>5, <2>4, <2>5
  <2>7. Clean(c, p.from) /\ Clean(c, p.to)
    BY <1>5, <2>4
  <2>8. ASSUME NEW s \in ShownAts(c), p.from <= s, s < p.to PROVE s \in Held(p.nodes)
    BY <1>5, <2>4, <2>8
  <2>9. ASSUME Synced, Live, NEW s \in ShownAts(c), p.to <= s, s < tail.ackOffset
        PROVE  s \in Ats(UnderWay(store.ver))
    BY <1>7, <2>4, <2>9
  <2>10. QED
    BY <2>3, <2>6, <2>7, <2>8, <2>9
<1>21. QED
  BY <1>10, <1>11, <1>12, <1>13, <1>14, <1>15, <1>16, <1>17, <1>18, <1>19, <1>20 DEF IInv

-----------------------------------------------------------------------------
(* What the poller does to the channel                                     *)

\* The channel has more frames, of one version, which carry N and P.
Extended(N, from, P, ver) ==
  /\ chan' \in Seq(Envelopes)
  /\ \A k \in DOMAIN chan : k \in DOMAIN chan' /\ chan'[k] = chan[k]
  /\ \A k \in DOMAIN chan' : k \notin DOMAIN chan =>
       /\ chan'[k].ver = ver
       /\ IsRows(k)' => /\ chan'[k].frame.nodes # <<>> /\ chan'[k].frame.from = from
                        /\ InOrder(chan'[k].frame.nodes)
                        /\ \A n \in Sent(k)' : n \in N
       /\ Kind(k)' = "patch" => /\ chan'[k].frame.ids \subseteq P /\ P # {}
                                /\ \A i \in DOMAIN chan' : i \notin DOMAIN chan /\ Kind(i)' = "patch" => i = k
       /\ \A i \in DOMAIN chan : i < k
  /\ \A i, k \in DOMAIN chan' : i < k /\ i \notin DOMAIN chan /\ IsRows(i)' /\ IsRows(k)' =>
       k \notin DOMAIN chan /\ \A n \in Sent(i)', m \in Sent(k)' : n.at <= m.at /\ n # m
  /\ \A v : UnderWay(v)' = IF v = ver THEN UnderWay(v) \cup N ELSE UnderWay(v)

\* Frames that are emitted go to the end of the channel, with the version given.
LEMMA EmitExtends ==
  ASSUME Typed, NEW sent, NEW ver \in Nat, Emit(sent, ver),
         NEW N, NEW from, NEW P, Carries(sent, N, from, P)
  PROVE  /\ Extended(N, from, P, ver) /\ seq' \in Nat
         /\ \A k \in DOMAIN chan' : k \notin DOMAIN chan => \E j \in DOMAIN sent :
              k = Len(chan) + j /\ chan'[k].frame = sent[j]
         /\ \A j \in DOMAIN sent : Len(chan) + j \in DOMAIN chan' /\ Len(chan) + j \notin DOMAIN chan
                                   /\ chan'[Len(chan) + j].frame = sent[j]
<1>1. chan \in Seq(Envelopes) /\ seq \in Nat /\ sent \in Seq(Frames)
  BY DEF Typed, Carries
<1>2. /\ chan' \in Seq(Envelopes) /\ seq' \in Nat /\ Len(chan') = Len(chan) + Len(sent)
      /\ \A j \in DOMAIN chan : j \in DOMAIN chan' /\ chan'[j] = chan[j]
      /\ \A j \in DOMAIN sent : /\ Len(chan) + j \in DOMAIN chan' /\ chan'[Len(chan) + j].ver = ver
                                /\ chan'[Len(chan) + j].frame = sent[j]
      /\ \A k \in DOMAIN chan' : k \in DOMAIN chan \/ \E j \in DOMAIN sent : k = Len(chan) + j
  BY <1>1, EmitIs
<1>3. Len(chan) \in Nat /\ DOMAIN chan = 1 .. Len(chan) /\ DOMAIN sent = 1 .. Len(sent) /\ Len(sent) \in Nat
  BY <1>1
<1>4. \A k \in DOMAIN chan' : k \notin DOMAIN chan => \E j \in DOMAIN sent :
        k = Len(chan) + j /\ chan'[k].frame = sent[j] /\ chan'[k].ver = ver
  BY <1>2
<1>5. \A j \in DOMAIN sent : Len(chan) + j \notin DOMAIN chan
  BY <1>3
<1>6. /\ \A j \in DOMAIN sent : sent[j].f = "rows" =>
            /\ sent[j].nodes # <<>> /\ sent[j].from = from
            /\ \A i, k \in DOMAIN sent[j].nodes : i < k => sent[j].nodes[i].at <= sent[j].nodes[k].at
            /\ \A n \in ToSet(sent[j].nodes) : n \in N
      /\ \A i, j \in DOMAIN sent : i < j /\ sent[i].f = "rows" /\ sent[j].f = "rows" =>
           \A n \in ToSet(sent[i].nodes), m \in ToSet(sent[j].nodes) : n.at <= m.at /\ n # m
      /\ \A n \in N : \E j \in DOMAIN sent : sent[j].f = "rows" /\ n \in ToSet(sent[j].nodes)
      /\ \A j \in DOMAIN sent : sent[j].f = "patch" => sent[j].ids \subseteq P /\ P # {}
      /\ \A i, j \in DOMAIN sent : sent[i].f = "patch" /\ sent[j].f = "patch" => i = j
  BY DEF Carries
<1>7. ASSUME NEW k \in DOMAIN chan', k \notin DOMAIN chan
      PROVE  /\ chan'[k].ver = ver
             /\ IsRows(k)' => /\ chan'[k].frame.nodes # <<>> /\ chan'[k].frame.from = from
                              /\ InOrder(chan'[k].frame.nodes)
                              /\ \A n \in Sent(k)' : n \in N
             /\ Kind(k)' = "patch" => /\ chan'[k].frame.ids \subseteq P /\ P # {}
                                      /\ \A i \in DOMAIN chan' : i \notin DOMAIN chan /\ Kind(i)' = "patch" => i = k
             /\ \A i \in DOMAIN chan : i < k
  <2>1. PICK j \in DOMAIN sent : k = Len(chan) + j /\ chan'[k].frame = sent[j] /\ chan'[k].ver = ver
    BY <1>4, <1>7
  <2>2. \A i \in DOMAIN chan : i < k
    BY <1>3, <2>1
  <2>3. PICK f : f = sent[j]
    OBVIOUS
  <2>4. /\ f.f = "rows" => /\ f.nodes # <<>> /\ f.from = from
                           /\ \A i, l \in DOMAIN f.nodes : i < l => f.nodes[i].at <= f.nodes[l].at
                           /\ \A n \in ToSet(f.nodes) : n \in N
        /\ f.f = "patch" => f.ids \subseteq P /\ P # {}
    BY <1>6, <2>1, <2>3
  <2>5. chan'[k].frame = f
    BY <2>1, <2>3
  <2>6. f.f = "rows" => InOrder(f.nodes)
    BY <2>4 DEF InOrder
  <2>7. ASSUME Kind(k)' = "patch", NEW i \in DOMAIN chan', i \notin DOMAIN chan, Kind(i)' = "patch" PROVE i = k
    <3>1. PICK x \in DOMAIN sent : i = Len(chan) + x /\ chan'[i].frame = sent[x]
      BY <1>4, <2>7
    <3>2. sent[x].f = "patch" /\ sent[j].f = "patch"
      BY <2>1, <2>7, <3>1 DEF Kind
    <3>3. QED
      BY <1>6, <2>1, <3>1, <3>2
  <2>8. QED
    BY <2>1, <2>2, <2>4, <2>5, <2>6, <2>7 DEF IsRows, Kind, Sent
<1>8. ASSUME NEW i \in DOMAIN chan', NEW k \in DOMAIN chan', i < k, i \notin DOMAIN chan, IsRows(i)', IsRows(k)'
      PROVE  k \notin DOMAIN chan /\ \A n \in Sent(i)', m \in Sent(k)' : n.at <= m.at /\ n # m
  <2>1. PICK x \in DOMAIN sent : i = Len(chan) + x /\ chan'[i].frame = sent[x]
    BY <1>4, <1>8
  <2>2. k \notin DOMAIN chan
    BY <1>3, <1>8, <2>1
  <2>3. PICK y \in DOMAIN sent : k = Len(chan) + y /\ chan'[k].frame = sent[y]
    BY <1>4, <2>2
  <2>4. x < y
    BY <1>3, <1>8, <2>1, <2>3
  <2>5. sent[x].f = "rows" /\ sent[y].f = "rows"
    BY <1>8, <2>1, <2>3 DEF IsRows, Kind
  <2>6. QED
    BY <1>6, <2>1, <2>2, <2>3, <2>4, <2>5 DEF Sent
<1>9. ASSUME NEW v PROVE UnderWay(v)' = IF v = ver THEN UnderWay(v) \cup N ELSE UnderWay(v)
  <2>1. ASSUME NEW n PROVE n \in UnderWay(v)' <=> \E k \in DOMAIN chan' : IsRows(k)' /\ chan'[k].ver = v /\ n \in Sent(k)'
    BY DEF UnderWay
  <2>2. ASSUME NEW n PROVE n \in UnderWay(v) <=> \E k \in DOMAIN chan : IsRows(k) /\ chan[k].ver = v /\ n \in Sent(k)
    BY DEF UnderWay
  <2>3. \A k \in DOMAIN chan : k \in DOMAIN chan' /\ IsRows(k)' = IsRows(k) /\ chan'[k].ver = chan[k].ver /\ Sent(k)' = Sent(k)
    BY <1>2 DEF IsRows, Kind, Sent
  <2>4. ASSUME NEW n \in N
        PROVE  \E k \in DOMAIN chan' : IsRows(k)' /\ chan'[k].ver = ver /\ n \in Sent(k)'
    <3>1. PICK j \in DOMAIN sent : sent[j].f = "rows" /\ n \in ToSet(sent[j].nodes)
      BY <1>6
    <3>2. PICK k \in DOMAIN chan' : chan'[k].frame = sent[j] /\ chan'[k].ver = ver
      BY <1>2
    <3>3. QED
      BY <3>1, <3>2 DEF IsRows, Kind, Sent
  <2>5. ASSUME NEW k \in DOMAIN chan', IsRows(k)', NEW n \in Sent(k)'
        PROVE  (k \in DOMAIN chan) \/ (chan'[k].ver = ver /\ n \in N)
    BY <1>7, <2>5
  <2>6. ASSUME NEW n PROVE n \in UnderWay(v)' <=> n \in UnderWay(v) \/ (v = ver /\ n \in N)
    <3>1. CASE n \in UnderWay(v)'
      <4>1. PICK k \in DOMAIN chan' : IsRows(k)' /\ chan'[k].ver = v /\ n \in Sent(k)'
        BY <2>1, <3>1
      <4>2. CASE k \in DOMAIN chan
        BY <2>2, <2>3, <3>1, <4>1, <4>2
      <4>3. CASE k \notin DOMAIN chan
        BY <2>5, <3>1, <4>1, <4>3
      <4>4. QED
        BY <4>2, <4>3
    <3>2. CASE n \in UnderWay(v)
      BY <2>1, <2>2, <2>3, <3>2
    <3>3. CASE v = ver /\ n \in N
      BY <2>1, <2>4, <3>3
    <3>4. QED
      BY <3>1, <3>2, <3>3
  <2>7. QED
    BY <2>6
<1>10. Extended(N, from, P, ver)
  BY <1>2, <1>7, <1>8, <1>9, Zenon DEF Extended
<1>11. QED
  BY <1>2, <1>4, <1>5, <1>10

\* What a window that is sent leaves behind.
Opened(first, from, N) ==
  /\ tail' \in Tails /\ tail'.inode = file.ino /\ Follows(file.bytes, tail')
  /\ Calls(file.bytes, pending') /\ seq' \in Nat
  /\ from \in Nat /\ from <= tail'.ackOffset /\ Clean(file.bytes, from)
  /\ Emission(file.bytes, from, tail'.ackOffset, from, file.ino, N)
  /\ WindowTells(file.bytes, tail'.ackOffset, N)
  /\ Extended(N, from, {}, file.ino)
  /\ Len(chan) + 1 \in DOMAIN chan' /\ Len(chan) + 1 \notin DOMAIN chan /\ chan'[Len(chan) + 1].frame = first
  /\ \A k \in DOMAIN chan' : k \notin DOMAIN chan /\ k # Len(chan) + 1 => IsRows(k)'

\* A hello or a reset opens a segment of the stream.
LEMMA SendWindowIs ==
  ASSUME Typed, NEW first \in Frames, first.f \in {"hello", "reset"}, SendWindow(Window, <<first>>)
  PROVE  \E N : Opened(first, Window.from, N)
<1>1. PICK b, ino : b = file.bytes /\ ino = file.ino
  OBVIOUS
<1>2. b \in Seq(Byte) /\ IsTranscript(b) /\ ino \in Nat
  BY <1>1 DEF Typed
<1>3. PICK W : W = FindWindow(b, Len(b), Limit)
  OBVIOUS
<1>4. W = Window
  BY <1>1, <1>3 DEF Window
<1>5. PICK R : R = Pair(WindowCandidates(W, ino), {})
  OBVIOUS
<1>6. PICK N : N = Completed(R.nodes, R.patches)
  OBVIOUS
<1>7. PICK F : F = RowsFrames(InFileOrder(N), W.from)
  OBVIOUS
<1>8. PICK sent : sent = <<first>> \o F
  OBVIOUS
<1>9. /\ tail' = [NoTail EXCEPT !.offset = Len(b), !.carry = W.carrySeed,
                                !.ackOffset = Len(b) - Len(W.carrySeed),
                                !.inode = ino]
      /\ pending' = R.pending
      /\ Emit(sent, ino)
  <2>1. Pair(WindowCandidates(Window, file.ino), {}) = R
    BY <1>1, <1>4, <1>5
  <2>2. <<first>> \o RowsFrames(InFileOrder(Completed(R.nodes, R.patches)), Window.from) = sent
    BY <1>4, <1>6, <1>7, <1>8
  <2>3. QED
    BY <1>1, <1>4, <2>1, <2>2 DEF SendWindow
<1>10. PICK t : t = tail'
  OBVIOUS
<1>11. Seeded(t, Len(b), W.carrySeed, ino)
  BY <1>9, <1>10 DEF Seeded
<1>12. Opens(sent, first, RowsFrames(InFileOrder(N), W.from))
  BY <1>7, <1>8 DEF Opens
<1>13. Begun(b, t, R.pending, sent, first, W.from, N, ino)
  BY <1>2, <1>3, <1>5, <1>6, <1>11, <1>12, WindowBegins
<1>14. PICK from : from = W.from
  OBVIOUS
<1>15. /\ t \in Tails /\ t.inode = ino /\ Follows(b, t) /\ Calls(b, R.pending)
       /\ from \in Nat /\ from <= t.ackOffset /\ Clean(b, from)
       /\ Emission(b, from, t.ackOffset, from, ino, N) /\ WindowTells(b, t.ackOffset, N)
       /\ Carries(sent, N, from, {}) /\ sent # <<>> /\ sent[1] = first
       /\ \A j \in DOMAIN sent : j # 1 => sent[j].f = "rows"
  BY <1>13, <1>14 DEF Begun
<1>16. /\ Extended(N, from, {}, ino) /\ seq' \in Nat
       /\ \A k \in DOMAIN chan' : k \notin DOMAIN chan => \E j \in DOMAIN sent :
            k = Len(chan) + j /\ chan'[k].frame = sent[j]
       /\ \A j \in DOMAIN sent : Len(chan) + j \in DOMAIN chan' /\ Len(chan) + j \notin DOMAIN chan
                                   /\ chan'[Len(chan) + j].frame = sent[j]
  BY <1>2, <1>9, <1>15, EmitExtends
<1>17. 1 \in DOMAIN sent
  BY <1>15 DEF Carries
<1>18. \A k \in DOMAIN chan' : k \notin DOMAIN chan /\ k # Len(chan) + 1 => IsRows(k)'
  <2>1. ASSUME NEW k \in DOMAIN chan', k \notin DOMAIN chan, k # Len(chan) + 1 PROVE IsRows(k)'
    <3>1. PICK j \in DOMAIN sent : k = Len(chan) + j /\ chan'[k].frame = sent[j]
      BY <1>16, <2>1
    <3>2. j # 1
      BY <2>1, <3>1
    <3>3. QED
      BY <1>15, <3>1, <3>2 DEF IsRows, Kind
  <2>2. QED
    BY <2>1
<1>19. Opened(first, from, N)
  <2>1. Len(chan) + 1 \in DOMAIN chan' /\ Len(chan) + 1 \notin DOMAIN chan /\ chan'[Len(chan) + 1].frame = first
    BY <1>15, <1>16, <1>17
  <2>2. QED
    BY <1>1, <1>9, <1>10, <1>15, <1>16, <1>18, <2>1 DEF Opened
<1>20. QED
  BY <1>4, <1>14, <1>19

-----------------------------------------------------------------------------
(* The stream comes up, or starts again                                    *)

\* The beginning of the window and its flag.
LEMMA WindowTyped ==
  ASSUME Typed
  PROVE  Window.from \in Nat /\ Window.truncatedBefore \in BOOLEAN
<1>1. PICK b : b = file.bytes
  OBVIOUS
<1>2. b \in Seq(Byte) /\ Len(b) \in Nat /\ Len(b) <= Len(b) /\ Limit \in Nat \ {0}
  BY <1>1, SizesAssumption DEF Typed
<1>3. PICK W : W = FindWindow(b, Len(b), Limit)
  OBVIOUS
<1>4. W.from \in Nat /\ W.truncatedBefore \in BOOLEAN
  BY <1>2, <1>3, WindowIs
<1>5. QED
  BY <1>1, <1>3, <1>4 DEF Window

\* The invariant after a stream has come up.
LEMMA ConnectKeeps ==
  ASSUME IInv, Connect
  PROVE  IInv'
<1>1. /\ conn = "waiting" /\ conn' = "open" /\ connections' = connections + 1 /\ lastSeq' = 0 /\ file.ino # 0
      /\ UNCHANGED <<file, store, request, reloaded, torn>>
  BY DEF Connect, OpenStream, asking, history
<1>2. Typed /\ Versions
  BY DEF IInv
<1>3. PICK hello : hello = [f |-> "hello", gen |-> connections', from |-> Window.from,
                            truncatedBefore |-> Window.truncatedBefore]
  OBVIOUS
<1>4. connections \in Nat /\ connections' \in Nat /\ file.ino \in Nat
  BY <1>1, <1>2 DEF Typed
<1>5. hello \in Frames /\ hello.f = "hello" /\ hello.gen = connections' /\ hello.from = Window.from
  <2>1. Window.from \in Nat /\ Window.truncatedBefore \in BOOLEAN
    BY <1>2, WindowTyped
  <2>2. hello \in [f : {"hello"}, gen : Nat, from : Nat, truncatedBefore : BOOLEAN]
    BY <1>3, <1>4, <2>1
  <2>3. QED
    BY <1>3, <2>2 DEF Frames
<1>6. SendWindow(Window, <<hello>>)
  BY <1>3 DEF Connect
<1>7. PICK N : Opened(hello, Window.from, N)
  BY <1>2, <1>5, <1>6, SendWindowIs
<1>8. PICK from : from = Window.from
  OBVIOUS
<1>9. /\ tail' \in Tails /\ tail'.inode = file.ino /\ Follows(file.bytes, tail')
      /\ Calls(file.bytes, pending') /\ seq' \in Nat
      /\ from \in Nat /\ from <= tail'.ackOffset /\ Clean(file.bytes, from)
      /\ Emission(file.bytes, from, tail'.ackOffset, from, file.ino, N)
      /\ Extended(N, from, {}, file.ino)
      /\ Len(chan) + 1 \in DOMAIN chan' /\ Len(chan) + 1 \notin DOMAIN chan /\ chan'[Len(chan) + 1].frame = hello
      /\ \A k \in DOMAIN chan' : k \notin DOMAIN chan /\ k # Len(chan) + 1 => IsRows(k)'
  BY <1>7, <1>8 DEF Opened
<1>10. chan = <<>> /\ DOMAIN chan = {} /\ Len(chan) = 0
  BY <1>1, <1>2 DEF Versions
<1>11. /\ chan' \in Seq(Envelopes) /\ 1 \in DOMAIN chan' /\ chan'[1].frame = hello
       /\ \A k \in DOMAIN chan' : /\ k \in Nat /\ k >= 1 /\ chan'[k].ver = file.ino
                                  /\ k # 1 => IsRows(k)'
       /\ \A k \in DOMAIN chan' : IsRows(k)' =>
            /\ chan'[k].frame.nodes # <<>> /\ chan'[k].frame.from = from
            /\ InOrder(chan'[k].frame.nodes)
            /\ \A n \in Sent(k)' : n \in N
       /\ \A i, k \in DOMAIN chan' : i < k /\ IsRows(i)' /\ IsRows(k)' => \A n \in Sent(i)', m \in Sent(k)' : n.at <= m.at
       /\ \A v : UnderWay(v)' = IF v = file.ino THEN N ELSE {}
  <2>1. \A v : UnderWay(v) = {}
    BY <1>10 DEF UnderWay
  <2>2. chan' \in Seq(Envelopes) /\ \A k \in DOMAIN chan' : k \in Nat /\ k >= 1
    BY <1>9 DEF Extended
  <2>3. \A v : UnderWay(v)' = IF v = file.ino THEN N ELSE {}
    BY <1>9, <2>1 DEF Extended
  <2>4. QED
    BY <1>9, <1>10, <2>2, <2>3 DEF Extended
<1>12. /\ Kind(1)' = "hello" /\ \A k \in DOMAIN chan' : Kind(k)' \in {"hello", "rows"} /\ (Kind(k)' = "hello" <=> k = 1) /\ (IsRows(k)' <=> k # 1)
  BY <1>5, <1>11 DEF Kind, IsRows
<1>13. \A k \in DOMAIN chan' : Begins(k)' <=> k = 1
  BY <1>12 DEF Begins
<1>14. /\ \A n \in N : /\ n \in AnyNode /\ n.ino = file.ino /\ from <= n.at /\ n.at < tail'.ackOffset
                       /\ Valid(file.bytes, n) /\ FitsFrom(file.bytes, n, from)
       /\ \A s \in ShownAts(file.bytes) : from <= s /\ s < tail'.ackOffset => s \in Ats(N)
  BY <1>9 DEF Emission
<1>15. store.gen <= connections /\ store.gen \in Nat /\ (file.ino # 0 => store.ver <= file.ino)
  BY <1>2 DEF Versions, Typed, Stores
<1>16. ~Synced' /\ ~Synced /\ Good' = Good /\ Shown' = ShownAts(file.bytes) /\ Shown = ShownAts(file.bytes)
  BY <1>1, <1>4, <1>15 DEF Synced, Good, Shown
<1>17. Typed'
  BY <1>1, <1>2, <1>4, <1>9, <1>11 DEF Typed, Calls
<1>18. Versions'
  <2>1. tail'.inode >= 1 /\ tail'.inode <= file.ino
    BY <1>1, <1>4, <1>9
  <2>2. \A i \in DOMAIN chan' : 1 <= chan'[i].ver /\ chan'[i].ver <= tail'.inode
    BY <1>9, <1>11, <2>1
  <2>3. \A i, j \in DOMAIN chan' : i < j => chan'[i].ver <= chan'[j].ver /\ ~Begins(j)'
    BY <1>4, <1>11, <1>13
  <2>4. \A j \in DOMAIN chan' : Kind(j)' = "hello" =>
           j = 1 /\ chan'[j].frame.gen = connections' /\ store'.gen < connections'
    BY <1>1, <1>4, <1>5, <1>11, <1>12, <1>15
  <2>5. chan' # <<>> /\ store'.gen <= connections'
    BY <1>1, <1>4, <1>11, <1>15
  <2>6. \A j \in DOMAIN chan' : Kind(j)' \in {"rows", "patch"} => \E i \in 1 .. j - 1 : Begins(i)' /\ chan'[i].ver = chan'[j].ver
    <3>1. ASSUME NEW j \in DOMAIN chan', Kind(j)' \in {"rows", "patch"} PROVE 1 \in 1 .. j - 1 /\ Begins(1)' /\ chan'[1].ver = chan'[j].ver
      BY <1>11, <1>12, <1>13, <3>1
    <3>2. QED
      BY <3>1
  <2>7. \E i \in DOMAIN chan' : Begins(i)' /\ chan'[i].ver = tail'.inode
    BY <1>9, <1>11, <1>13
  <2>8. QED
    BY <1>1, <1>12, <1>15, <1>16, <2>1, <2>2, <2>3, <2>4, <2>5, <2>6, <2>7 DEF Versions
<1>19. TailFits'
  BY <1>1, <1>9 DEF TailFits, Calls
<1>20. InSequence'
  <2>1. \A j \in DOMAIN chan' : IsRows(j)' =>
       /\ chan'[j].frame.nodes # <<>>
       /\ \A i, k \in DOMAIN chan'[j].frame.nodes : i < k => chan'[j].frame.nodes[i].at <= chan'[j].frame.nodes[k].at
       /\ \A n \in Sent(j)' : n.ino = chan'[j].ver /\ n.at < tail'.ackOffset
    BY <1>11, <1>14 DEF InOrder
  <2>2. QED
    BY <1>11, <2>1 DEF InSequence
<1>21. FramesValid'
  BY <1>1, <1>9, <1>11, <1>12, <1>14 DEF FramesValid
<1>22. HelloFits'
  BY <1>1, <1>5, <1>8, <1>9, <1>11, <1>14, <1>16 DEF HelloFits
<1>23. FirstFrames'
  BY <1>1, <1>9, <1>11, <1>14, <1>16 DEF FirstFrames
<1>24. WindowFits'
  BY <1>1, <1>16 DEF WindowFits, IInv, InStore
<1>25. WindowCovers'
  BY <1>1, <1>16 DEF WindowCovers, IInv, InStore, Anchored
<1>26. EarlierFits'
  BY <1>1, EarlierFitsSame DEF IInv
<1>27. TailPageFits'
  BY <1>1, <1>16 DEF TailPageFits, IInv, InStore, Open
<1>28. QED
  BY <1>17, <1>18, <1>19, <1>20, <1>21, <1>22, <1>23, <1>24, <1>25, <1>26, <1>27 DEF IInv

\* What is said of the frames that were under way before, after more are sent.
LEMMA ExtendedKeeps ==
  ASSUME Typed, NEW N, NEW from, NEW P, NEW ver, Extended(N, from, P, ver)
  PROVE  /\ \A k \in DOMAIN chan : k \in DOMAIN chan' /\ chan'[k] = chan[k] /\ IsRows(k)' = IsRows(k)
                                   /\ Kind(k)' = Kind(k) /\ Sent(k)' = Sent(k) /\ Begins(k)' = Begins(k)
         /\ DOMAIN chan = 1 .. Len(chan) /\ DOMAIN chan' = 1 .. Len(chan') /\ Len(chan) \in Nat /\ Len(chan') \in Nat
         /\ \A k \in DOMAIN chan : chan[k].ver \in Nat
         /\ \A i, k \in DOMAIN chan' : i < k /\ k \in DOMAIN chan => i \in DOMAIN chan
<1>1. chan \in Seq(Envelopes) /\ chan' \in Seq(Envelopes)
  BY DEF Typed, Extended
<1>2. \A k \in DOMAIN chan : chan[k] \in Envelopes
  BY <1>1
<1>3. \A k \in DOMAIN chan : chan[k].ver \in Nat
  BY <1>2 DEF Envelopes
<1>4. DOMAIN chan = 1 .. Len(chan) /\ DOMAIN chan' = 1 .. Len(chan') /\ Len(chan) \in Nat /\ Len(chan') \in Nat
  BY <1>1
<1>5. \A k \in DOMAIN chan : k \in DOMAIN chan' /\ chan'[k] = chan[k]
  BY DEF Extended
<1>6. QED
  BY <1>3, <1>4, <1>5 DEF IsRows, Kind, Sent, Begins

\* The poller finds another file and resets the stream.
LEMMA TickResetKeeps ==
  ASSUME IInv, TickReset
  PROVE  IInv'
<1>1. /\ conn = "open" /\ file.ino # 0 /\ (Truncated \/ Rotated)
      /\ UNCHANGED <<file, conn, connections, lastSeq, store, request, reloaded, torn>>
  BY DEF TickReset, client, asking, history
<1>2. Typed /\ Versions
  BY DEF IInv
<1>3. PICK reset : reset = [f |-> "reset"]
  OBVIOUS
<1>4. file.ino \in Nat /\ tail.inode \in Nat /\ store.ver \in Nat /\ store.gen \in Nat /\ connections \in Nat
  BY <1>2 DEF Typed, Tails, Stores
<1>5. reset \in Frames /\ reset.f = "reset"
  <2>1. reset \in [f : {"reset", "gone"}]
    BY <1>3
  <2>2. QED
    BY <1>3, <2>1 DEF Frames
<1>6. SendWindow(Window, <<reset>>)
  BY <1>3 DEF TickReset
<1>7. PICK N : Opened(reset, Window.from, N)
  BY <1>2, <1>5, <1>6, SendWindowIs
<1>8. PICK from, z : from = Window.from /\ z = Len(chan) + 1
  OBVIOUS
<1>9. /\ tail' \in Tails /\ tail'.inode = file.ino /\ Follows(file.bytes, tail')
      /\ Calls(file.bytes, pending') /\ seq' \in Nat
      /\ from \in Nat /\ from <= tail'.ackOffset /\ Clean(file.bytes, from)
      /\ Emission(file.bytes, from, tail'.ackOffset, from, file.ino, N)
      /\ Extended(N, from, {}, file.ino)
      /\ z \in DOMAIN chan' /\ z \notin DOMAIN chan /\ chan'[z].frame = reset
      /\ \A k \in DOMAIN chan' : k \notin DOMAIN chan /\ k # z => IsRows(k)'
  BY <1>7, <1>8 DEF Opened
\* The file was replaced: a tail that follows it has not gone past its end.
<1>10. 1 <= tail.inode /\ tail.inode < file.ino
  <2>1. tail.inode >= 1 /\ tail.inode <= file.ino
    BY <1>1, <1>2, <1>4 DEF Versions
  <2>2. CASE tail.inode = file.ino
    <3>1. Follows(file.bytes, tail)
      BY <1>1, <2>2 DEF IInv, TailFits, Live
    <3>2. tail.offset <= Len(file.bytes) /\ tail.offset \in Nat /\ Len(file.bytes) \in Nat
      BY <1>2, <3>1 DEF Follows, Typed, Tails
    <3>3. QED
      BY <1>1, <2>2, <3>2 DEF Truncated, Rotated
  <2>3. QED
    BY <1>4, <2>1, <2>2
<1>11. /\ \A k \in DOMAIN chan : k \in DOMAIN chan' /\ chan'[k] = chan[k] /\ IsRows(k)' = IsRows(k)
                                 /\ Kind(k)' = Kind(k) /\ Sent(k)' = Sent(k) /\ Begins(k)' = Begins(k)
       /\ DOMAIN chan = 1 .. Len(chan) /\ DOMAIN chan' = 1 .. Len(chan') /\ Len(chan) \in Nat /\ Len(chan') \in Nat /\ z = Len(chan) + 1
       /\ \A k \in DOMAIN chan : chan[k].ver \in Nat
       /\ \A i, k \in DOMAIN chan' : i < k /\ k \in DOMAIN chan => i \in DOMAIN chan
  BY <1>2, <1>8, <1>9, ExtendedKeeps
<1>12. \A k \in DOMAIN chan' : k \notin DOMAIN chan =>
          /\ chan'[k].ver = file.ino
          /\ IsRows(k)' => /\ chan'[k].frame.nodes # <<>> /\ chan'[k].frame.from = from
                           /\ InOrder(chan'[k].frame.nodes)
                           /\ \A n \in Sent(k)' : n \in N
          /\ \A i \in DOMAIN chan : i < k
          /\ k >= z
  BY <1>9, <1>11 DEF Extended
<1>13. \A i, k \in DOMAIN chan' : i < k /\ i \notin DOMAIN chan /\ IsRows(i)' /\ IsRows(k)' =>
          k \notin DOMAIN chan /\ \A n \in Sent(i)', m \in Sent(k)' : n.at <= m.at
  BY <1>9 DEF Extended
<1>14. \A v : UnderWay(v)' = IF v = file.ino THEN UnderWay(v) \cup N ELSE UnderWay(v)
  BY <1>9 DEF Extended
<1>15. \A k \in DOMAIN chan : chan[k].ver # file.ino /\ chan[k].ver < file.ino
  <2>1. \A k \in DOMAIN chan : chan[k].ver <= tail.inode
    BY <1>2 DEF Versions
  <2>2. QED
    BY <1>4, <1>10, <1>11, <2>1
<1>16. Synced => store.ver <= tail.inode /\ store.ver # file.ino /\ store.ver < file.ino
  <2>1. Synced => store.ver <= tail.inode
    BY <1>2 DEF Versions
  <2>2. QED
    BY <1>4, <1>10, <2>1
<1>17. /\ \A k \in DOMAIN chan' : k \notin DOMAIN chan => Kind(k)' \in {"reset", "rows"} /\ (Begins(k)' <=> k = z) /\ (IsRows(k)' <=> k # z)
       /\ Begins(z)'
  BY <1>5, <1>9 DEF Kind, IsRows, Begins
<1>18. /\ Synced' = Synced /\ Good' = Good /\ Shown' = ShownAts(file.bytes) /\ Shown = ShownAts(file.bytes) /\ InStore' = InStore
       /\ Anchored' = Anchored /\ \A r : Open(r)' = Open(r)
  BY <1>1 DEF Synced, Good, Shown, InStore, Anchored, Open
<1>19. /\ \A n \in N : /\ n \in AnyNode /\ n.ino = file.ino /\ from <= n.at /\ n.at < tail'.ackOffset
                       /\ Valid(file.bytes, n) /\ FitsFrom(file.bytes, n, from)
       /\ \A s \in ShownAts(file.bytes) : from <= s /\ s < tail'.ackOffset => s \in Ats(N)
  BY <1>9 DEF Emission
<1>20. Typed'
  BY <1>1, <1>2, <1>9 DEF Typed, Calls, Extended
<1>21. Versions'
  <2>1. \A i \in DOMAIN chan' : 1 <= chan'[i].ver /\ chan'[i].ver <= tail'.inode
    BY <1>1, <1>2, <1>4, <1>9, <1>11, <1>12, <1>15 DEF Versions
  <2>2. ASSUME NEW i \in DOMAIN chan', NEW j \in DOMAIN chan', i < j
        PROVE  chan'[i].ver <= chan'[j].ver /\ (Begins(j)' => chan'[i].ver < chan'[j].ver)
    <3>1. CASE j \in DOMAIN chan
      BY <1>2, <1>11, <2>2, <3>1 DEF Versions
    <3>2. CASE j \notin DOMAIN chan /\ i \in DOMAIN chan
      BY <1>4, <1>11, <1>12, <1>15, <3>2
    <3>3. CASE j \notin DOMAIN chan /\ i \notin DOMAIN chan
      <4>1. chan'[i].ver = file.ino /\ chan'[j].ver = file.ino /\ i >= z
        BY <1>12, <3>3
      <4>2. j # z
        BY <1>11, <2>2, <4>1
      <4>3. QED
        BY <1>4, <1>17, <3>3, <4>1, <4>2
    <3>4. QED
      BY <3>1, <3>2, <3>3
  <2>3. ASSUME NEW j \in DOMAIN chan', Kind(j)' = "hello"
        PROVE  j = 1 /\ chan'[j].frame.gen = connections' /\ store'.gen < connections'
    <3>1. j \in DOMAIN chan
      BY <1>17, <2>3
    <3>2. QED
      BY <1>1, <1>2, <1>11, <2>3, <3>1 DEF Versions
  <2>4. ~Synced' => chan' # <<>> /\ Kind(1)' = "hello"
    <3>1. ~Synced => chan # <<>> /\ Kind(1) = "hello"
      BY <1>1, <1>2 DEF Versions
    <3>2. chan # <<>> => 1 \in DOMAIN chan
      BY <1>2 DEF Typed
    <3>3. QED
      BY <1>11, <1>18, <3>1, <3>2
  <2>5. Synced' => /\ store'.ver <= tail'.inode
                   /\ \A j \in DOMAIN chan' : store'.ver <= chan'[j].ver /\ (Begins(j)' => store'.ver < chan'[j].ver)
    <3>1. ASSUME Synced, NEW j \in DOMAIN chan'
          PROVE  store.ver <= chan'[j].ver /\ (Begins(j)' => store.ver < chan'[j].ver)
      <4>1. CASE j \in DOMAIN chan
        BY <1>2, <1>11, <3>1, <4>1 DEF Versions
      <4>2. CASE j \notin DOMAIN chan
        BY <1>4, <1>12, <1>16, <3>1, <4>2
      <4>3. QED
        BY <4>1, <4>2
    <3>2. Synced => store.ver <= file.ino
      BY <1>4, <1>16
    <3>3. QED
      BY <1>1, <1>9, <1>18, <3>1, <3>2
  <2>6. ASSUME NEW j \in DOMAIN chan', Kind(j)' \in {"rows", "patch"}
        PROVE  (Synced' /\ chan'[j].ver = store'.ver) \/ \E i \in 1 .. j - 1 : Begins(i)' /\ chan'[i].ver = chan'[j].ver
    <3>1. CASE j \in DOMAIN chan
      <4>1. (Synced /\ chan[j].ver = store.ver) \/ \E i \in 1 .. j - 1 : Begins(i) /\ chan[i].ver = chan[j].ver
        BY <1>1, <1>2, <1>11, <2>6, <3>1 DEF Versions
      <4>2. \A i \in 1 .. j - 1 : i \in DOMAIN chan
        BY <1>11, <3>1
      <4>3. QED
        BY <1>1, <1>11, <1>18, <3>1, <4>1, <4>2
    <3>2. CASE j \notin DOMAIN chan
      <4>1. j # z /\ j >= z
        BY <1>12, <1>17, <2>6, <3>2 DEF Kind, Begins
      <4>2. z \in 1 .. j - 1
        BY <1>11, <4>1
      <4>3. Begins(z)' /\ chan'[z].ver = file.ino /\ chan'[j].ver = file.ino
        BY <1>9, <1>12, <1>17, <3>2
      <4>4. QED
        BY <4>2, <4>3
    <3>3. QED
      BY <3>1, <3>2
  <2>7. z \in DOMAIN chan' /\ Begins(z)' /\ chan'[z].ver = tail'.inode
    BY <1>9, <1>12, <1>17
  <2>8. tail'.inode >= 1 /\ tail'.inode <= file.ino /\ store'.gen <= connections'
    BY <1>1, <1>2, <1>4, <1>9 DEF Versions
  <2>9. file'.ino # 0 => store'.ver <= file'.ino
    BY <1>1, <1>2 DEF Versions
  <2>10. QED
    BY <1>1, <2>1, <2>2, <2>3, <2>4, <2>5, <2>6, <2>7, <2>8, <2>9 DEF Versions
<1>22. TailFits'
  BY <1>1, <1>9 DEF TailFits, Calls
<1>23. InSequence'
  <2>1. InSequence
    BY DEF IInv
  <2>2. ASSUME NEW j \in DOMAIN chan', IsRows(j)'
        PROVE  /\ chan'[j].frame.nodes # <<>>
               /\ \A i, k \in DOMAIN chan'[j].frame.nodes : i < k => chan'[j].frame.nodes[i].at <= chan'[j].frame.nodes[k].at
               /\ \A n \in Sent(j)' : n.ino = chan'[j].ver /\ (chan'[j].ver = tail'.inode => n.at < tail'.ackOffset)
    <3>1. CASE j \in DOMAIN chan
      BY <1>9, <1>11, <1>15, <2>1, <2>2, <3>1 DEF InSequence
    <3>2. CASE j \notin DOMAIN chan
      BY <1>12, <1>19, <2>2, <3>2 DEF InOrder
    <3>3. QED
      BY <3>1, <3>2
  <2>3. ASSUME NEW i \in DOMAIN chan', NEW j \in DOMAIN chan', i < j, IsRows(i)', IsRows(j)', chan'[i].ver = chan'[j].ver,
               NEW n \in Sent(i)', NEW m \in Sent(j)'
        PROVE  n.at <= m.at
    <3>1. CASE j \in DOMAIN chan
      BY <1>11, <2>1, <2>3, <3>1 DEF InSequence
    <3>2. CASE j \notin DOMAIN chan
      <4>1. i \notin DOMAIN chan
        BY <1>11, <1>12, <1>15, <2>3, <3>2
      <4>2. QED
        BY <1>13, <2>3, <4>1
    <3>3. QED
      BY <3>1, <3>2
  <2>4. QED
    BY <2>2, <2>3 DEF InSequence
<1>24. FramesValid'
  <2>1. \A j \in DOMAIN chan' : chan'[j].ver = file.ino => j \notin DOMAIN chan
    BY <1>11, <1>15
  <2>2. QED
    BY <1>1, <1>9, <1>12, <1>17, <1>19, <2>1 DEF FramesValid
<1>25. HelloFits'
  <2>1. SUFFICES ASSUME chan' # <<>>, Kind(1)' = "hello" PROVE HelloFits'
    BY DEF HelloFits
  <2>2. 1 \in DOMAIN chan'
    BY <2>1, <1>9 DEF Extended
  <2>3. 1 \in DOMAIN chan
    BY <1>17, <2>1, <2>2
  <2>4. chan'[1] = chan[1] /\ Kind(1) = "hello" /\ chan # <<>> /\ chan[1].ver # file.ino
    BY <1>11, <1>15, <2>1, <2>3
  <2>10. PICK v : v = chan[1].ver
    OBVIOUS
  <2>5. UnderWay(v)' = UnderWay(v)
    <3>1. v # file.ino
      BY <2>4, <2>10
    <3>2. QED
      BY <1>14, <3>1
  <2>6. \A n \in UnderWay(chan[1].ver) : n.at >= chan[1].frame.from
    BY <2>4 DEF IInv, HelloFits
  <2>7. QED
    BY <1>1, <1>9, <2>4, <2>5, <2>6, <2>10 DEF HelloFits
<1>26. FirstFrames'
  <2>1. SUFFICES ASSUME NEW j \in DOMAIN chan', IsRows(j)', chan'[j].ver = file.ino,
                        NEW s \in ShownAts(file.bytes), chan'[j].frame.from <= s, s < tail'.ackOffset
        PROVE  s \in Ats(UnderWay(file.ino))'
    BY <1>1, <1>18 DEF FirstFrames
  <2>2. j \notin DOMAIN chan
    BY <1>11, <1>15, <2>1
  <2>3. s \in Ats(N)
    BY <1>12, <1>19, <2>1, <2>2
  <2>4. PICK v : v = file.ino
    OBVIOUS
  <2>5. UnderWay(v)' = UnderWay(v) \cup N
    BY <1>14, <2>4
  <2>6. \A n \in N : n \in UnderWay(file.ino)'
    BY <1>1, <2>4, <2>5
  <2>7. QED
    BY <2>3, <2>6 DEF Ats
<1>33. PICK v : v = store.ver
  OBVIOUS
<1>27. Synced => UnderWay(v)' = UnderWay(v)
  BY <1>14, <1>16, <1>33
<1>28. WindowFits'
  <2>1. WindowFits
    BY DEF IInv
  <2>2. QED
    BY <1>1, <1>9, <1>16, <1>18, <1>27, <1>33, <2>1 DEF WindowFits
<1>29. WindowCovers'
  <2>1. WindowCovers
    BY DEF IInv
  <2>2. QED
    BY <1>1, <1>16, <1>18, <2>1 DEF WindowCovers
<1>30. EarlierFits'
  BY <1>1, EarlierFitsSame DEF IInv
<1>31. TailPageFits'
  <2>1. TailPageFits
    BY DEF IInv
  <2>2. QED
    BY <1>1, <1>16, <1>18, <2>1 DEF TailPageFits
<1>32. QED
  BY <1>20, <1>21, <1>22, <1>23, <1>24, <1>25, <1>26, <1>28, <1>29, <1>30, <1>31 DEF IInv

\* The poller finds no file.
LEMMA TickGoneKeeps ==
  ASSUME IInv, TickGone
  PROVE  IInv'
<1>1. /\ conn = "open" /\ file.ino = 0
      /\ UNCHANGED <<file, tail, pending, conn, connections, lastSeq, store, request, reloaded, torn>>
  BY DEF TickGone, client, asking, history
<1>2. Typed /\ Versions /\ TailPageFits
  BY DEF IInv
<1>3. PICK sent, ver, z : sent = GoneFrame /\ ver = tail.inode /\ z = Len(chan) + 1
  OBVIOUS
<1>4. file.ino \in Nat /\ tail.inode \in Nat /\ ver \in Nat /\ store.ver \in Nat /\ 1 <= tail.inode /\ tail.inode = ver
  BY <1>1, <1>2, <1>3 DEF Typed, Tails, Stores, Versions
<1>5. sent \in Seq(Frames) /\ DOMAIN sent = {1} /\ sent[1].f = "gone"
  <2>1. [f |-> "gone"] \in Frames
    BY DEF Frames
  <2>2. QED
    BY <1>3, <2>1 DEF GoneFrame
<1>6. Carries(sent, {}, 0, {})
  BY <1>5 DEF Carries
<1>7. Emit(sent, ver)
  BY <1>3 DEF TickGone
<1>8. /\ Extended({}, 0, {}, ver) /\ seq' \in Nat
      /\ \A k \in DOMAIN chan' : k \notin DOMAIN chan => \E j \in DOMAIN sent :
           k = Len(chan) + j /\ chan'[k].frame = sent[j]
      /\ \A j \in DOMAIN sent : Len(chan) + j \in DOMAIN chan' /\ Len(chan) + j \notin DOMAIN chan
                                /\ chan'[Len(chan) + j].frame = sent[j]
  BY <1>2, <1>4, <1>6, <1>7, EmitExtends
<1>11. /\ \A k \in DOMAIN chan : k \in DOMAIN chan' /\ chan'[k] = chan[k] /\ IsRows(k)' = IsRows(k)
                                 /\ Kind(k)' = Kind(k) /\ Sent(k)' = Sent(k) /\ Begins(k)' = Begins(k)
       /\ DOMAIN chan = 1 .. Len(chan) /\ DOMAIN chan' = 1 .. Len(chan') /\ Len(chan) \in Nat /\ Len(chan') \in Nat
       /\ \A k \in DOMAIN chan : chan[k].ver \in Nat
       /\ \A i, k \in DOMAIN chan' : i < k /\ k \in DOMAIN chan => i \in DOMAIN chan
  BY <1>2, <1>8, ExtendedKeeps
<1>12. \A k \in DOMAIN chan' : k \notin DOMAIN chan => k = z /\ chan'[k].ver = ver /\ chan'[k].frame.f = "gone"
  BY <1>3, <1>5, <1>8 DEF Extended
<1>13. \A k \in DOMAIN chan' : k \notin DOMAIN chan => Kind(k)' = "gone" /\ ~IsRows(k)' /\ ~Begins(k)'
  BY <1>12 DEF Kind, IsRows, Begins
<1>14. \A v : UnderWay(v)' = UnderWay(v)
  BY <1>8 DEF Extended
<1>15. \A k \in DOMAIN chan : 1 <= chan[k].ver /\ chan[k].ver <= ver
  BY <1>2, <1>4 DEF Versions
<1>16. /\ Synced' = Synced /\ Good' = Good /\ Shown' = Shown /\ InStore' = InStore /\ ~Live /\ ~Live'
       /\ Anchored' = Anchored /\ \A r : Open(r)' = Open(r)
  BY <1>1, <1>4 DEF Synced, Good, Shown, InStore, Anchored, Open, Live
<1>20. Typed'
  BY <1>1, <1>2, <1>8 DEF Typed, Extended
<1>21. Versions'
  <2>1. \A i \in DOMAIN chan' : 1 <= chan'[i].ver /\ chan'[i].ver <= ver
    BY <1>4, <1>11, <1>12, <1>15
  <2>2. ASSUME NEW i \in DOMAIN chan', NEW j \in DOMAIN chan', i < j
        PROVE  chan'[i].ver <= chan'[j].ver /\ (Begins(j)' => chan'[i].ver < chan'[j].ver)
    <3>1. CASE j \in DOMAIN chan
      BY <1>2, <1>11, <2>2, <3>1 DEF Versions
    <3>2. CASE j \notin DOMAIN chan
      BY <1>12, <1>13, <2>1, <3>2
    <3>3. QED
      BY <3>1, <3>2
  <2>3. ASSUME NEW j \in DOMAIN chan', Kind(j)' = "hello"
        PROVE  j = 1 /\ chan'[j].frame.gen = connections' /\ store'.gen < connections'
    <3>1. j \in DOMAIN chan
      BY <1>13, <2>3
    <3>2. QED
      BY <1>1, <1>2, <1>11, <2>3, <3>1 DEF Versions
  <2>4. ~Synced' => chan' # <<>> /\ Kind(1)' = "hello"
    <3>1. ~Synced => chan # <<>> /\ Kind(1) = "hello"
      BY <1>1, <1>2 DEF Versions
    <3>2. chan # <<>> => 1 \in DOMAIN chan
      BY <1>2 DEF Typed
    <3>3. QED
      BY <1>11, <1>16, <3>1, <3>2
  <2>5. Synced' => /\ store'.ver <= tail'.inode
                   /\ \A j \in DOMAIN chan' : store'.ver <= chan'[j].ver /\ (Begins(j)' => store'.ver < chan'[j].ver)
    <3>1. ASSUME Synced, NEW j \in DOMAIN chan'
          PROVE  store.ver <= chan'[j].ver /\ (Begins(j)' => store.ver < chan'[j].ver)
      <4>1. CASE j \in DOMAIN chan
        BY <1>2, <1>11, <3>1, <4>1 DEF Versions
      <4>2. CASE j \notin DOMAIN chan
        BY <1>2, <1>4, <1>12, <1>13, <3>1, <4>2 DEF Versions
      <4>3. QED
        BY <4>1, <4>2
    <3>2. Synced => store.ver <= tail.inode
      BY <1>2 DEF Versions
    <3>3. QED
      BY <1>1, <1>16, <3>1, <3>2
  <2>6. ASSUME NEW j \in DOMAIN chan', Kind(j)' \in {"rows", "patch"}
        PROVE  (Synced' /\ chan'[j].ver = store'.ver) \/ \E i \in 1 .. j - 1 : Begins(i)' /\ chan'[i].ver = chan'[j].ver
    <3>1. j \in DOMAIN chan
      BY <1>13, <2>6
    <3>2. (Synced /\ chan[j].ver = store.ver) \/ \E i \in 1 .. j - 1 : Begins(i) /\ chan[i].ver = chan[j].ver
      BY <1>1, <1>2, <1>11, <2>6, <3>1 DEF Versions
    <3>3. \A i \in 1 .. j - 1 : i \in DOMAIN chan
      BY <1>11, <3>1
    <3>4. QED
      BY <1>1, <1>11, <1>16, <3>1, <3>2, <3>3
  <2>7. (Synced' /\ store'.ver = tail'.inode) \/ \E i \in DOMAIN chan' : Begins(i)' /\ chan'[i].ver = tail'.inode
    <3>1. (Synced /\ store.ver = tail.inode) \/ \E i \in DOMAIN chan : Begins(i) /\ chan[i].ver = tail.inode
      BY <1>1, <1>2 DEF Versions
    <3>2. QED
      BY <1>1, <1>11, <1>16, <3>1
  <2>8. store'.gen <= connections'
    BY <1>1, <1>2 DEF Versions
  <2>9. QED
    BY <1>1, <1>4, <2>1, <2>2, <2>3, <2>4, <2>5, <2>6, <2>7, <2>8 DEF Versions
<1>22. TailFits'
  BY <1>16 DEF TailFits
<1>23. InSequence'
  <2>1. InSequence
    BY DEF IInv
  <2>2. ASSUME NEW j \in DOMAIN chan', IsRows(j)'
        PROVE  /\ chan'[j].frame.nodes # <<>>
               /\ \A i, k \in DOMAIN chan'[j].frame.nodes : i < k => chan'[j].frame.nodes[i].at <= chan'[j].frame.nodes[k].at
               /\ \A n \in Sent(j)' : n.ino = chan'[j].ver /\ (chan'[j].ver = tail'.inode => n.at < tail'.ackOffset)
    BY <1>1, <1>11, <1>13, <2>1, <2>2 DEF InSequence
  <2>3. ASSUME NEW i \in DOMAIN chan', NEW j \in DOMAIN chan', i < j, IsRows(i)', IsRows(j)', chan'[i].ver = chan'[j].ver,
               NEW n \in Sent(i)', NEW m \in Sent(j)'
        PROVE  n.at <= m.at
    BY <1>11, <1>13, <2>1, <2>3 DEF InSequence
  <2>4. QED
    BY <2>2, <2>3 DEF InSequence
<1>24. FramesValid'
  <2>1. \A j \in DOMAIN chan' : chan'[j].ver # file.ino
    BY <1>1, <1>4, <1>11, <1>12, <1>15
  <2>2. QED
    BY <1>1, <2>1 DEF FramesValid
<1>25. HelloFits'
  <2>1. SUFFICES ASSUME chan' # <<>>, Kind(1)' = "hello" PROVE HelloFits'
    BY DEF HelloFits
  <2>2. chan' \in Seq(Envelopes) /\ 1 \in DOMAIN chan'
    BY <1>8, <2>1 DEF Extended
  <2>3. 1 \in DOMAIN chan
    BY <1>13, <2>1, <2>2
  <2>4. chan'[1] = chan[1] /\ Kind(1) = "hello" /\ chan # <<>> /\ chan[1].ver # file.ino
    BY <1>1, <1>11, <1>15, <2>1, <2>3
  <2>5. PICK v : v = chan[1].ver
    OBVIOUS
  <2>6. UnderWay(v)' = UnderWay(v)
    BY <1>14
  <2>7. /\ \A n \in UnderWay(v) : n.at >= chan[1].frame.from
        /\ chan[1].ver = tail.inode => chan[1].frame.from <= tail.ackOffset
    BY <2>4, <2>5 DEF IInv, HelloFits
  <2>8. QED
    BY <1>1, <2>4, <2>5, <2>6, <2>7 DEF HelloFits
<1>26. FirstFrames'
  BY <1>16 DEF FirstFrames
<1>27. PICK v : v = store.ver
  OBVIOUS
<1>28. UnderWay(v)' = UnderWay(v)
  BY <1>14
<1>29. WindowFits'
  <2>1. WindowFits
    BY DEF IInv
  <2>2. QED
    BY <1>1, <1>16, <1>27, <1>28, <2>1 DEF WindowFits
<1>30. WindowCovers'
  BY <1>1 DEF WindowCovers
<1>31. EarlierFits'
  BY <1>1, EarlierFitsSame DEF IInv
<1>32. TailPageFits'
  BY <1>1, <1>2, <1>16 DEF TailPageFits
<1>33. QED
  BY <1>20, <1>21, <1>22, <1>23, <1>24, <1>25, <1>26, <1>29, <1>30, <1>31, <1>32 DEF IInv

-----------------------------------------------------------------------------
(* A tick finds rows                                                       *)

\* Rows start at places in the file.
LEMMA AtsNat ==
  ASSUME NEW b \in Seq(Byte)
  PROVE  CallAts(b) \subseteq Nat /\ ShownAts(b) \subseteq Nat
BY ShownAre, RowBounds

\* What a tick that reads rows leaves behind.
Polled(z, N, P) ==
  /\ tail' \in Tails /\ tail'.inode = file.ino /\ Follows(file.bytes, tail')
  /\ tail.ackOffset <= tail'.ackOffset
  /\ Calls(file.bytes, pending') /\ seq' \in Nat
  /\ z \in Nat /\ Clean(file.bytes, z) /\ tail.ackOffset <= z
  /\ Emission(file.bytes, tail.ackOffset, tail'.ackOffset, z, file.ino, N)
  /\ P \subseteq CallAts(file.bytes)
  /\ TickTells(file.bytes, tail.ackOffset, tail'.ackOffset, N, P)
  /\ Extended(N, z, P, file.ino)
  /\ \A k \in DOMAIN chan' : k \notin DOMAIN chan => chan'[k].frame.f \in {"rows", "patch"}

\* What TickRows names, each part by itself.
PollEnd       == Min({Len(file.bytes), tail.offset + TickReadCap})
PollChunk     == SubSeq(file.bytes, tail.offset + 1, PollEnd)
PollTick      == AdvanceTail(tail, PollChunk, file.ino)
PollBase      == tail.offset - Len(tail.carry)
PollConfirmed == SubSeq(tail.carry \o PollChunk, 1, PollTick.state.ackOffset - PollBase)
PollNodes     == {Node(PollBase + row.at, ParsedKind(row.text), file.ino) : row \in Rows(PollConfirmed)}
                   \cup {Node(at, "oversized", file.ino) : at \in PollTick.oversized}
PollPaired    == Pair(PollNodes, pending)

\* A tick that finds the same file emits what it read.
LEMMA TickRowsIs ==
  ASSUME Typed, TailFits, Live, TickRows
  PROVE  \E z, N, P : Polled(z, N, P)
<1>1. PICK b, ino, t, old : b = file.bytes /\ ino = file.ino /\ t = tail /\ old = pending
  OBVIOUS
<1>2. b \in Seq(Byte) /\ IsTranscript(b) /\ ino \in Nat /\ t \in Tails /\ Follows(b, t) /\ Calls(b, old)
  BY <1>1 DEF Typed, TailFits, Calls
<1>3. PICK end, d, tick, z, q, N : end = PollEnd /\ d = PollChunk /\ tick = PollTick /\ z = PollBase
                                   /\ q = PollConfirmed /\ N = PollNodes
  OBVIOUS
<1>9. PICK R, P : R = Pair(N, old) /\ P = R.patches
  OBVIOUS
<1>10. PICK sent : sent = RowsFrames(InFileOrder(R.nodes), z) \o PatchFrames(P)
  OBVIOUS
<1>11. /\ tail' = tick.state /\ pending' = R.pending /\ Emit(sent, ino)
  <2>1. /\ tail' = PollTick.state /\ pending' = PollPaired.pending
        /\ Emit(RowsFrames(InFileOrder(PollPaired.nodes), PollBase) \o PatchFrames(PollPaired.patches), file.ino)
    BY DEF TickRows, PollEnd, PollChunk, PollTick, PollBase, PollConfirmed, PollNodes, PollPaired
  <2>2. PollPaired = R
    BY <1>1, <1>3, <1>9 DEF PollPaired
  <2>3. RowsFrames(InFileOrder(PollPaired.nodes), PollBase) \o PatchFrames(PollPaired.patches) = sent
    BY <1>3, <1>9, <1>10, <2>2
  <2>4. QED
    BY <1>1, <1>3, <2>1, <2>2, <2>3
<1>12. Advances(b, t, tick.state, z, ino, R)
  <2>1. ReadTo(b, t, end) /\ ChunkOf(b, t, end, d) /\ Ticked(tick, t, d, ino) /\ BaseOf(t, z)
    BY <1>1, <1>3 DEF ReadTo, ChunkOf, Ticked, BaseOf, PollEnd, PollChunk, PollTick, PollBase
  <2>2. ConfirmedOf(t, d, z, tick.state, q)
    BY <1>1, <1>3 DEF ConfirmedOf, PollConfirmed
  <2>4. NodesFor(tick, z, q, ino, N)
    BY <1>1, <1>3 DEF NodesFor, PollNodes
  <2>3. QED
    BY <1>2, <1>9, <2>1, <2>2, <2>4, TickIs
<1>13. PICK u : u = tail'
  OBVIOUS
<1>14. /\ u \in Tails /\ Follows(b, u) /\ u.inode = ino /\ t.ackOffset <= u.ackOffset
       /\ z \in Nat /\ Clean(b, z) /\ t.ackOffset <= z
       /\ Emission(b, t.ackOffset, u.ackOffset, z, ino, R.nodes)
       /\ R.patches \subseteq CallAts(b) /\ Calls(b, R.pending)
       /\ TickTells(b, t.ackOffset, u.ackOffset, R.nodes, R.patches)
  BY <1>11, <1>12, <1>13 DEF Advances
<1>15. P \subseteq Nat
  <2>1. CallAts(b) \subseteq Nat /\ ShownAts(b) \subseteq Nat
    BY <1>2, AtsNat
  <2>2. QED
    BY <1>9, <1>14, <2>1
<1>16. PICK F : F = RowsFrames(InFileOrder(R.nodes), z)
  OBVIOUS
<1>17. Carries(F, R.nodes, z, {}) /\ \A j \in DOMAIN F : F[j].f = "rows"
  BY <1>14, <1>16, RowsSent
<1>18. Carries(sent, R.nodes, z, P) /\ \A j \in DOMAIN sent : sent[j].f \in {"rows", "patch"}
  <2>1. sent = F \o PatchFrames(P)
    BY <1>10, <1>16
  <2>2. QED
    BY <1>15, <1>17, <2>1, TickSent
<1>19. /\ Extended(R.nodes, z, P, ino) /\ seq' \in Nat
       /\ \A k \in DOMAIN chan' : k \notin DOMAIN chan => \E j \in DOMAIN sent :
            k = Len(chan) + j /\ chan'[k].frame = sent[j]
  BY <1>2, <1>11, <1>18, EmitExtends
<1>20. \A k \in DOMAIN chan' : k \notin DOMAIN chan => chan'[k].frame.f \in {"rows", "patch"}
  BY <1>18, <1>19
<1>21. Polled(z, R.nodes, P)
  BY <1>1, <1>9, <1>11, <1>13, <1>14, <1>19, <1>20 DEF Polled
<1>22. QED
  BY <1>21

\* What is under way has its place in the file.
LEMMA SentNodes ==
  ASSUME Typed
  PROVE  \A j \in DOMAIN chan : IsRows(j) => \A n \in Sent(j) : n \in AnyNode /\ n.at \in Nat
<1>1. ASSUME NEW j \in DOMAIN chan, IsRows(j), NEW n \in Sent(j) PROVE n \in AnyNode
  <2>1. chan[j] \in Envelopes
    BY DEF Typed
  <2>2. chan[j].frame.nodes \in Seq(AnyNode)
    BY <1>1, <2>1 DEF Envelopes, Frames, IsRows, Kind
  <2>3. QED
    BY <1>1, <2>2 DEF Sent, ToSet
<1>2. QED
  BY <1>1 DEF AnyNode

\* A tick's rows and patches are sent: what the tail passed is under way.
LEMMA TickRowsKeeps ==
  ASSUME IInv, TickRows
  PROVE  IInv'
<1>1. /\ conn = "open" /\ file.ino # 0 /\ ~Rotated
      /\ UNCHANGED <<file, conn, connections, lastSeq, store, request, reloaded, torn>>
  BY DEF TickRows, client, asking, history
<1>2. Typed /\ Versions /\ TailFits
  BY DEF IInv
<1>3. PICK ino, ack : ino = file.ino /\ ack = tail.ackOffset
  OBVIOUS
<1>4. /\ ino \in Nat /\ ack \in Nat /\ store.ver \in Nat /\ 1 <= ino /\ tail.inode = ino /\ Live /\ reloaded \in Nat
      /\ store.first \in Nat /\ \A m \in InStore : m.at \in Nat
  <2>1. tail.inode \in Nat /\ 1 <= tail.inode /\ file.ino \in Nat /\ ack \in Nat /\ store.ver \in Nat /\ reloaded \in Nat
        /\ store.first \in Nat /\ store.nodes \in Seq(AnyNode)
    BY <1>1, <1>2, <1>3 DEF Typed, Tails, Stores, Versions
  <2>2. \A m \in InStore : m \in AnyNode
    BY <2>1 DEF InStore, ToSet
  <2>3. QED
    BY <1>1, <1>3, <2>1, <2>2 DEF Rotated, Live, AnyNode
<1>5. PICK z, N, P : Polled(z, N, P)
  BY <1>2, <1>4, TickRowsIs
<1>6. /\ tail' \in Tails /\ tail'.inode = ino /\ Follows(file.bytes, tail') /\ ack <= tail'.ackOffset
      /\ Calls(file.bytes, pending') /\ seq' \in Nat
      /\ z \in Nat /\ Clean(file.bytes, z) /\ ack <= z
      /\ P \subseteq CallAts(file.bytes)
      /\ Extended(N, z, P, ino)
      /\ \A k \in DOMAIN chan' : k \notin DOMAIN chan => chan'[k].frame.f \in {"rows", "patch"}
  BY <1>3, <1>5 DEF Polled
<1>7. /\ \A n \in N : /\ n \in AnyNode /\ n.at \in Nat /\ n.ino = ino /\ ack <= n.at /\ n.at < tail'.ackOffset
                      /\ Valid(file.bytes, n) /\ FitsFrom(file.bytes, n, z)
      /\ \A s \in ShownAts(file.bytes) : ack <= s /\ s < tail'.ackOffset => s \in Ats(N)
  BY <1>3, <1>5 DEF Polled, Emission, AnyNode
<1>8. tail'.ackOffset \in Nat /\ ShownAts(file.bytes) \subseteq Nat
  BY <1>2, <1>6, AtsNat DEF Tails, Typed
<1>11. /\ \A k \in DOMAIN chan : k \in DOMAIN chan' /\ chan'[k] = chan[k] /\ IsRows(k)' = IsRows(k)
                                 /\ Kind(k)' = Kind(k) /\ Sent(k)' = Sent(k) /\ Begins(k)' = Begins(k)
       /\ DOMAIN chan = 1 .. Len(chan) /\ DOMAIN chan' = 1 .. Len(chan') /\ Len(chan) \in Nat /\ Len(chan') \in Nat
       /\ \A k \in DOMAIN chan : chan[k].ver \in Nat
       /\ \A i, k \in DOMAIN chan' : i < k /\ k \in DOMAIN chan => i \in DOMAIN chan
  BY <1>2, <1>6, ExtendedKeeps
<1>12. \A k \in DOMAIN chan' : k \notin DOMAIN chan =>
          /\ chan'[k].ver = ino
          /\ IsRows(k)' => /\ chan'[k].frame.nodes # <<>> /\ chan'[k].frame.from = z
                           /\ InOrder(chan'[k].frame.nodes)
                           /\ \A n \in Sent(k)' : n \in N
          /\ Kind(k)' = "patch" => chan'[k].frame.ids \subseteq P
          /\ \A i \in DOMAIN chan : i < k
  BY <1>6 DEF Extended
<1>13. \A k \in DOMAIN chan' : k \notin DOMAIN chan => Kind(k)' \in {"rows", "patch"} /\ ~Begins(k)'
  BY <1>6 DEF Kind, Begins
<1>14. \A i, k \in DOMAIN chan' : i < k /\ i \notin DOMAIN chan /\ IsRows(i)' /\ IsRows(k)' =>
          k \notin DOMAIN chan /\ \A n \in Sent(i)', m \in Sent(k)' : n.at <= m.at
  BY <1>6 DEF Extended
<1>15. /\ UnderWay(ino)' = UnderWay(ino) \cup N
       /\ \A v : v # ino => UnderWay(v)' = UnderWay(v)
  BY <1>6 DEF Extended
<1>16. Ats(UnderWay(ino))' = Ats(UnderWay(ino)) \cup Ats(N)
  BY <1>15 DEF Ats
<1>17. \A k \in DOMAIN chan : 1 <= chan[k].ver /\ chan[k].ver <= ino
  BY <1>2, <1>4 DEF Versions
<1>18. /\ Synced' = Synced /\ Good' = Good /\ Shown' = ShownAts(file.bytes) /\ Shown = ShownAts(file.bytes)
       /\ InStore' = InStore /\ Live' /\ Anchored' = Anchored /\ \A r : Open(r)' = Open(r)
  BY <1>1, <1>3, <1>6 DEF Synced, Good, Shown, InStore, Anchored, Open, Live
<1>19. PICK v : v = store.ver
  OBVIOUS
<1>20. Typed'
  BY <1>1, <1>2, <1>6 DEF Typed, Calls, Extended
<1>21. Versions'
  <2>1. \A i \in DOMAIN chan' : 1 <= chan'[i].ver /\ chan'[i].ver <= ino
    BY <1>4, <1>11, <1>12, <1>17
  <2>2. ASSUME NEW i \in DOMAIN chan', NEW j \in DOMAIN chan', i < j
        PROVE  chan'[i].ver <= chan'[j].ver /\ (Begins(j)' => chan'[i].ver < chan'[j].ver)
    <3>1. CASE j \in DOMAIN chan
      BY <1>2, <1>11, <2>2, <3>1 DEF Versions
    <3>2. CASE j \notin DOMAIN chan
      BY <1>12, <1>13, <2>1, <3>2
    <3>3. QED
      BY <3>1, <3>2
  <2>3. ASSUME NEW j \in DOMAIN chan', Kind(j)' = "hello"
        PROVE  j = 1 /\ chan'[j].frame.gen = connections' /\ store'.gen < connections'
    <3>1. j \in DOMAIN chan
      BY <1>13, <2>3
    <3>2. QED
      BY <1>1, <1>2, <1>11, <2>3, <3>1 DEF Versions
  <2>4. ~Synced' => chan' # <<>> /\ Kind(1)' = "hello"
    <3>1. ~Synced => chan # <<>> /\ Kind(1) = "hello"
      BY <1>1, <1>2 DEF Versions
    <3>2. chan # <<>> => 1 \in DOMAIN chan
      BY <1>2 DEF Typed
    <3>3. QED
      BY <1>11, <1>18, <3>1, <3>2
  <2>5. Synced' => /\ store'.ver <= tail'.inode
                   /\ \A j \in DOMAIN chan' : store'.ver <= chan'[j].ver /\ (Begins(j)' => store'.ver < chan'[j].ver)
    <3>1. ASSUME Synced, NEW j \in DOMAIN chan'
          PROVE  store.ver <= chan'[j].ver /\ (Begins(j)' => store.ver < chan'[j].ver)
      <4>1. CASE j \in DOMAIN chan
        BY <1>2, <1>11, <3>1, <4>1 DEF Versions
      <4>2. CASE j \notin DOMAIN chan
        BY <1>2, <1>4, <1>12, <1>13, <3>1, <4>2 DEF Versions
      <4>3. QED
        BY <4>1, <4>2
    <3>2. Synced => store.ver <= ino
      BY <1>2, <1>4 DEF Versions
    <3>3. QED
      BY <1>1, <1>6, <1>18, <3>1, <3>2
  <2>6. ASSUME NEW j \in DOMAIN chan', Kind(j)' \in {"rows", "patch"}
        PROVE  (Synced' /\ chan'[j].ver = store'.ver) \/ \E i \in 1 .. j - 1 : Begins(i)' /\ chan'[i].ver = chan'[j].ver
    <3>1. CASE j \in DOMAIN chan
      <4>1. (Synced /\ chan[j].ver = store.ver) \/ \E i \in 1 .. j - 1 : Begins(i) /\ chan[i].ver = chan[j].ver
        BY <1>1, <1>2, <1>11, <2>6, <3>1 DEF Versions
      <4>2. \A i \in 1 .. j - 1 : i \in DOMAIN chan
        BY <1>11, <3>1
      <4>3. QED
        BY <1>1, <1>11, <1>18, <3>1, <4>1, <4>2
    <3>2. CASE j \notin DOMAIN chan
      <4>1. (Synced /\ store.ver = ino) \/ \E i \in DOMAIN chan : Begins(i) /\ chan[i].ver = ino
        BY <1>1, <1>2, <1>4 DEF Versions
      <4>2. \A i \in DOMAIN chan : i \in 1 .. j - 1
        BY <1>11, <1>12, <3>2
      <4>3. QED
        BY <1>1, <1>11, <1>12, <1>18, <3>2, <4>1, <4>2
    <3>3. QED
      BY <3>1, <3>2
  <2>7. (Synced' /\ store'.ver = tail'.inode) \/ \E i \in DOMAIN chan' : Begins(i)' /\ chan'[i].ver = tail'.inode
    <3>1. (Synced /\ store.ver = ino) \/ \E i \in DOMAIN chan : Begins(i) /\ chan[i].ver = ino
      BY <1>1, <1>2, <1>4 DEF Versions
    <3>2. QED
      BY <1>1, <1>6, <1>11, <1>18, <3>1
  <2>8. store'.gen <= connections' /\ (file'.ino # 0 => store'.ver <= file'.ino)
    BY <1>1, <1>2 DEF Versions
  <2>9. tail'.inode >= 1 /\ tail'.inode <= file'.ino
    BY <1>1, <1>3, <1>4, <1>6
  <2>10. QED
    BY <1>1, <1>6, <2>1, <2>2, <2>3, <2>4, <2>5, <2>6, <2>7, <2>8, <2>9 DEF Versions
<1>22. TailFits'
  BY <1>1, <1>6 DEF TailFits, Calls
<1>23. InSequence'
  <2>1. InSequence
    BY DEF IInv
  <2>2. ASSUME NEW j \in DOMAIN chan', IsRows(j)'
        PROVE  /\ chan'[j].frame.nodes # <<>>
               /\ \A i, k \in DOMAIN chan'[j].frame.nodes : i < k => chan'[j].frame.nodes[i].at <= chan'[j].frame.nodes[k].at
               /\ \A n \in Sent(j)' : n.ino = chan'[j].ver /\ (chan'[j].ver = tail'.inode => n.at < tail'.ackOffset)
    <3>1. CASE j \in DOMAIN chan
      <4>1. /\ chan[j].frame.nodes # <<>>
            /\ \A i, k \in DOMAIN chan[j].frame.nodes : i < k => chan[j].frame.nodes[i].at <= chan[j].frame.nodes[k].at
            /\ \A n \in Sent(j) : n.ino = chan[j].ver /\ (chan[j].ver = ino => n.at < ack)
        BY <1>3, <1>4, <1>11, <2>1, <2>2, <3>1 DEF InSequence
      <4>2. \A n \in Sent(j) : n.at \in Nat
        BY <1>2, <1>11, <2>2, <3>1, SentNodes
      <4>3. \A n \in Sent(j) : n.ino = chan[j].ver /\ (chan[j].ver = ino => n.at < tail'.ackOffset)
        BY <1>4, <1>6, <1>8, <4>1, <4>2
      <4>4. QED
        BY <1>6, <1>11, <3>1, <4>1, <4>3
    <3>2. CASE j \notin DOMAIN chan
      BY <1>6, <1>7, <1>12, <2>2, <3>2 DEF InOrder
    <3>3. QED
      BY <3>1, <3>2
  <2>3. ASSUME NEW i \in DOMAIN chan', NEW j \in DOMAIN chan', i < j, IsRows(i)', IsRows(j)', chan'[i].ver = chan'[j].ver,
               NEW n \in Sent(i)', NEW m \in Sent(j)'
        PROVE  n.at <= m.at
    <3>1. CASE j \in DOMAIN chan
      BY <1>11, <2>1, <2>3, <3>1 DEF InSequence
    <3>2. CASE j \notin DOMAIN chan /\ i \notin DOMAIN chan
      BY <1>14, <2>3, <3>2
    <3>3. CASE j \notin DOMAIN chan /\ i \in DOMAIN chan
      <4>1. chan[i].ver = ino /\ n \in Sent(i) /\ IsRows(i) /\ m \in N
        BY <1>11, <1>12, <2>3, <3>3
      <4>2. n.at < ack /\ n.at \in Nat
        BY <1>2, <1>3, <1>4, <2>1, <3>3, <4>1, SentNodes DEF InSequence
      <4>3. QED
        BY <1>4, <1>7, <4>1, <4>2
    <3>4. QED
      BY <3>1, <3>2, <3>3
  <2>4. QED
    BY <2>2, <2>3 DEF InSequence
<1>24. FramesValid'
  <2>1. ASSUME NEW j \in DOMAIN chan', chan'[j].ver = file.ino
        PROVE  /\ IsRows(j)' => /\ Clean(file.bytes, chan'[j].frame.from)
                                /\ \A n \in Sent(j)' : Valid(file.bytes, n) /\ FitsFrom(file.bytes, n, chan'[j].frame.from)
               /\ Kind(j)' = "patch" => chan'[j].frame.ids \subseteq CallAts(file.bytes)
    <3>1. CASE j \in DOMAIN chan
      BY <1>11, <2>1, <3>1 DEF IInv, FramesValid
    <3>2. CASE j \notin DOMAIN chan
      BY <1>6, <1>7, <1>12, <3>2
    <3>3. QED
      BY <3>1, <3>2
  <2>2. QED
    BY <1>1, <2>1 DEF FramesValid
<1>25. HelloFits'
  <2>1. SUFFICES ASSUME chan' # <<>>, Kind(1)' = "hello" PROVE HelloFits'
    BY DEF HelloFits
  <2>2. chan' \in Seq(Envelopes) /\ 1 \in DOMAIN chan'
    BY <1>6, <2>1 DEF Extended
  <2>3. 1 \in DOMAIN chan
    BY <1>13, <2>1, <2>2
  <2>4. chan'[1] = chan[1] /\ Kind(1) = "hello" /\ chan # <<>>
    BY <1>11, <2>1, <2>3
  <2>5. PICK w, from : w = chan[1].ver /\ from = chan[1].frame.from
    OBVIOUS
  <2>6. /\ \A n \in UnderWay(w) : n.at >= from
        /\ w = ino => from <= ack
        /\ w = ino => Clean(file.bytes, from)
        /\ w = ino => \A s \in Shown : from <= s /\ s < ack => s \in Ats(UnderWay(ino))
    BY <1>3, <1>4, <2>4, <2>5 DEF IInv, HelloFits
  <2>7. from \in Nat
    <3>1. chan[1] \in Envelopes
      BY <1>2, <2>3 DEF Typed
    <3>2. QED
      BY <2>4, <2>5, <3>1 DEF Kind, Envelopes, Frames
  <2>8. \A n \in UnderWay(w)' : n.at >= from
    <3>1. CASE w = ino
      BY <1>4, <1>7, <1>15, <2>6, <2>7, <3>1
    <3>2. CASE w # ino
      BY <1>15, <2>6, <3>2
    <3>3. QED
      BY <3>1, <3>2
  <2>9. w = ino => from <= tail'.ackOffset
    BY <1>4, <1>6, <1>8, <2>6, <2>7
  <2>10. ASSUME w = ino, NEW s \in ShownAts(file.bytes), from <= s, s < tail'.ackOffset
         PROVE  s \in Ats(UnderWay(ino))'
    BY <1>4, <1>7, <1>8, <1>16, <1>18, <2>6, <2>10
  <2>11. QED
    BY <1>1, <1>3, <1>6, <1>18, <2>4, <2>5, <2>6, <2>8, <2>9, <2>10 DEF HelloFits
<1>26. FirstFrames'
  <2>1. SUFFICES ASSUME NEW j \in DOMAIN chan', IsRows(j)', chan'[j].ver = ino,
                        \A i \in 1 .. j - 1 : ~(IsRows(i)' /\ chan'[i].ver = ino),
                        Synced /\ store.ver = ino => Good /\ store.nodes = <<>>,
                        NEW s \in ShownAts(file.bytes), chan'[j].frame.from <= s, s < tail'.ackOffset
        PROVE  s \in Ats(UnderWay(ino))'
    BY <1>1, <1>3, <1>18 DEF FirstFrames
  <2>2. CASE j \in DOMAIN chan
    <3>1. \A i \in 1 .. j - 1 : i \in DOMAIN chan
      BY <1>11, <2>2
    <3>2. \A i \in 1 .. j - 1 : ~(IsRows(i) /\ chan[i].ver = ino)
      BY <1>11, <2>1, <3>1
    <3>3. s < ack => s \in Ats(UnderWay(ino))
      BY <1>3, <1>4, <1>11, <1>18, <2>1, <2>2, <3>2 DEF IInv, FirstFrames
    <3>4. QED
      BY <1>4, <1>7, <1>8, <1>16, <2>1, <3>3
  <2>3. CASE j \notin DOMAIN chan
    <3>1. z <= s
      BY <1>12, <2>1, <2>3
    <3>2. ack <= s
      BY <1>4, <1>6, <1>8, <3>1
    <3>3. QED
      BY <1>7, <1>16, <2>1, <3>2
  <2>4. QED
    BY <2>2, <2>3
<1>27. WindowFits'
  <2>1. SUFFICES ASSUME Good PROVE WindowFits'
    BY <1>18 DEF WindowFits
  <2>2. /\ Ascends(store.nodes)
        /\ \A m \in InStore : m.ino = store.ver
        /\ ~store.following => Len(store.nodes) >= WindowCap
        /\ store.newBelow > 0 => ~store.following
        /\ store.ver = 0 => store.nodes = <<>> /\ ~store.truncatedBefore
        /\ Synced /\ store.following => \A n \in UnderWay(v) : n.at < reloaded \/ \A m \in InStore : m.at <= n.at
        /\ Synced /\ store.ver = ino => \A m \in InStore : m.at < ack \/ m.at < reloaded
        /\ Synced /\ store.nodes = <<>> /\ store.truncatedBefore =>
             /\ \A n \in UnderWay(v) : n.at >= store.first
             /\ store.ver = ino => store.first <= ack
    BY <1>3, <1>4, <1>19, <2>1 DEF IInv, WindowFits
  <2>3. ASSUME Synced, store.following, NEW n \in UnderWay(v)'
        PROVE  n.at < reloaded \/ \A m \in InStore : m.at <= n.at
    <3>1. CASE n \in UnderWay(v)
      BY <2>2, <2>3, <3>1
    <3>2. CASE n \notin UnderWay(v)
      <4>1. n \in N /\ v = ino
        BY <1>15, <2>3, <3>2
      <4>2. QED
        BY <1>4, <1>7, <1>19, <2>2, <2>3, <4>1
    <3>3. QED
      BY <3>1, <3>2
  <2>4. Synced /\ store.ver = ino => \A m \in InStore : m.at < tail'.ackOffset \/ m.at < reloaded
    BY <1>4, <1>6, <1>8, <2>2
  <2>5. ASSUME Synced, store.nodes = <<>>, store.truncatedBefore
        PROVE  /\ \A n \in UnderWay(v)' : n.at >= store.first
               /\ store.ver = ino => store.first <= tail'.ackOffset
    <3>1. ASSUME NEW n \in UnderWay(v)' PROVE n.at >= store.first
      <4>1. CASE n \in UnderWay(v)
        BY <2>2, <2>5, <4>1
      <4>2. CASE n \notin UnderWay(v)
        <5>1. n \in N /\ v = ino
          BY <1>15, <3>1, <4>2
        <5>2. QED
          BY <1>4, <1>7, <1>19, <2>2, <2>5, <5>1
      <4>3. QED
        BY <4>1, <4>2
    <3>2. QED
      BY <1>4, <1>6, <1>8, <2>2, <2>5, <3>1
  <2>6. QED
    BY <1>1, <1>6, <1>18, <1>19, <2>2, <2>3, <2>4, <2>5 DEF WindowFits
<1>28. WindowCovers'
  <2>1. SUFFICES ASSUME Good, store.ver = ino PROVE WindowCovers'
    BY <1>1, <1>3, <1>18 DEF WindowCovers
  <2>2. /\ \A m \in InStore : Valid(file.bytes, m) /\ FitsFrom(file.bytes, m, store.first)
        /\ \A s \in Shown, m \in InStore : store.first <= s /\ s <= m.at => s \in Held(store.nodes)
        /\ Anchored => Clean(file.bytes, store.first)
        /\ Synced /\ store.following /\ Anchored =>
             \A s \in Shown : store.first <= s /\ s < ack => s \in Held(store.nodes) \cup Ats(UnderWay(ino))
    BY <1>1, <1>3, <1>4, <2>1 DEF IInv, WindowCovers
  <2>3. ASSUME Synced, store.following, Anchored, NEW s \in ShownAts(file.bytes), store.first <= s, s < tail'.ackOffset
        PROVE  s \in Held(store.nodes) \cup Ats(UnderWay(ino))'
    <3>1. CASE s < ack
      BY <1>16, <1>18, <2>2, <2>3, <3>1
    <3>2. CASE ~(s < ack)
      BY <1>4, <1>7, <1>8, <1>16, <2>3, <3>2
    <3>3. QED
      BY <3>1, <3>2
  <2>4. Synced' /\ Live' /\ store'.following /\ Anchored' =>
          \A s \in Shown' : store'.first <= s /\ s < tail'.ackOffset => s \in Held(store'.nodes) \cup Ats(UnderWay(ino))'
    BY <1>1, <1>18, <2>3
  <2>5. QED
    BY <1>1, <1>3, <1>18, <2>1, <2>2, <2>4 DEF WindowCovers
<1>29. EarlierFits'
  BY <1>1, EarlierFitsSame DEF IInv
<1>30. TailPageFits'
  <2>1. SUFFICES ASSUME Open("tail") PROVE TailPageFits'
    BY <1>18 DEF TailPageFits
  <2>2. store.newBelow > 0
    BY <2>1 DEF IInv, TailPageFits
  <2>3. PICK p : p = request["tail"].page
    OBVIOUS
  <2>4. Good => /\ Ascends(p.nodes) /\ p.nodes # <<>>
                /\ \A n \in ToSet(p.nodes) : n.ino = store.ver /\ n.at < p.to
                /\ \A m \in InStore : m.at < p.to
                /\ store.ver = file.ino /\ file.ino # 0 =>
                     /\ \A n \in ToSet(p.nodes) : Valid(file.bytes, n) /\ n.at >= p.from
                     /\ Clean(file.bytes, p.from) /\ Clean(file.bytes, p.to)
                     /\ \A s \in Shown :
                          /\ p.from <= s /\ s < p.to => s \in Held(p.nodes)
                          /\ Synced /\ p.to <= s /\ s < ack => s \in Ats(UnderWay(ino))
    BY <1>3, <1>4, <2>1, <2>3 DEF IInv, TailPageFits
  <2>5. ASSUME Good, store.ver = ino, Synced, NEW s \in ShownAts(file.bytes), p.to <= s, s < tail'.ackOffset
        PROVE  s \in Ats(UnderWay(ino))'
    <3>1. CASE s < ack
      BY <1>3, <1>4, <1>16, <1>18, <2>4, <2>5, <3>1
    <3>2. CASE ~(s < ack)
      BY <1>4, <1>7, <1>8, <1>16, <2>5, <3>2
    <3>3. QED
      BY <3>1, <3>2
  <2>6. ASSUME Good', store'.ver = file'.ino, file'.ino # 0, Synced', Live', NEW s \in Shown', p.to <= s, s < tail'.ackOffset
        PROVE  s \in Ats(UnderWay(store.ver))'
    BY <1>1, <1>3, <1>18, <2>5, <2>6
  <2>7. QED
    BY <1>1, <1>18, <2>2, <2>3, <2>4, <2>6 DEF TailPageFits
<1>31. QED
  BY <1>20, <1>21, <1>22, <1>23, <1>24, <1>25, <1>26, <1>27, <1>28, <1>29, <1>30 DEF IInv

=============================================================================
