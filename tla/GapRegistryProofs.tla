------------------------- MODULE GapRegistryProofs -------------------------
(***************************************************************************)
(* Theorems about GapRegistry, for any cards, files and greps and any      *)
(* number of edits, reports, rulings and faults: types, what a registry    *)
(* may hold, what the debts rest on, and what the closing pass sees.       *)
(***************************************************************************)
EXTENDS GapRegistry, FiniteSetTheorems, SequenceTheorems, WellFoundedInduction, TLAPS
-----------------------------------------------------------------------------
(* Numbers and places                                                      *)

\* A set of numbers that is not empty has a least one.
LEMMA LeastIs ==
  ASSUME NEW S \in SUBSET Nat, S # {}
  PROVE  \E m \in S : \A n \in S : m <= n
<1>1. PICK m \in S : \A n \in S : ~(<<n, m>> \in OpToRel(<, Nat))
  BY NatLessThanWellFounded, WFMin
<1>2. ASSUME NEW n \in S PROVE m <= n
  <2>1. m \in Nat /\ n \in Nat
    OBVIOUS
  <2>2. CASE n < m
    <3>1. <<n, m>> \in OpToRel(<, Nat)
      BY <2>1, <2>2 DEF OpToRel
    <3>2. QED
      BY <1>1, <3>1
  <2>3. QED
    BY <2>1, <2>2
<1>3. QED
  BY <1>2

\* The greatest of some numbers that have a bound.
LEMMA MaxIs ==
  ASSUME NEW S \in SUBSET Nat, S # {}, NEW b \in Nat, \A s \in S : s <= b
  PROVE  Max(S) \in S /\ \A s \in S : s <= Max(S)
<1> DEFINE U == {n \in Nat : \A s \in S : s <= n}
<1>1. U \in SUBSET Nat /\ U # {}
  OBVIOUS
<1>2. PICK m \in U : \A n \in U : m <= n
  <2> HIDE DEF U
  <2>1. QED
    BY <1>1, LeastIs
<1>3. ASSUME m \notin S PROVE FALSE
  <2>1. PICK s \in S : TRUE
    OBVIOUS
  <2>2. s \in Nat /\ s <= m /\ m \in Nat
    OBVIOUS
  <2>3. ASSUME NEW q \in S PROVE q <= m - 1
    <3>1. q \in Nat /\ q <= m /\ q # m
      BY <1>3
    <3>2. QED
      BY <2>2, <3>1
  <2>4. m - 1 \in Nat
    BY <2>2, <2>3
  <2>5. m - 1 \in U
    BY <2>3, <2>4
  <2>6. QED
    BY <1>2, <2>2, <2>5
<1>4. \A y \in S : m >= y
  OBVIOUS
<1>5. \E x \in S : \A y \in S : x >= y
  BY <1>3, <1>4
<1>6. Max(S) \in S /\ \A y \in S : Max(S) >= y
  BY <1>5 DEF Max
<1>7. QED
  BY <1>6

\* The k-th of some places is one of them.
LEMMA InOrderIs ==
  ASSUME NEW n \in Nat, NEW S \in SUBSET (1 .. n)
  PROVE  /\ IsFiniteSet(S) /\ Cardinality(S) \in Nat
         /\ DOMAIN InOrder(S) = 1 .. Cardinality(S)
         /\ \A k \in 1 .. Cardinality(S) : InOrder(S)[k] \in S
<1>0. \A j \in S : j \in Int /\ 1 <= j /\ j <= n
  OBVIOUS
<1>1. IsFiniteSet(1 .. n)
  BY FS_Interval
<1>2. IsFiniteSet(S) /\ Cardinality(S) \in Nat
  BY <1>1, FS_Subset, FS_CardinalityType
<1> DEFINE Upto(b) == {j \in S : j <= b}
<1>3. ASSUME NEW b \in Int
      PROVE  IsFiniteSet(Upto(b)) /\ Cardinality(Upto(b)) \in Nat
  <2>1. Upto(b) \in SUBSET S
    OBVIOUS
  <2> HIDE DEF Upto
  <2>2. QED
    BY <1>2, <2>1, FS_Subset, FS_CardinalityType
<1>4. ASSUME NEW k \in 1 .. Cardinality(S)
      PROVE  \E i \in S : Cardinality({j \in S : j < i}) = k - 1
  <2> DEFINE B == {b \in 0 .. n : Cardinality(Upto(b)) >= k}
  <2>1. Upto(n) = S
    BY <1>0
  <2>2. B \in SUBSET Nat
    OBVIOUS
  <2>3. n \in B
    <3>1. n \in 0 .. n /\ Cardinality(S) >= k
      BY <1>2
    <3> HIDE DEF Upto
    <3>2. QED
      BY <2>1, <3>1
  <2>4. PICK b \in B : \A a \in B : b <= a
    <3> HIDE DEF B
    <3>1. QED
      BY <2>2, <2>3, LeastIs
  <2>5. b \in 0 .. n /\ Cardinality(Upto(b)) >= k
    OBVIOUS
  <2>6. b # 0
    <3>1. \A j \in S : ~(j <= 0)
      BY <1>0
    <3>2. Upto(0) = {}
      BY <3>1
    <3> HIDE DEF Upto
    <3>3. QED
      BY <2>5, <3>2, FS_EmptySet
  <2>7. b - 1 \in 0 .. n /\ b - 1 \notin B
    <3>1. b \in Nat /\ b - 1 \in 0 .. n
      BY <2>5, <2>6
    <3> HIDE DEF B
    <3>2. QED
      BY <2>4, <3>1
  <2>8. ~(Cardinality(Upto(b - 1)) >= k)
    <3> HIDE DEF Upto
    <3>1. QED
      BY <2>7
  <2> HIDE DEF B
  <2>16. b \in Int /\ \A j \in S : (j <= b - 1 <=> j < b) /\ (j <= b <=> j < b \/ j = b)
    BY <1>0, <2>5
  <2>9. Upto(b - 1) = {j \in S : j < b}
    BY <2>16
  <2>10. ASSUME b \notin S PROVE FALSE
    <3>1. Upto(b) = Upto(b - 1)
      BY <2>10, <2>16
    <3> HIDE DEF Upto
    <3>2. QED
      BY <2>5, <2>8, <3>1
  <2>11. Upto(b) = Upto(b - 1) \cup {b} /\ b \notin Upto(b - 1)
    <3>1. b \in S /\ ~(b <= b - 1)
      BY <2>10, <2>16
    <3>2. \A j : j \in Upto(b) <=> j \in Upto(b - 1) \/ j = b
      BY <2>16, <3>1
    <3>3. QED
      BY <3>1, <3>2
  <2>12. IsFiniteSet(Upto(b - 1)) /\ Cardinality(Upto(b - 1)) \in Nat
    <3>1. b - 1 \in Int
      BY <2>5
    <3> HIDE DEF Upto
    <3>2. QED
      BY <1>3, <3>1
  <2>13. Cardinality(Upto(b)) = Cardinality(Upto(b - 1)) + 1
    <3> HIDE DEF Upto
    <3>1. QED
      BY <2>11, <2>12, FS_AddElement
  <2>14. Cardinality(Upto(b - 1)) = k - 1
    <3>1. k \in Int
      OBVIOUS
    <3> HIDE DEF Upto
    <3>2. QED
      BY <2>5, <2>8, <2>12, <2>13, <3>1
  <2>15. QED
    <3> HIDE DEF Upto
    <3>1. QED
      BY <2>9, <2>10, <2>14
<1>5. ASSUME NEW k \in 1 .. Cardinality(S) PROVE InOrder(S)[k] \in S
  <2>1. InOrder(S)[k] = CHOOSE i \in S : Cardinality({j \in S : j < i}) = k - 1
    BY DEF InOrder
  <2>2. QED
    BY <1>4, <2>1
<1>6. QED
  BY <1>2, <1>5 DEF InOrder
-----------------------------------------------------------------------------
(* Registries                                                              *)

\* The events of a registry.
LEMMA EventOf ==
  ASSUME NEW r \in Seq(Event)
  PROVE  /\ Len(r) \in Nat /\ DOMAIN r = 1 .. Len(r)
         /\ \A i \in 1 .. Len(r) :
              r[i] \in Event /\ r[i].id \in Nat \ {0}
                /\ r[i].event \in {"opened", "seen", "ruled"}
<1>1. \A i \in 1 .. Len(r) : r[i] \in Event
  OBVIOUS
<1>2. QED
  BY <1>1 DEF Event

\* A fresh id is greater than every id there is, and at most one more than the
\* number of events.
LEMMA FreshId ==
  ASSUME NEW r \in Seq(Event), Sound(r)
  PROVE  /\ mintNextId(r) \in Nat \ {0} /\ mintNextId(r) <= Len(r) + 1
         /\ \A i \in 1 .. Len(r) : r[i].id < mintNextId(r)
<1> DEFINE S == Ids(r) \cup {0}
<1>1. \A i \in 1 .. Len(r) : r[i].id \in Nat /\ r[i].id <= Len(r) /\ r[i].id \in S
  BY EventOf DEF Sound, Ids, ToSet
<1>2. S \in SUBSET Nat /\ S # {} /\ \A s \in S : s <= Len(r)
  BY EventOf, <1>1 DEF Ids, ToSet
<1>3. Len(r) \in Nat
  OBVIOUS
<1>4. mintNextId(r) = 1 + Max(S)
  BY DEF mintNextId
<1> HIDE DEF S
<1>5. Max(S) \in S /\ \A s \in S : s <= Max(S)
  BY <1>2, <1>3, MaxIs
<1>6. Max(S) \in Nat /\ Max(S) <= Len(r)
  BY <1>2, <1>5
<1>7. ASSUME NEW i \in 1 .. Len(r) PROVE r[i].id < mintNextId(r)
  <2>1. r[i].id \in Nat /\ r[i].id <= Max(S)
    BY <1>1, <1>5
  <2>2. QED
    BY <1>4, <1>6, <2>1
<1>8. QED
  BY <1>3, <1>4, <1>6, <1>7

\* A gap is open when it was opened and never ruled.
LEMMA OpenIs ==
  ASSUME NEW r \in Seq(Event), Sound(r), NEW id
  PROVE  IsOpen(r, id) <=>
           /\ \E i \in 1 .. Len(r) : r[i].id = id
           /\ \A i \in 1 .. Len(r) : r[i].id = id => r[i].event # "ruled"
<1> DEFINE S == {i \in DOMAIN r : r[i].id = id}
<1>1. DOMAIN r = 1 .. Len(r) /\ Len(r) \in Nat
  OBVIOUS
<1>2. S \in SUBSET Nat /\ \A s \in S : s <= Len(r)
  BY <1>1
<1>3. id \in Ids(r) <=> \E i \in 1 .. Len(r) : r[i].id = id
  BY <1>1 DEF Ids, ToSet
<1>4. id \in Ids(r) <=> S # {}
  BY <1>1, <1>3
<1>5. CASE id \notin Ids(r)
  BY <1>3, <1>5 DEF IsOpen
<1>6. CASE id \in Ids(r)
  <2>1. Max(S) \in S /\ \A s \in S : s <= Max(S)
    <3>1. S # {}
      BY <1>4, <1>6
    <3> HIDE DEF S
    <3>2. QED
      BY <1>1, <1>2, <3>1, MaxIs
  <2>2. foldToLatestStatus(r, id) = r[Max(S)]
    BY DEF foldToLatestStatus
  <2>3. IsOpen(r, id) <=> r[Max(S)].event # "ruled"
    BY <1>6, <2>2 DEF IsOpen
  <2>4. Max(S) \in 1 .. Len(r) /\ r[Max(S)].id = id
    BY <1>1, <2>1
  <2>5. ASSUME NEW i \in 1 .. Len(r), r[i].id = id, r[i].event = "ruled"
        PROVE  i = Max(S)
    <3>1. i \in S /\ i <= Max(S)
      BY <1>1, <2>1, <2>5
    <3>2. Max(S) <= i
      BY <1>1, <2>4, <2>5 DEF Sound
    <3>3. QED
      BY <2>4, <3>1, <3>2
  <2> HIDE DEF S
  <2>6. QED
    BY <1>3, <1>6, <2>3, <2>4, <2>5
<1>7. QED
  BY <1>5, <1>6
-----------------------------------------------------------------------------
(* What a gate appends                                                     *)

\* A function on 1 .. n is a sequence of that length.
LEMMA FunctionIsSeq ==
  ASSUME NEW n \in Nat, NEW S, NEW f \in [1 .. n -> S]
  PROVE  f \in Seq(S) /\ Len(f) = n
<1>1. f \in Seq(S)
  BY SeqDef
<1>2. QED
  BY <1>1, LenProperties

\* The kept candidates are places of the candidates.
LEMMA DedupedArePlaces ==
  ASSUME NEW found
  PROVE  dedupeCandidates(found) \subseteq DOMAIN found
BY DEF dedupeCandidates

\* The events of a registry that a gate finds again: opened, not ruled since, and
\* their grep does not fail and finds something in the changed files.
Again(r, code, changed, failing) ==
  {i \in DOMAIN r : /\ r[i].event = "opened" /\ IsOpen(r, r[i].id) /\ r[i].what \notin failing
                    /\ \E f \in changed \cap Paths[r[i].what] : <<r[i].what, f>> \in code}

\* A gate appends that some open gaps were seen again, then opens candidates under
\* fresh ids, one after the other.
Appends(r, found, app, fires, news) ==
  /\ app \in Seq(Event) /\ fires \in Nat /\ news \in Nat /\ Len(app) = fires + news
  /\ \A k \in 1 .. fires : \E i \in 1 .. Len(r) :
       app[k] = Seen(r[i].id) /\ r[i].event = "opened" /\ IsOpen(r, r[i].id)
  /\ \A k \in 1 .. news : \E j \in 1 .. Len(found) :
       app[fires + k] = Opened(mintNextId(r) + k - 1, found[j])

LEMMA ReconcileIs ==
  ASSUME NEW r \in Seq(Event), Sound(r), NEW code, NEW changed, NEW failing,
         NEW found \in Seq(Patterns)
  PROVE  LET rec == reconcile(r, code, changed, failing, found)
         IN  /\ rec.matched = {r[i].id : i \in Again(r, code, changed, failing)}
             /\ \E fires, news \in Nat :
                  /\ Appends(r, found, rec.appended, fires, news)
                  /\ rec.minted = mintNextId(r) .. mintNextId(r) + news - 1
<1> DEFINE fired == Again(r, code, changed, failing)
           new   == {i \in dedupeCandidates(found) :
                       ~\E e \in fired : Alike(r[e].what, found[i])}
           next  == mintNextId(r)
           F     == Cardinality(fired)
           N     == Cardinality(new)
           seen  == [k \in DOMAIN InOrder(fired) |-> Seen(r[InOrder(fired)[k]].id)]
           open  == [k \in DOMAIN InOrder(new) |-> Opened(next + k - 1, found[InOrder(new)[k]])]
           rec   == reconcile(r, code, changed, failing, found)
<1>1. rec = [appended |-> seen \o open, matched |-> {r[i].id : i \in fired},
             minted |-> next .. next + N - 1]
  BY DEF reconcile, Again
<1>2. fired \in SUBSET (1 .. Len(r)) /\ Len(r) \in Nat
  BY DEF Again
<1>3. new \in SUBSET (1 .. Len(found)) /\ Len(found) \in Nat
  BY DedupedArePlaces
<1>4. next \in Nat \ {0}
  BY FreshId
<1>5. /\ F \in Nat /\ DOMAIN InOrder(fired) = 1 .. F
      /\ \A k \in 1 .. F : InOrder(fired)[k] \in fired
  <2> HIDE DEF fired
  <2>1. QED
    BY <1>2, InOrderIs
<1>6. /\ N \in Nat /\ DOMAIN InOrder(new) = 1 .. N
      /\ \A k \in 1 .. N : InOrder(new)[k] \in new
  <2> HIDE DEF new
  <2>1. QED
    BY <1>3, InOrderIs
<1>7. \A i \in fired : i \in 1 .. Len(r) /\ r[i].event = "opened" /\ IsOpen(r, r[i].id)
                         /\ r[i].id \in Nat \ {0}
  BY <1>2, EventOf DEF Again
<1>8. \A i \in new : i \in 1 .. Len(found) /\ found[i] \in Patterns
  BY <1>3
<1> HIDE DEF fired, new, next, F, N
<1>9. seen \in [1 .. F -> Event]
  BY <1>5, <1>7 DEF Seen, Event
<1>10. open \in [1 .. N -> Event]
  <2>1. \A k \in 1 .. N : next + k - 1 \in Nat \ {0}
    BY <1>4, <1>6
  <2>2. QED
    BY <1>6, <1>8, <2>1 DEF Opened, Event
<1>11. /\ seen \in Seq(Event) /\ Len(seen) = F /\ open \in Seq(Event) /\ Len(open) = N
  <2> HIDE DEF seen, open
  <2>1. QED
    BY <1>5, <1>6, <1>9, <1>10, FunctionIsSeq
<1>12. \A k \in 1 .. F : \E i \in 1 .. Len(r) :
         seen[k] = Seen(r[i].id) /\ r[i].event = "opened" /\ IsOpen(r, r[i].id)
  BY <1>5, <1>7
<1>13. \A k \in 1 .. N : \E j \in 1 .. Len(found) :
         open[k] = Opened(next + k - 1, found[j])
  BY <1>6, <1>8
<1> HIDE DEF seen, open
<1>14. /\ seen \o open \in Seq(Event) /\ Len(seen \o open) = F + N
       /\ \A k \in 1 .. F : (seen \o open)[k] = seen[k]
       /\ \A k \in 1 .. N : (seen \o open)[F + k] = open[k]
  <2>1. /\ seen \o open \in Seq(Event) /\ Len(seen \o open) = F + N
        /\ \A i \in 1 .. F + N : (seen \o open)[i] = IF i <= F THEN seen[i] ELSE open[i - F]
    BY <1>11, ConcatProperties
  <2>2. ASSUME NEW k \in 1 .. F PROVE (seen \o open)[k] = seen[k]
    <3>1. k \in 1 .. F + N /\ k <= F
      BY <1>5, <1>6
    <3>2. QED
      BY <2>1, <3>1
  <2>3. ASSUME NEW k \in 1 .. N PROVE (seen \o open)[F + k] = open[k]
    <3> DEFINE i == F + k
    <3>1. i \in 1 .. F + N /\ ~(i <= F) /\ i - F = k
      BY <1>5, <1>6
    <3> HIDE DEF i
    <3>2. (seen \o open)[i] = open[k]
      BY <2>1, <3>1
    <3>3. QED
      BY <3>2 DEF i
  <2>4. QED
    BY <2>1, <2>2, <2>3
<1>15. Appends(r, found, seen \o open, F, N)
  <2>1. \A k \in 1 .. F : \E i \in 1 .. Len(r) :
          (seen \o open)[k] = Seen(r[i].id) /\ r[i].event = "opened" /\ IsOpen(r, r[i].id)
    <3>1. ASSUME NEW k \in 1 .. F
          PROVE  \E i \in 1 .. Len(r) : /\ (seen \o open)[k] = Seen(r[i].id)
                                        /\ r[i].event = "opened" /\ IsOpen(r, r[i].id)
      <4>1. (seen \o open)[k] = seen[k]
        BY <1>14
      <4>2. PICK i \in 1 .. Len(r) :
              seen[k] = Seen(r[i].id) /\ r[i].event = "opened" /\ IsOpen(r, r[i].id)
        BY <1>12
      <4>3. QED
        BY <4>1, <4>2
    <3>2. QED
      BY <3>1
  <2>2. \A k \in 1 .. N : \E j \in 1 .. Len(found) :
          (seen \o open)[F + k] = Opened(mintNextId(r) + k - 1, found[j])
    BY <1>13, <1>14 DEF next
  <2>3. QED
    BY <1>5, <1>6, <1>14, <2>1, <2>2 DEF Appends
<1>16. rec.matched = {r[i].id : i \in fired} /\ rec.appended = seen \o open
         /\ rec.minted = next .. next + N - 1
  BY <1>1
<1>17. QED
  BY <1>5, <1>6, <1>15, <1>16 DEF fired, next

\* The parts of a registry s that a gate made of r: r itself, then gaps seen again,
\* then new gaps.
Parted(r, found, s, fires, news) ==
  /\ s \in Seq(Event) /\ Len(s) = Len(r) + fires + news
  /\ \A i \in 1 .. Len(r) : s[i] = r[i]
  /\ \A i \in Len(r) + 1 .. Len(r) + fires : \E m \in 1 .. Len(r) :
       s[i] = Seen(r[m].id) /\ r[m].event = "opened" /\ IsOpen(r, r[m].id)
  /\ \A i \in Len(r) + fires + 1 .. Len(r) + fires + news : \E j \in 1 .. Len(found) :
       s[i] = Opened(mintNextId(r) + (i - Len(r) - fires) - 1, found[j])

\* What one event of a registry that a gate appended to is.
LEMMA AppendedEvents ==
  ASSUME NEW r \in Seq(Event), NEW found \in Seq(Patterns), NEW app,
         NEW fires \in Nat, NEW news \in Nat, Appends(r, found, app, fires, news)
  PROVE  Parted(r, found, r \o app, fires, news)
<1> DEFINE n == Len(r)
           s == r \o app
<1>1. n \in Nat /\ app \in Seq(Event) /\ Len(app) = fires + news
  BY DEF Appends
<1>2. /\ s \in Seq(Event) /\ Len(s) = n + Len(app)
      /\ \A i \in 1 .. n + Len(app) : s[i] = IF i <= n THEN r[i] ELSE app[i - n]
  BY <1>1, ConcatProperties
<1> HIDE DEF s, n
<1>3. ASSUME NEW i \in 1 .. n PROVE s[i] = r[i]
  <2>1. i \in 1 .. n + Len(app) /\ i <= n
    BY <1>1
  <2>2. QED
    BY <1>2, <2>1
<1>4. ASSUME NEW i \in n + 1 .. n + Len(app) PROVE s[i] = app[i - n]
  <2>1. i \in 1 .. n + Len(app) /\ ~(i <= n)
    BY <1>1
  <2>2. QED
    BY <1>2, <2>1
<1>5. ASSUME NEW i \in n + 1 .. n + fires
      PROVE  \E m \in 1 .. n : /\ s[i] = Seen(r[m].id)
                               /\ r[m].event = "opened" /\ IsOpen(r, r[m].id)
  <2>1. i \in n + 1 .. n + Len(app) /\ i - n \in 1 .. fires
    BY <1>1
  <2>2. s[i] = app[i - n]
    BY <1>4, <2>1
  <2>3. PICK m \in 1 .. n :
          app[i - n] = Seen(r[m].id) /\ r[m].event = "opened" /\ IsOpen(r, r[m].id)
    BY <2>1 DEF Appends, n
  <2>4. QED
    BY <2>2, <2>3
<1>6. ASSUME NEW i \in n + fires + 1 .. n + fires + news
      PROVE  \E j \in 1 .. Len(found) : s[i] = Opened(mintNextId(r) + (i - n - fires) - 1, found[j])
  <2> DEFINE k == i - n - fires
  <2>1. i \in n + 1 .. n + Len(app) /\ k \in 1 .. news /\ i - n = fires + k
    BY <1>1
  <2> HIDE DEF k
  <2>2. s[i] = app[fires + k]
    BY <1>4, <2>1
  <2>3. PICK j \in 1 .. Len(found) : app[fires + k] = Opened(mintNextId(r) + k - 1, found[j])
    BY <2>1 DEF Appends
  <2>4. QED
    BY <2>2, <2>3 DEF k
<1>7. Len(s) = n + fires + news
  BY <1>1, <1>2
<1>8. QED
  BY <1>2, <1>3, <1>5, <1>6, <1>7 DEF Parted, n, s

\* A registry s that a gate made of r is sound; what was appended rules nothing, and
\* opens what a Tracker found, under the ids the gate minted.
Grown(r, found, s, news) ==
  /\ s \in Seq(Event) /\ Sound(s) /\ Len(s) \in Nat /\ Len(r) <= Len(s)
  /\ \A i \in 1 .. Len(r) : s[i] = r[i]
  /\ \A i \in 1 .. Len(s) : i > Len(r) =>
       /\ s[i].event # "ruled"
       /\ s[i].event = "opened" =>
            /\ s[i].id \in mintNextId(r) .. mintNextId(r) + news - 1
            /\ \E j \in 1 .. Len(found) : s[i].what = found[j]

LEMMA GateAppendIsSound ==
  ASSUME NEW r \in Seq(Event), Sound(r), NEW found \in Seq(Patterns), NEW app,
         NEW fires \in Nat, NEW news \in Nat, Appends(r, found, app, fires, news)
  PROVE  Grown(r, found, r \o app, news)
<1> DEFINE n == Len(r)
           s == r \o app
           next == mintNextId(r)
<1>1. /\ s \in Seq(Event) /\ Len(s) = n + fires + news
      /\ \A i \in 1 .. n : s[i] = r[i]
      /\ \A i \in n + 1 .. n + fires : \E m \in 1 .. n :
           s[i] = Seen(r[m].id) /\ r[m].event = "opened" /\ IsOpen(r, r[m].id)
      /\ \A i \in n + fires + 1 .. n + fires + news : \E j \in 1 .. Len(found) :
           s[i] = Opened(next + (i - n - fires) - 1, found[j])
  <2>1. Parted(r, found, s, fires, news)
    BY AppendedEvents
  <2>2. QED
    BY <2>1 DEF Parted
<1>2. n \in Nat /\ next \in Nat \ {0} /\ next <= n + 1 /\ \A i \in 1 .. n : r[i].id < next
  BY FreshId
<1>3. \A i \in 1 .. n : /\ r[i].id \in Nat \ {0} /\ r[i].id <= n
                        /\ r[i].event = "opened" => r[i].what \in Patterns
                        /\ \E j \in 1 .. n : r[j] = Opened(r[i].id, r[j].what)
  BY EventOf DEF Sound
<1>4. \A i, j \in 1 .. n :
        /\ r[i].event = "opened" /\ r[j].event = "opened" /\ r[i].id = r[j].id => i = j
        /\ r[i].event = "ruled" /\ r[i].id = r[j].id => j <= i
  BY EventOf DEF Sound
<1>5. \A m \in 1 .. n : IsOpen(r, r[m].id) =>
        \A i \in 1 .. n : r[i].id = r[m].id => r[i].event # "ruled"
  BY OpenIs
<1> HIDE DEF s, n, next
\* The three parts of the new registry.
<1>6. ASSUME NEW i \in 1 .. Len(s), i <= n PROVE i \in 1 .. n /\ s[i] = r[i]
  BY <1>1, <1>2, <1>6
<1>7. ASSUME NEW i \in 1 .. Len(s), n < i, i <= n + fires
      PROVE  \E m \in 1 .. n : /\ s[i].id = r[m].id /\ s[i].event = "seen"
                               /\ r[m].event = "opened" /\ IsOpen(r, r[m].id)
  <2>1. i \in n + 1 .. n + fires
    BY <1>1, <1>2, <1>7
  <2>2. PICK m \in 1 .. n :
          s[i] = Seen(r[m].id) /\ r[m].event = "opened" /\ IsOpen(r, r[m].id)
    BY <1>1, <2>1
  <2>3. QED
    BY <2>2 DEF Seen
<1>8. ASSUME NEW i \in 1 .. Len(s), n + fires < i
      PROVE  /\ s[i].id = next + (i - n - fires) - 1 /\ s[i].event = "opened"
             /\ \E j \in 1 .. Len(found) : s[i].what = found[j]
             /\ s[i] = Opened(s[i].id, s[i].what)
  <2>1. i \in n + fires + 1 .. n + fires + news
    BY <1>1, <1>2, <1>8
  <2>2. PICK j \in 1 .. Len(found) : s[i] = Opened(next + (i - n - fires) - 1, found[j])
    BY <1>1, <2>1
  <2>3. QED
    BY <2>2 DEF Opened
<1>9. Len(s) \in Nat /\ n <= Len(s) /\ DOMAIN s = 1 .. Len(s)
  BY <1>1, <1>2
<1>10. ASSUME NEW i \in 1 .. Len(s)
       PROVE  /\ s[i].id <= Len(s)
              /\ s[i].event = "opened" => s[i].what \in Patterns
              /\ \E j \in 1 .. Len(s) : s[j] = Opened(s[i].id, s[j].what)
  <2>1. CASE i <= n
    <3>1. i \in 1 .. n /\ s[i] = r[i]
      BY <1>6, <2>1
    <3>2. PICK j \in 1 .. n : r[j] = Opened(r[i].id, r[j].what)
      BY <1>3, <3>1
    <3>3. j \in 1 .. Len(s) /\ s[j] = r[j]
      BY <1>1, <1>2
    <3>4. s[i].id <= Len(s)
      <4>1. r[i].id \in Nat /\ r[i].id <= n
        BY <1>3, <3>1
      <4>2. s[i].id = r[i].id
        BY <3>1
      <4>3. QED
        BY <1>2, <1>9, <4>1, <4>2
    <3>5. QED
      BY <1>3, <3>1, <3>2, <3>3, <3>4
  <2>2. CASE n < i /\ i <= n + fires
    <3>1. PICK m \in 1 .. n : /\ s[i].id = r[m].id /\ s[i].event = "seen"
                              /\ r[m].event = "opened" /\ IsOpen(r, r[m].id)
      BY <1>7, <2>2
    <3>2. PICK j \in 1 .. n : r[j] = Opened(r[m].id, r[j].what)
      BY <1>3, <3>1
    <3>3. j \in 1 .. Len(s) /\ s[j] = r[j]
      BY <1>1, <1>2
    <3>4. r[m].id \in Nat /\ r[m].id <= n
      BY <1>3
    <3>5. s[i].id <= Len(s)
      BY <1>2, <1>9, <3>1, <3>4
    <3>6. QED
      BY <3>1, <3>2, <3>3, <3>5
  <2>3. CASE n + fires < i
    <3>1. s[i].id = next + (i - n - fires) - 1
      BY <1>8, <2>3
    <3>2. s[i].id <= Len(s)
      BY <1>1, <1>2, <3>1
    <3>3. \E j \in 1 .. Len(found) : s[i].what = found[j]
      BY <1>8, <2>3
    <3>4. s[i].what \in Patterns
      BY <3>3
    <3>5. QED
      BY <1>8, <2>3, <3>2, <3>4
  <2>4. QED
    BY <1>2, <2>1, <2>2, <2>3
<1>11. ASSUME NEW i \in 1 .. Len(s), NEW j \in 1 .. Len(s),
              s[i].event = "opened", s[j].event = "opened", s[i].id = s[j].id, i < j
       PROVE  FALSE
  <2>1. (i <= n \/ n + fires < i) /\ (j <= n \/ n + fires < j)
    <3>1. \A k \in 1 .. Len(s) : s[k].event = "opened" => k <= n \/ n + fires < k
      <4>1. ASSUME NEW k \in 1 .. Len(s), ~(k <= n), ~(n + fires < k)
            PROVE  s[k].event = "seen"
        <5>1. n < k /\ k <= n + fires
          BY <1>2, <4>1
        <5>2. QED
          BY <1>7, <5>1
      <4>2. QED
        BY <4>1
    <3>2. QED
      BY <1>11, <3>1
  <2>2. CASE j <= n
    <3>1. i \in 1 .. n /\ j \in 1 .. n /\ s[i] = r[i] /\ s[j] = r[j]
      BY <1>2, <1>6, <1>11, <2>2
    <3>2. i = j
      BY <1>4, <1>11, <3>1
    <3>3. QED
      BY <1>11, <3>2
  <2>3. CASE i <= n /\ n + fires < j
    <3>1. r[i].id < next /\ r[i].id \in Nat /\ s[i].id = r[i].id
      BY <1>2, <1>3, <1>6, <2>3
    <3>2. s[j].id = next + (j - n - fires) - 1
      BY <1>8, <2>3
    <3>3. s[j].id >= next
      BY <1>2, <2>3, <3>2
    <3>4. QED
      BY <1>2, <1>11, <3>1, <3>3
  <2>4. CASE n + fires < i /\ n + fires < j
    <3>1. /\ s[i].id = next + (i - n - fires) - 1
          /\ s[j].id = next + (j - n - fires) - 1
      BY <1>8, <2>4
    <3>2. next + (i - n - fires) - 1 = next + (j - n - fires) - 1
      BY <1>11, <3>1
    <3>3. QED
      BY <1>2, <1>11, <3>2
  <2>5. QED
    BY <1>2, <1>11, <2>1, <2>2, <2>3, <2>4
<1>12. ASSUME NEW i \in 1 .. Len(s), NEW j \in 1 .. Len(s),
              s[i].event = "ruled", s[i].id = s[j].id
       PROVE  j <= i
  <2>1. i <= n
    <3>1. ASSUME ~(i <= n) PROVE s[i].event # "ruled"
      <4>1. (n < i /\ i <= n + fires) \/ n + fires < i
        BY <1>2, <3>1
      <4>2. QED
        BY <1>7, <1>8, <4>1
    <3>2. QED
      BY <1>12, <3>1
  <2>2. i \in 1 .. n /\ s[i] = r[i] /\ r[i].event = "ruled"
    BY <1>6, <1>12, <2>1
  <2>3. CASE j <= n
    BY <1>4, <1>6, <1>12, <2>2, <2>3
  <2>4. CASE n < j /\ j <= n + fires
    <3>1. PICK m \in 1 .. n : s[j].id = r[m].id /\ IsOpen(r, r[m].id)
      BY <1>7, <2>4
    <3>2. QED
      BY <1>5, <1>12, <2>2, <3>1
  <2>5. CASE n + fires < j
    <3>1. s[j].id = next + (j - n - fires) - 1
      BY <1>8, <2>5
    <3>2. r[i].id < next /\ r[i].id \in Nat
      BY <1>2, <1>3, <2>2
    <3>3. s[j].id >= next
      BY <1>2, <2>5, <3>1
    <3>4. QED
      BY <1>2, <1>12, <2>2, <3>2, <3>3
  <2>6. QED
    BY <1>2, <2>3, <2>4, <2>5
<1>13. ASSUME NEW i \in 1 .. Len(s), NEW j \in 1 .. Len(s),
              s[i].event = "opened", s[j].event = "opened", s[i].id = s[j].id
       PROVE  i = j
  <2>1. ~(i < j) /\ ~(j < i)
    BY <1>11, <1>13
  <2>2. QED
    BY <2>1
<1>14. Sound(s)
  BY <1>9, <1>10, <1>12, <1>13 DEF Sound
<1>15. ASSUME NEW i \in 1 .. Len(s), i > n
       PROVE  /\ s[i].event # "ruled"
              /\ s[i].event = "opened" =>
                   /\ s[i].id \in next .. next + news - 1
                   /\ \E j \in 1 .. Len(found) : s[i].what = found[j]
  <2>1. CASE i <= n + fires
    BY <1>2, <1>7, <1>15, <2>1
  <2>2. CASE n + fires < i
    <3>1. s[i].id = next + (i - n - fires) - 1 /\ s[i].event = "opened"
      BY <1>8, <2>2
    <3>2. s[i].id \in next .. next + news - 1
      BY <1>1, <1>2, <2>2, <3>1
    <3>3. QED
      BY <1>8, <2>2, <3>1, <3>2
  <2>3. QED
    BY <1>2, <2>1, <2>2
<1>16. QED
  BY <1>1, <1>9, <1>14, <1>15 DEF Grown, s, n, next

\* A ruling of an open gap leaves a sound registry sound.
LEMMA RulingIsSound ==
  ASSUME NEW r \in Seq(Event), Sound(r), NEW id, IsOpen(r, id),
         NEW how \in {"dismissed", "debt"}
  PROVE  LET s == Append(r, Ruled(id, how))
         IN  /\ s \in Seq(Event) /\ Sound(s) /\ Len(s) = Len(r) + 1 /\ id \in Nat \ {0}
             /\ \A i \in 1 .. Len(r) : s[i] = r[i]
             /\ s[Len(r) + 1] = Ruled(id, how)
<1> DEFINE n == Len(r)
           s == Append(r, Ruled(id, how))
<1>1. /\ \E i \in 1 .. n : r[i].id = id
      /\ \A i \in 1 .. n : r[i].id = id => r[i].event # "ruled"
  BY OpenIs
<1>2. \A i \in 1 .. n : /\ r[i].id \in Nat \ {0} /\ r[i].id <= n
                        /\ r[i].event = "opened" => r[i].what \in Patterns
                        /\ \E j \in 1 .. n : r[j] = Opened(r[i].id, r[j].what)
  BY EventOf DEF Sound
<1>3. \A i, j \in 1 .. n :
        /\ r[i].event = "opened" /\ r[j].event = "opened" /\ r[i].id = r[j].id => i = j
        /\ r[i].event = "ruled" /\ r[i].id = r[j].id => j <= i
  BY EventOf DEF Sound
<1>4. id \in Nat \ {0} /\ Ruled(id, how) \in Event
  BY <1>1, <1>2 DEF Ruled, Event
<1>5. n \in Nat
  OBVIOUS
<1>6. /\ s \in Seq(Event) /\ Len(s) = n + 1
      /\ \A i \in 1 .. n : s[i] = r[i]
      /\ s[n + 1] = Ruled(id, how)
  BY <1>4
<1>7. s[n + 1].id = id /\ s[n + 1].event = "ruled"
  BY <1>6 DEF Ruled
<1> HIDE DEF s, n
<1>8. ASSUME NEW i \in 1 .. n + 1, NEW j \in 1 .. n + 1,
             s[i].event = "opened", s[j].event = "opened", s[i].id = s[j].id
      PROVE  i = j
  <2>1. i \in 1 .. n /\ j \in 1 .. n
    BY <1>5, <1>7, <1>8
  <2>2. QED
    BY <1>3, <1>6, <1>8, <2>1
<1>9. ASSUME NEW i \in 1 .. n + 1, NEW j \in 1 .. n + 1,
             s[i].event = "ruled", s[i].id = s[j].id
      PROVE  j <= i
  <2>1. CASE i = n + 1
    BY <1>5, <2>1
  <2>2. CASE i # n + 1
    <3>1. i \in 1 .. n /\ s[i] = r[i] /\ r[i].event = "ruled"
      BY <1>5, <1>6, <1>9, <2>2
    <3>2. j # n + 1
      BY <1>1, <1>7, <1>9, <3>1
    <3>3. j \in 1 .. n /\ s[j] = r[j]
      BY <1>5, <1>6, <3>2
    <3>4. QED
      BY <1>3, <1>9, <3>1, <3>3
  <2>3. QED
    BY <2>1, <2>2
<1>10. ASSUME NEW i \in 1 .. n + 1
       PROVE  /\ s[i].id <= n + 1
              /\ s[i].event = "opened" => s[i].what \in Patterns
              /\ \E j \in 1 .. n + 1 : s[j] = Opened(s[i].id, s[j].what)
  <2>1. PICK m \in 1 .. n : s[i].id = r[m].id
    BY <1>1, <1>5, <1>6, <1>7
  <2>2. PICK j \in 1 .. n : r[j] = Opened(r[m].id, r[j].what)
    BY <1>2
  <2>3. j \in 1 .. n + 1 /\ s[j] = r[j]
    BY <1>5, <1>6
  <2>4. s[i].id <= n + 1
    BY <1>2, <1>5, <2>1
  <2>5. s[i].event = "opened" => s[i].what \in Patterns
    <3>1. CASE i = n + 1
      BY <1>7, <3>1
    <3>2. CASE i # n + 1
      <4>1. i \in 1 .. n /\ s[i] = r[i]
        BY <1>5, <1>6, <3>2
      <4>2. QED
        BY <1>2, <4>1
    <3>3. QED
      BY <3>1, <3>2
  <2>6. QED
    BY <2>1, <2>2, <2>3, <2>4, <2>5
<1>11. DOMAIN s = 1 .. n + 1
  BY <1>5, <1>6
<1>12. Sound(s)
  BY <1>6, <1>8, <1>9, <1>10, <1>11 DEF Sound
<1>13. QED
  BY <1>4, <1>6, <1>12 DEF s, n
-----------------------------------------------------------------------------
(* Counting hits                                                           *)

Code == SUBSET (Patterns \X Files)

\* A grep finds so many hits.
LEMMA HitsIsNat ==
  ASSUME NEW code \in Code, NEW p
  PROVE  Hits(code, p) \in Nat
<1>1. IsFiniteSet(Patterns \X Files)
  BY RegistryAssumption, FS_Product
<1>2. {h \in code : h[1] = p} \subseteq Patterns \X Files
  BY DEF Code
<1>3. IsFiniteSet({h \in code : h[1] = p})
  BY <1>1, <1>2, FS_Subset
<1>4. QED
  BY <1>3, FS_CardinalityType DEF Hits

\* A set that loses what another lost, and gains at most what that gained.
LEMMA SetGrows ==
  ASSUME NEW B, NEW H, NEW O, NEW N,
         IsFiniteSet(B), IsFiniteSet(H), IsFiniteSet(O), IsFiniteSet(N),
         N \subseteq (O \ (B \ H)) \cup (H \ B), B \ H \subseteq O,
         Cardinality(N) > Cardinality(O)
  PROVE  Cardinality(H) > Cardinality(B)
<1> DEFINE R == B \ H
           A == H \ B
           K == B \cap H
           L == O \ R
<1>1. /\ IsFiniteSet(R) /\ IsFiniteSet(A) /\ IsFiniteSet(K) /\ IsFiniteSet(L)
  BY FS_Subset
<1>2. B = R \cup K /\ R \cap K = {} /\ H = A \cup K /\ A \cap K = {}
  OBVIOUS
<1>3. O = L \cup R /\ L \cap R = {} /\ N \subseteq L \cup A
  OBVIOUS
<1> HIDE DEF R, A, K, L
<1>4. /\ Cardinality(R) \in Nat /\ Cardinality(A) \in Nat /\ Cardinality(K) \in Nat
      /\ Cardinality(L) \in Nat /\ Cardinality(N) \in Nat /\ Cardinality(L \cap A) \in Nat
      /\ IsFiniteSet(L \cup A)
  <2>1. IsFiniteSet(L \cap A)
    BY <1>1, FS_Subset
  <2>2. IsFiniteSet(L \cup A)
    BY <1>1, FS_Union
  <2>3. QED
    BY <1>1, <2>1, <2>2, FS_CardinalityType
<1>5. Cardinality({}) = 0
  BY FS_EmptySet
<1>6. Cardinality(B) = Cardinality(R) + Cardinality(K)
  <2>1. Cardinality(R \cup K) = Cardinality(R) + Cardinality(K) - Cardinality(R \cap K)
    BY <1>1, FS_Union
  <2>2. Cardinality(B) = Cardinality(R \cup K) /\ Cardinality(R \cap K) = 0
    BY <1>2, <1>5, Zenon
  <2>3. QED
    BY <1>4, <2>1, <2>2
<1>7. Cardinality(H) = Cardinality(A) + Cardinality(K)
  <2>1. Cardinality(A \cup K) = Cardinality(A) + Cardinality(K) - Cardinality(A \cap K)
    BY <1>1, FS_Union
  <2>2. Cardinality(H) = Cardinality(A \cup K) /\ Cardinality(A \cap K) = 0
    BY <1>2, <1>5, Zenon
  <2>3. QED
    BY <1>4, <2>1, <2>2
<1>8. Cardinality(O) = Cardinality(L) + Cardinality(R)
  <2>1. Cardinality(L \cup R) = Cardinality(L) + Cardinality(R) - Cardinality(L \cap R)
    BY <1>1, FS_Union
  <2>2. Cardinality(O) = Cardinality(L \cup R) /\ Cardinality(L \cap R) = 0
    BY <1>3, <1>5, Zenon
  <2>3. QED
    BY <1>4, <2>1, <2>2
<1>9. Cardinality(N) <= Cardinality(L \cup A)
  BY <1>3, <1>4, FS_Subset
<1>10. Cardinality(L \cup A) = Cardinality(L) + Cardinality(A) - Cardinality(L \cap A)
  BY <1>1, FS_Union
<1>11. QED
  BY <1>4, <1>6, <1>7, <1>8, <1>9, <1>10

\* Where the merge of a branch has more hits than there were, the branch added some.
GrowthIsOfBranch(base, head, old, new, p) ==
  Hits(new, p) > Hits(old, p) => Hits(head, p) > Hits(base, p)

\* That is so when the default branch still had every hit the branch removed.
LEMMA MergeGrows ==
  ASSUME NEW base \in Code, NEW head \in Code, NEW old \in Code, NEW new \in Code, NEW p,
         new \subseteq (old \ (base \ head)) \cup (head \ base),
         \A h \in base \ head : h[1] = p => h \in old
  PROVE  GrowthIsOfBranch(base, head, old, new, p)
<1> DEFINE Of(code) == {h \in code : h[1] = p}
<1>1. ASSUME NEW code \in Code PROVE IsFiniteSet(Of(code)) /\ Hits(code, p) = Cardinality(Of(code))
  <2>1. IsFiniteSet(Patterns \X Files)
    BY RegistryAssumption, FS_Product
  <2>2. Of(code) \subseteq Patterns \X Files
    BY DEF Code
  <2>3. QED
    BY <2>1, <2>2, FS_Subset DEF Hits
<1>2. PICK B, H, O, N : B = Of(base) /\ H = Of(head) /\ O = Of(old) /\ N = Of(new)
  OBVIOUS
<1>3. N \subseteq (O \ (B \ H)) \cup (H \ B) /\ B \ H \subseteq O
  BY <1>2
<1>4. /\ IsFiniteSet(B) /\ IsFiniteSet(H) /\ IsFiniteSet(O) /\ IsFiniteSet(N)
      /\ Hits(base, p) = Cardinality(B) /\ Hits(head, p) = Cardinality(H)
      /\ Hits(old, p) = Cardinality(O) /\ Hits(new, p) = Cardinality(N)
  BY <1>1, <1>2
<1> HIDE DEF Of
<1>5. QED
  BY <1>3, <1>4, SetGrows DEF GrowthIsOfBranch
-----------------------------------------------------------------------------
(* What the actions do to the branches                                     *)

ATree(registry, code, files, debts) ==
  [registry |-> registry, code |-> code, files |-> files, debts |-> debts]

AWork(st, base, head, registry, debts, gate) ==
  [st |-> st, base |-> base, head |-> head, registry |-> registry, debts |-> debts,
   gate |-> gate]

\* Branch t becomes w, and the other branches stay.
Becomes(t, w) ==
  /\ DOMAIN branch' = Branches /\ branch'[t] = w
  /\ \A u \in Branches : u # t => branch'[u] = branch[u]

\* Steps that leave the trees alone: of a backfill, and a ruling killed.
Quiet ==
  /\ UNCHANGED <<master, branch, reports, openIds>> /\ ruling' \in {ruling, NoGap}
  /\ history'.unguarded = history.unguarded /\ history'.removed = history.removed
  /\ history'.reworked = history.reworked /\ history'.missed = history.missed

Tracked(c) ==
  /\ branch[c].st = "work" /\ reports' \in [Cards -> [rounds : Nat, found : Seq(Patterns)]]
  /\ \A d \in Cards : d # c => reports'[d] = reports[d]
  /\ reports[c].found # <<>> => reports'[c].found # <<>>
  /\ \A p \in ToSet(reports'[c].found) : p \in ToSet(reports[c].found)
       \/ \E f \in Touched(c) : <<p, f>> \in branch[c].head.code
  /\ UNCHANGED <<master, branch, openIds, ruling, history>>

Edited(c) ==
  /\ branch[c].st = "work"
  /\ \E code \in Code, files \in SUBSET Files :
       /\ \A h \in code : h[2] \in Paths[h[1]] \cap files
       /\ Becomes(c, AWork("work", branch[c].base,
                           ATree(branch[c].head.registry, code, files, branch[c].head.debts),
                           branch[c].registry, branch[c].debts, "none"))
  /\ history' = Reworked(c)
  /\ UNCHANGED <<master, reports, openIds, ruling>>

\* A gate that came to its verdict, or was killed after the append.
Gated(c) ==
  /\ branch[c].st = "work"
  /\ \E app, fires, news, gate, failing :
       /\ fires \in Nat /\ news \in Nat /\ gate \in {"none", "red", "green"}
       /\ Appends(branch[c].registry, reports[c].found, app, fires, news)
       /\ Becomes(c, AWork("work", branch[c].base, branch[c].head,
                           branch[c].registry \o app, branch[c].debts, gate))
       /\ gate = "green" => ~MoreDebt(branch[c].base, branch[c].head)
       /\ openIds' = IF gate = "none" THEN openIds
                     ELSE [openIds EXCEPT ![c] =
                       {branch[c].registry[i].id :
                          i \in Again(branch[c].registry, branch[c].head.code, Touched(c), failing)}
                       \cup (mintNextId(branch[c].registry)
                               .. mintNextId(branch[c].registry) + news - 1)]
       /\ c \in history'.missed \/ \A e \in InScope(c) : e.what \notin failing
  /\ history'.unguarded = history.unguarded /\ history'.removed = history.removed
  /\ history'.reworked = history.reworked /\ history.missed \subseteq history'.missed
  /\ UNCHANGED <<master, reports, ruling>>

Shut(debts, p) == [debts EXCEPT ![p].status = "closed"]

DebtClosed(c, p) ==
  /\ branch[c].st = "work"
  /\ Becomes(c, AWork("work", branch[c].base,
                      ATree(branch[c].head.registry, branch[c].head.code, branch[c].head.files,
                            Shut(branch[c].head.debts, p)),
                      branch[c].registry, Shut(branch[c].debts, p), branch[c].gate))
  /\ UNCHANGED <<master, reports, openIds, ruling, history>>

PrOpened(t) ==
  /\ branch[t].st = "work" /\ (t = Closing => ruling = NoGap)
  /\ t \in Cards => branch[t].gate = "green"
  /\ Becomes(t, AWork("pr", branch[t].base,
                      ATree(branch[t].registry, branch[t].head.code, branch[t].head.files,
                            branch[t].debts),
                      branch[t].registry, branch[t].debts, branch[t].gate))
  /\ UNCHANGED <<master, reports, openIds, ruling, history>>

\* A branch begins at the default branch, with a head of its own.
Begun(t, code, files) ==
  /\ Becomes(t, AWork("work", master, ATree(master.registry, code, files, master.debts),
                      master.registry, master.debts, "none"))
  /\ UNCHANGED <<master, reports, openIds, ruling>>

Forked(t) ==
  branch[t].st = "none" /\ Begun(t, master.code, master.files) /\ UNCHANGED history

Rebased(c) ==
  branch[c].st = "pr" /\ Begun(c, MergedCode(c), MergedFiles(c)) /\ history' = Reworked(c)

\* A branch ends.
Ended(t, st) == Becomes(t, [NoBranch EXCEPT !.st = st])

Merged(t) ==
  /\ branch[t].st = "pr" /\ ~Conflict(t)
  /\ master' =
       ATree(IF branch[t].head.registry = branch[t].base.registry THEN master.registry
             ELSE branch[t].head.registry,
             MergedCode(t), MergedFiles(t),
             [p \in Patterns |-> IF branch[t].head.debts[p] = branch[t].base.debts[p]
                                 THEN master.debts[p] ELSE branch[t].head.debts[p]])
  /\ history' = [history EXCEPT
       !.unguarded = @ \cup
         {p \in Patterns : /\ Hits(branch[t].head.code, p) > Hits(branch[t].base.code, p)
                           /\ branch[t].head.debts[p].status # "open"},
       !.removed = @ \cup {h[1] : h \in branch[t].base.code
                                          \ (branch[t].head.code \cup master.code)}]
  /\ Ended(t, IF t = Closing THEN "none" ELSE "merged")
  /\ UNCHANGED <<reports, openIds, ruling>>

Abandoned ==
  /\ branch[Closing].st = "pr" /\ Ended(Closing, "none")
  /\ UNCHANGED <<master, reports, openIds, ruling, history>>

\* A gap is ruled, a debt after its entity.
GapRuled(id, how) ==
  /\ branch[Closing].st = "work" /\ IsOpen(branch[Closing].registry, id)
  /\ how = "debt" => \E p \in Patterns : branch[Closing].debts[p].gap = id
  /\ Becomes(Closing, AWork("work", branch[Closing].base, branch[Closing].head,
                            Append(branch[Closing].registry, Ruled(id, how)),
                            branch[Closing].debts, branch[Closing].gate))
  /\ ruling' = NoGap /\ UNCHANGED <<master, reports, openIds, history>>

EntityMade(id, p) ==
  /\ branch[Closing].st = "work" /\ IsOpen(branch[Closing].registry, id)
  /\ branch[Closing].debts[p] = NoDebt
  /\ Becomes(Closing, AWork("work", branch[Closing].base, branch[Closing].head,
                            branch[Closing].registry,
                            [branch[Closing].debts EXCEPT ![p] =
                               [status |-> "open", gap |-> id,
                                baseline |-> Hits(branch[Closing].head.code, p)]],
                            branch[Closing].gate))
  /\ ruling' = id /\ UNCHANGED <<master, reports, openIds, history>>

\* Every step is one of these.
TreeStep ==
  \/ Quiet \/ Abandoned
  \/ \E t \in Branches : Forked(t) \/ PrOpened(t) \/ Merged(t)
  \/ \E c \in Cards : \/ Tracked(c) \/ Edited(c) \/ Gated(c) \/ Rebased(c)
                      \/ \E p \in Patterns : DebtClosed(c, p)
  \/ \E id : \/ GapRuled(id, "dismissed") \/ GapRuled(id, "debt")
             \/ \E p \in Patterns : EntityMade(id, p)

\* The fields of a tree and of a branch that is worked on.
LEMMA TreeOf ==
  ASSUME NEW tree \in Tree
  PROVE  /\ tree = ATree(tree.registry, tree.code, tree.files, tree.debts)
         /\ tree.registry \in Seq(Event) /\ tree.code \in Code /\ tree.files \in SUBSET Files
         /\ tree.debts \in [Patterns -> Debt]
BY DEF Tree, ATree, Code

LEMMA WorkOf ==
  ASSUME TypeOK, NEW t \in Branches, Worked(t)
  PROVE  /\ branch[t] = AWork(branch[t].st, branch[t].base, branch[t].head,
                              branch[t].registry, branch[t].debts, branch[t].gate)
         /\ branch[t].st \in {"work", "pr"}
         /\ branch[t].base \in Tree /\ branch[t].head \in Tree
         /\ branch[t].registry \in Seq(Event) /\ branch[t].debts \in [Patterns -> Debt]
         /\ branch[t].gate \in {"none", "red", "green"}
<1>1. branch[t] \in Work
  BY DEF TypeOK
<1>2. QED
  BY <1>1 DEF Work, AWork

LEMMA BecomesIs ==
  ASSUME TypeOK, NEW t \in Branches, NEW w, branch' = [branch EXCEPT ![t] = w]
  PROVE  Becomes(t, w)
BY DEF TypeOK, Becomes

\* A record with the fields of a branch's.
LEMMA WorkIs ==
  ASSUME NEW n, n = [f \in DOMAIN n |-> n[f]],
         DOMAIN n = {"st", "base", "head", "registry", "debts", "gate"}
  PROVE  n = AWork(n.st, n.base, n.head, n.registry, n.debts, n.gate)
BY DEF AWork

LEMMA ForkIs ==
  ASSUME TypeOK, NEW t \in Branches, Fork(t)
  PROVE  Forked(t)
<1>1. master = ATree(master.registry, master.code, master.files, master.debts)
  BY TreeOf DEF TypeOK
<1>2. branch' = [branch EXCEPT ![t] =
                   AWork("work", master, master, master.registry, master.debts, "none")]
  BY DEF Fork, AWork
<1>3. Becomes(t, AWork("work", master, master, master.registry, master.debts, "none"))
  BY <1>2, BecomesIs
<1>4. QED
  BY <1>1, <1>3 DEF Fork, Forked, Begun

LEMMA EditIs ==
  ASSUME TypeOK, NEW c \in Cards, Edit(c)
  PROVE  Edited(c)
<1>1. c \in Branches /\ branch[c].st = "work" /\ Worked(c)
  BY DEF Edit, Branches, Worked
<1>2. PICK commit \in Commits :
        branch' = [branch EXCEPT ![c].gate = "none",
                     ![c].head = [@ EXCEPT !.code = commit.code, !.files = commit.files]]
  BY DEF Edit
<1>3. PICK code, files : code = commit.code /\ files = commit.files
  OBVIOUS
<1>4. /\ code \in Code /\ files \in SUBSET Files
      /\ \A h \in code : h[2] \in Paths[h[1]] \cap files
  BY <1>3, RegistryAssumption DEF Code
<1> DEFINE w == branch[c]
           head == ATree(w.head.registry, code, files, w.head.debts)
           new == AWork("work", w.base, head, w.registry, w.debts, "none")
<1>5. /\ w = AWork("work", w.base, w.head, w.registry, w.debts, w.gate)
      /\ w.head = ATree(w.head.registry, w.head.code, w.head.files, w.head.debts)
  BY <1>1, WorkOf, TreeOf
<1>6. [w.head EXCEPT !.code = code, !.files = files] = head
  <2> DEFINE n == [w.head EXCEPT !.code = code, !.files = files]
  <2>1. n = [f \in DOMAIN n |-> n[f]] /\ DOMAIN n = {"registry", "code", "files", "debts"}
    BY <1>5 DEF ATree
  <2>2. /\ n.registry = w.head.registry /\ n.code = code /\ n.files = files
        /\ n.debts = w.head.debts
    BY <1>5 DEF ATree
  <2> HIDE DEF n
  <2>3. n = ATree(n.registry, n.code, n.files, n.debts)
    BY <2>1 DEF ATree
  <2>4. QED
    BY <2>2, <2>3 DEF n
<1>7. branch' = [branch EXCEPT ![c] = [w EXCEPT !.gate = "none", !.head = head]]
  <2>1. branch' = [branch EXCEPT ![c] =
                     [w EXCEPT !.gate = "none",
                               !.head = [w.head EXCEPT !.code = code, !.files = files]]]
    BY <1>1, <1>2, <1>3, <1>5 DEF TypeOK, AWork
  <2>2. QED
    BY <1>6, <2>1
<1> HIDE DEF head
<1>8. [w EXCEPT !.gate = "none", !.head = head] = new
  <2> DEFINE n == [w EXCEPT !.gate = "none", !.head = head]
  <2>1. /\ n = [g \in DOMAIN n |-> n[g]]
        /\ DOMAIN n = {"st", "base", "head", "registry", "debts", "gate"}
    BY <1>1, <1>5 DEF AWork
  <2>2. /\ n.st = "work" /\ n.base = w.base /\ n.head = head
        /\ n.registry = w.registry /\ n.debts = w.debts /\ n.gate = "none"
    BY <1>1, <1>5 DEF AWork
  <2> HIDE DEF n
  <2>3. n = AWork(n.st, n.base, n.head, n.registry, n.debts, n.gate)
    BY <2>1, WorkIs
  <2>4. QED
    BY <2>2, <2>3 DEF n
<1>9. Becomes(c, new)
  BY <1>1, <1>7, <1>8, BecomesIs
<1>10. QED
  BY <1>1, <1>4, <1>9 DEF Edit, Edited, head

LEMMA CloseDebtIs ==
  ASSUME TypeOK, NEW c \in Cards, NEW p \in Patterns, CloseDebt(c, p)
  PROVE  DebtClosed(c, p)
<1>1. c \in Branches /\ branch[c].st = "work" /\ Worked(c)
  BY DEF CloseDebt, Branches, Worked
<1> DEFINE w == branch[c]
           head == ATree(w.head.registry, w.head.code, w.head.files, Shut(w.head.debts, p))
           new == AWork("work", w.base, head, w.registry, Shut(w.debts, p), w.gate)
<1>2. /\ w = AWork("work", w.base, w.head, w.registry, w.debts, w.gate)
      /\ w.head = ATree(w.head.registry, w.head.code, w.head.files, w.head.debts)
  BY <1>1, WorkOf, TreeOf
<1>3. branch' = [branch EXCEPT ![c].head.debts[p].status = "closed",
                               ![c].debts[p].status = "closed"]
  BY DEF CloseDebt
<1>4. branch' = [branch EXCEPT ![c] =
                   [w EXCEPT !.head = [w.head EXCEPT !.debts = Shut(w.head.debts, p)],
                             !.debts = Shut(w.debts, p)]]
  BY <1>1, <1>2, <1>3 DEF TypeOK, Shut, AWork
<1>5. [w.head EXCEPT !.debts = Shut(w.head.debts, p)] = head
  BY <1>2 DEF ATree
<1>6. [w EXCEPT !.head = head, !.debts = Shut(w.debts, p)] = new
  <2> DEFINE n == [w EXCEPT !.head = head, !.debts = Shut(w.debts, p)]
  <2>1. /\ n = [g \in DOMAIN n |-> n[g]]
        /\ DOMAIN n = {"st", "base", "head", "registry", "debts", "gate"}
    BY <1>1, <1>2 DEF AWork
  <2>2. /\ n.st = "work" /\ n.base = w.base /\ n.head = head
        /\ n.registry = w.registry /\ n.debts = Shut(w.debts, p) /\ n.gate = w.gate
    BY <1>1, <1>2 DEF AWork
  <2> HIDE DEF n
  <2>3. n = AWork(n.st, n.base, n.head, n.registry, n.debts, n.gate)
    BY <2>1, WorkIs
  <2>4. QED
    BY <2>2, <2>3 DEF n
<1>7. Becomes(c, new)
  BY <1>1, <1>4, <1>5, <1>6, BecomesIs
<1>8. QED
  BY <1>1, <1>7 DEF CloseDebt, DebtClosed

LEMMA OpenPrIs ==
  ASSUME TypeOK, NEW t \in Branches, OpenPr(t)
  PROVE  PrOpened(t)
<1>1. branch[t].st = "work" /\ Worked(t)
  BY DEF OpenPr, Worked
<1> DEFINE w == branch[t]
           head == ATree(w.registry, w.head.code, w.head.files, w.debts)
           new == AWork("pr", w.base, head, w.registry, w.debts, w.gate)
<1>2. /\ w = AWork("work", w.base, w.head, w.registry, w.debts, w.gate)
      /\ w.head = ATree(w.head.registry, w.head.code, w.head.files, w.head.debts)
  BY <1>1, WorkOf, TreeOf
<1>3. branch' = [branch EXCEPT ![t].st = "pr", ![t].head.registry = branch[t].registry,
                               ![t].head.debts = branch[t].debts]
  BY DEF OpenPr
<1>4. branch' = [branch EXCEPT ![t] =
                   [w EXCEPT !.st = "pr",
                             !.head = [w.head EXCEPT !.registry = w.registry, !.debts = w.debts]]]
  BY <1>2, <1>3, ZenonT(60) DEF TypeOK, AWork, ATree
<1>5. [w.head EXCEPT !.registry = w.registry, !.debts = w.debts] = head
  <2> DEFINE n == [w.head EXCEPT !.registry = w.registry, !.debts = w.debts]
  <2>1. n = [f \in DOMAIN n |-> n[f]] /\ DOMAIN n = {"registry", "code", "files", "debts"}
    BY <1>2 DEF ATree
  <2>2. n.registry = w.registry /\ n.code = w.head.code /\ n.files = w.head.files /\ n.debts = w.debts
    BY <1>2 DEF ATree
  <2> HIDE DEF n
  <2>3. n = ATree(n.registry, n.code, n.files, n.debts)
    BY <2>1 DEF ATree
  <2>4. QED
    BY <2>2, <2>3 DEF n
<1>6. [w EXCEPT !.st = "pr", !.head = head] = new
  <2> DEFINE n == [w EXCEPT !.st = "pr", !.head = head]
  <2>1. /\ n = [g \in DOMAIN n |-> n[g]]
        /\ DOMAIN n = {"st", "base", "head", "registry", "debts", "gate"}
    BY <1>1, <1>2 DEF AWork
  <2>2. /\ n.st = "pr" /\ n.base = w.base /\ n.head = head
        /\ n.registry = w.registry /\ n.debts = w.debts /\ n.gate = w.gate
    BY <1>1, <1>2 DEF AWork
  <2> HIDE DEF n
  <2>3. n = AWork(n.st, n.base, n.head, n.registry, n.debts, n.gate)
    BY <2>1, WorkIs
  <2>4. QED
    BY <2>2, <2>3 DEF n
<1>7. Becomes(t, new)
  BY <1>4, <1>5, <1>6, BecomesIs
<1>8. QED
  BY <1>1, <1>7 DEF OpenPr, PrOpened

LEMMA MergeIs ==
  ASSUME TypeOK, NEW t \in Branches, Merge(t)
  PROVE  Merged(t)
<1>1. Becomes(t, IF t = Closing THEN NoBranch ELSE [NoBranch EXCEPT !.st = "merged"])
  BY BecomesIs DEF Merge
<1>2. NoBranch = [NoBranch EXCEPT !.st = "none"]
  BY DEF NoBranch
<1>3. Ended(t, IF t = Closing THEN "none" ELSE "merged")
  BY <1>1, <1>2 DEF Ended
<1>4. QED
  BY <1>3 DEF Merge, Merged, ATree

LEMMA RebaseIs ==
  ASSUME TypeOK, NEW c \in Cards, Rebase(c)
  PROVE  Rebased(c)
<1> DEFINE head == ATree(master.registry, MergedCode(c), MergedFiles(c), master.debts)
<1>1. c \in Branches
  BY DEF Branches
<1>2. master = ATree(master.registry, master.code, master.files, master.debts)
  BY TreeOf DEF TypeOK
<1>3. [master EXCEPT !.code = MergedCode(c), !.files = MergedFiles(c)] = head
  <2> DEFINE n == [master EXCEPT !.code = MergedCode(c), !.files = MergedFiles(c)]
  <2>1. n = [f \in DOMAIN n |-> n[f]] /\ DOMAIN n = {"registry", "code", "files", "debts"}
    BY <1>2 DEF ATree
  <2>2. /\ n.registry = master.registry /\ n.code = MergedCode(c)
        /\ n.files = MergedFiles(c) /\ n.debts = master.debts
    BY <1>2 DEF ATree
  <2> HIDE DEF n
  <2>3. n = ATree(n.registry, n.code, n.files, n.debts)
    BY <2>1 DEF ATree
  <2>4. QED
    BY <2>2, <2>3 DEF n
<1>4. branch' = [branch EXCEPT ![c] =
                   AWork("work", master, head, master.registry, master.debts, "none")]
  BY <1>3 DEF Rebase, AWork
<1>5. Becomes(c, AWork("work", master, head, master.registry, master.debts, "none"))
  BY <1>1, <1>4, BecomesIs
<1>6. QED
  BY <1>5 DEF Rebase, Rebased, Begun

LEMMA AbandonIs ==
  ASSUME TypeOK, Abandon
  PROVE  Abandoned
<1>1. Becomes(Closing, NoBranch)
  BY BecomesIs DEF Abandon, Branches
<1>2. NoBranch = [NoBranch EXCEPT !.st = "none"]
  BY DEF NoBranch
<1>3. QED
  BY <1>1, <1>2 DEF Abandon, Abandoned, Ended

LEMMA TrackIs ==
  ASSUME TypeOK, NEW c \in Cards, Track(c)
  PROVE  Tracked(c)
<1> DEFINE old == reports[c].found
           hit == {h[1] : h \in {g \in branch[c].head.code : g[2] \in Touched(c)}}
<1>1. /\ branch[c].st = "work"
      /\ \E S \in SUBSET hit : \E found \in SetToSeqs(S) : \E all \in {old \o found, found \o old} :
           reports' = [reports EXCEPT ![c] = [rounds |-> @.rounds + 1, found |-> all]]
      /\ UNCHANGED <<master, branch, openIds, ruling, history>>
  BY DEF Track
<1>2. PICK S \in SUBSET hit : \E found \in SetToSeqs(S) : \E all \in {old \o found, found \o old} :
        reports' = [reports EXCEPT ![c] = [rounds |-> @.rounds + 1, found |-> all]]
  BY <1>1
<1>3. PICK found \in SetToSeqs(S) : \E all \in {old \o found, found \o old} :
         reports' = [reports EXCEPT ![c] = [rounds |-> @.rounds + 1, found |-> all]]
  BY <1>2
<1>4. PICK all \in {old \o found, found \o old} :
         reports' = [reports EXCEPT ![c] = [rounds |-> @.rounds + 1, found |-> all]]
  BY <1>3
<1>5. branch[c].head.code \in Code
  BY <1>1, WorkOf, TreeOf DEF Worked, Branches
<1>6. \A p \in hit : p \in Patterns /\ \E f \in Touched(c) : <<p, f>> \in branch[c].head.code
  BY <1>5 DEF Code
<1>7. reports[c] \in [rounds : Nat, found : Seq(Patterns)]
  BY DEF TypeOK
<1>8. old \in Seq(Patterns) /\ reports[c].rounds + 1 \in Nat
  BY <1>7
<1> HIDE DEF hit
<1>9. found \in Seq(Patterns) /\ \A i \in DOMAIN found : found[i] \in hit
  <2>1. S \in SUBSET Patterns
    BY <1>6
  <2>2. IsFiniteSet(S)
    BY <2>1, RegistryAssumption, FS_Subset
  <2>3. Cardinality(S) \in Nat
    BY <2>2, FS_CardinalityType
  <2>4. found \in [1 .. Cardinality(S) -> S]
    BY DEF SetToSeqs
  <2>5. found \in [1 .. Cardinality(S) -> Patterns]
    BY <2>1, <2>4
  <2>6. QED
    BY <2>3, <2>4, <2>5, FunctionIsSeq
<1>10. /\ all \in Seq(Patterns) /\ (old # <<>> => all # <<>>)
      /\ \A p \in ToSet(all) : p \in ToSet(old) \/ p \in hit
  <2>1. ASSUME NEW s1 \in Seq(Patterns), NEW s2 \in Seq(Patterns), NEW p \in ToSet(s1 \o s2)
        PROVE  p \in ToSet(s1) \/ p \in ToSet(s2)
    <3>1. PICK i \in 1 .. Len(s1 \o s2) : p = (s1 \o s2)[i]
      BY ConcatProperties DEF ToSet
    <3>2. /\ Len(s1) \in Nat /\ Len(s2) \in Nat /\ Len(s1 \o s2) = Len(s1) + Len(s2)
          /\ (s1 \o s2)[i] = IF i <= Len(s1) THEN s1[i] ELSE s2[i - Len(s1)]
      BY ConcatProperties
    <3>3. CASE i <= Len(s1)
      <4>1. i \in DOMAIN s1
        BY <3>2, <3>3
      <4>2. QED
        BY <3>1, <3>2, <3>3, <4>1 DEF ToSet
    <3>4. CASE ~(i <= Len(s1))
      <4>1. i - Len(s1) \in DOMAIN s2
        BY <3>2, <3>4
      <4>2. QED
        BY <3>1, <3>2, <3>4, <4>1 DEF ToSet
    <3>5. QED
      BY <3>3, <3>4
  <2>2. all \in Seq(Patterns)
    BY <1>8, <1>9, ConcatProperties
  <2>3. old # <<>> => all # <<>>
    BY <1>8, <1>9, ConcatEqualIffEmpty
  <2>4. \A p \in ToSet(found) : p \in hit
    BY <1>9 DEF ToSet
  <2>5. \A p \in ToSet(all) : p \in ToSet(old) \/ p \in hit
    <3>1. CASE all = old \o found
      BY <1>8, <1>9, <2>1, <2>4, <3>1
    <3>2. CASE all = found \o old
      BY <1>8, <1>9, <2>1, <2>4, <3>2
    <3>3. QED
      BY <3>1, <3>2
  <2>6. QED
    BY <2>2, <2>3, <2>5
<1>11. reports' = [reports EXCEPT ![c] = [rounds |-> reports[c].rounds + 1, found |-> all]]
  BY <1>4
<1>12. /\ reports' \in [Cards -> [rounds : Nat, found : Seq(Patterns)]]
       /\ \A d \in Cards : d # c => reports'[d] = reports[d]
       /\ reports'[c].found = all
  BY <1>8, <1>10, <1>11 DEF TypeOK
<1>13. QED
  BY <1>1, <1>6, <1>10, <1>12 DEF Tracked

LEMMA GateIs ==
  ASSUME TypeOK, RegistriesAreSound, NEW c \in Cards, NEW slow,
         Gate(c, slow) \/ KillGate(c, slow)
  PROVE  Gated(c)
<1> DEFINE w == branch[c]
           rec == Reconciled(c, slow)
           reg == w.registry \o rec.appended
           verdict == Verdict(c)
           failing == Failing(c, slow)
<1>1. /\ c \in Branches /\ w.st = "work" /\ Worked(c) /\ RunGate(c, slow)
      /\ UNCHANGED <<master, reports, ruling>>
  BY DEF Gate, KillGate, RunGate, Branches, Worked
<1>2. /\ w = AWork(w.st, w.base, w.head, w.registry, w.debts, w.gate)
      /\ w.registry \in Seq(Event)
  BY <1>1, WorkOf
<1>3. Sound(w.registry)
  BY <1>1 DEF RegistriesAreSound
<1>4. reports[c].found \in Seq(Patterns)
  <2>1. reports[c] \in [rounds : Nat, found : Seq(Patterns)]
    BY DEF TypeOK
  <2>2. QED
    BY <2>1
<1>5. PICK fires \in Nat, news \in Nat :
        /\ rec.matched = {w.registry[i].id : i \in Again(w.registry, w.head.code, Touched(c), failing)}
        /\ Appends(w.registry, reports[c].found, rec.appended, fires, news)
        /\ rec.minted = mintNextId(w.registry) .. mintNextId(w.registry) + news - 1
  BY <1>2, <1>3, <1>4, ReconcileIs DEF Reconciled
<1> HIDE DEF rec
<1>9. /\ history'.unguarded = history.unguarded /\ history'.removed = history.removed
      /\ history'.reworked = history.reworked /\ history.missed \subseteq history'.missed
      /\ c \in history'.missed \/ \A e \in InScope(c) : e.what \notin failing
  BY <1>1 DEF RunGate, TypeOK
<1> HIDE DEF failing
<1>6. CASE Gate(c, slow)
  <2>1. /\ branch' = [branch EXCEPT ![c].registry = @ \o rec.appended, ![c].gate = verdict]
        /\ openIds' = [openIds EXCEPT ![c] = rec.matched \cup rec.minted]
    BY <1>6 DEF Gate, rec
  <2> HIDE DEF verdict
  <2>2. branch' = [branch EXCEPT ![c] = [w EXCEPT !.registry = reg, !.gate = verdict]]
    BY <1>1, <2>1 DEF TypeOK
  <2>3. [w EXCEPT !.registry = reg, !.gate = verdict]
          = AWork("work", w.base, w.head, reg, w.debts, verdict)
    <3> HIDE DEF reg
    <3> DEFINE n == [w EXCEPT !.registry = reg, !.gate = verdict]
    <3>1. /\ n = [g \in DOMAIN n |-> n[g]]
          /\ DOMAIN n = {"st", "base", "head", "registry", "debts", "gate"}
      BY <1>1, <1>2 DEF AWork
    <3>2. /\ n.st = "work" /\ n.base = w.base /\ n.head = w.head
          /\ n.registry = reg /\ n.debts = w.debts /\ n.gate = verdict
      BY <1>1, <1>2 DEF AWork
    <3> HIDE DEF n
    <3>3. n = AWork(n.st, n.base, n.head, n.registry, n.debts, n.gate)
      BY <3>1, WorkIs
    <3>4. QED
      BY <3>2, <3>3 DEF n
  <2>4. Becomes(c, AWork("work", w.base, w.head, reg, w.debts, verdict))
    BY <1>1, <2>2, <2>3, BecomesIs
  <2>5. /\ verdict \in {"red", "green"}
        /\ verdict = "green" => ~MoreDebt(w.base, w.head)
    BY DEF verdict, Verdict
  <2>6. QED
    BY <1>1, <1>5, <1>9, <2>1, <2>4, <2>5 DEF Gated
<1>7. CASE KillGate(c, slow)
  <2>1. /\ branch' = [branch EXCEPT ![c].registry = @ \o rec.appended, ![c].gate = "none"]
        /\ openIds' = openIds
    BY <1>7 DEF KillGate, rec
  <2>2. branch' = [branch EXCEPT ![c] = [w EXCEPT !.registry = reg, !.gate = "none"]]
    BY <1>1, <2>1 DEF TypeOK
  <2>3. [w EXCEPT !.registry = reg, !.gate = "none"] = AWork("work", w.base, w.head, reg, w.debts, "none")
    <3> HIDE DEF reg
    <3> DEFINE n == [w EXCEPT !.registry = reg, !.gate = "none"]
    <3>1. /\ n = [g \in DOMAIN n |-> n[g]]
          /\ DOMAIN n = {"st", "base", "head", "registry", "debts", "gate"}
      BY <1>1, <1>2 DEF AWork
    <3>2. /\ n.st = "work" /\ n.base = w.base /\ n.head = w.head
          /\ n.registry = reg /\ n.debts = w.debts /\ n.gate = "none"
      BY <1>1, <1>2 DEF AWork
    <3> HIDE DEF n
    <3>3. n = AWork(n.st, n.base, n.head, n.registry, n.debts, n.gate)
      BY <3>1, WorkIs
    <3>4. QED
      BY <3>2, <3>3 DEF n
  <2>4. Becomes(c, AWork("work", w.base, w.head, reg, w.debts, "none"))
    BY <1>1, <2>2, <2>3, BecomesIs
  <2>5. QED
    BY <1>1, <1>5, <1>9, <2>1, <2>4 DEF Gated
<1>8. QED
  BY <1>6, <1>7

\* An open gap was opened, by an event that names its grep.
LEMMA PatternIs ==
  ASSUME NEW r \in Seq(Event), Sound(r), NEW id, IsOpen(r, id)
  PROVE  PatternOf(r, id) \in Patterns
<1>1. PICK i \in 1 .. Len(r) : r[i].id = id
  BY OpenIs
<1>2. PICK j \in 1 .. Len(r) : r[j] = Opened(id, r[j].what)
  BY <1>1, SMTT(30) DEF Sound
<1>3. r[j] \in ToSet(r) /\ r[j].id = id /\ r[j].event = "opened"
  BY <1>2 DEF ToSet, Opened
<1> DEFINE e == CHOOSE e \in ToSet(r) : e.id = id /\ e.event = "opened"
<1>4. e \in ToSet(r) /\ e.event = "opened"
  BY <1>3
<1>5. PatternOf(r, id) = e.what
  BY DEF PatternOf
<1> HIDE DEF e
<1>6. PICK k \in 1 .. Len(r) : e = r[k]
  BY <1>4 DEF ToSet
<1>7. QED
  BY <1>4, <1>5, <1>6 DEF Sound

LEMMA RuledIs ==
  ASSUME TypeOK, NEW id, NEW how, branch[Closing].st = "work",
         IsOpen(branch[Closing].registry, id),
         how = "debt" => \E p \in Patterns : branch[Closing].debts[p].gap = id,
         branch' = [branch EXCEPT ![Closing] =
                      [branch[Closing] EXCEPT !.registry = Append(@, Ruled(id, how))]],
         ruling' = NoGap, UNCHANGED <<master, reports, openIds, history>>
  PROVE  GapRuled(id, how)
<1> DEFINE w == branch[Closing]
           reg == Append(w.registry, Ruled(id, how))
           n == [w EXCEPT !.registry = reg]
<1>1. Closing \in Branches /\ Worked(Closing)
  BY DEF Branches, Worked
<1>2. w = AWork(w.st, w.base, w.head, w.registry, w.debts, w.gate)
  BY <1>1, WorkOf
<1>3. branch' = [branch EXCEPT ![Closing] = n]
  OBVIOUS
<1>4. n = AWork("work", w.base, w.head, reg, w.debts, w.gate)
  <2> HIDE DEF reg
  <2>1. /\ n = [g \in DOMAIN n |-> n[g]]
        /\ DOMAIN n = {"st", "base", "head", "registry", "debts", "gate"}
    BY <1>2 DEF AWork
  <2>2. /\ n.st = "work" /\ n.base = w.base /\ n.head = w.head
        /\ n.registry = reg /\ n.debts = w.debts /\ n.gate = w.gate
    BY <1>2 DEF AWork
  <2> HIDE DEF n
  <2>3. n = AWork(n.st, n.base, n.head, n.registry, n.debts, n.gate)
    BY <2>1, WorkIs
  <2>4. QED
    BY <2>2, <2>3
<1>5. Becomes(Closing, AWork("work", w.base, w.head, reg, w.debts, w.gate))
  BY <1>1, <1>3, <1>4, BecomesIs
<1>6. QED
  BY <1>5 DEF GapRuled

LEMMA EntityIs ==
  ASSUME TypeOK, RegistriesAreSound, NEW id, CreateDebtEntity(id)
  PROVE  \E p \in Patterns : EntityMade(id, p)
<1> DEFINE w == branch[Closing]
           p == PatternOf(w.registry, id)
           debts == [w.debts EXCEPT ![p] = [status |-> "open", gap |-> id,
                                            baseline |-> Hits(w.head.code, p)]]
           n == [w EXCEPT !.debts = debts]
<1>1. /\ Closing \in Branches /\ w.st = "work" /\ Worked(Closing) /\ IsOpen(w.registry, id)
      /\ w.debts[p] = NoDebt /\ ruling' = id /\ UNCHANGED <<master, reports, openIds, history>>
  BY DEF CreateDebtEntity, Measured, Rulable, Branches, Worked
<1>2. w = AWork(w.st, w.base, w.head, w.registry, w.debts, w.gate) /\ w.registry \in Seq(Event)
  BY <1>1, WorkOf
<1>3. p \in Patterns
  BY <1>1, <1>2, PatternIs DEF RegistriesAreSound
<1>4. branch' = [branch EXCEPT ![Closing] = n]
  BY DEF CreateDebtEntity, FirstWrite, WithEntity
<1>5. n = AWork("work", w.base, w.head, w.registry, debts, w.gate)
  <2> HIDE DEF debts
  <2>1. /\ n = [g \in DOMAIN n |-> n[g]]
        /\ DOMAIN n = {"st", "base", "head", "registry", "debts", "gate"}
    BY <1>2 DEF AWork
  <2>2. /\ n.st = "work" /\ n.base = w.base /\ n.head = w.head
        /\ n.registry = w.registry /\ n.debts = debts /\ n.gate = w.gate
    BY <1>1, <1>2 DEF AWork
  <2> HIDE DEF n
  <2>3. n = AWork(n.st, n.base, n.head, n.registry, n.debts, n.gate)
    BY <2>1, WorkIs
  <2>4. QED
    BY <2>2, <2>3
<1>6. Becomes(Closing, AWork("work", w.base, w.head, w.registry, debts, w.gate))
  BY <1>1, <1>4, <1>5, BecomesIs
<1>7. EntityMade(id, p)
  <2> HIDE DEF p
  <2>1. QED
    BY <1>1, <1>6 DEF EntityMade
<1>8. QED
  BY <1>3, <1>7

LEMMA NextIsTreeStep ==
  ASSUME TypeOK, RegistriesAreSound, RulingIsOpen, [Next]_vars
  PROVE  TreeStep
<1>1. CASE UNCHANGED vars
  BY <1>1 DEF vars, Quiet, TreeStep
<1>2. CASE \E t \in Branches : Fork(t) \/ OpenPr(t) \/ Merge(t)
  BY <1>2, ForkIs, OpenPrIs, MergeIs DEF TreeStep
<1>3. ASSUME NEW c \in Cards, \/ Edit(c) \/ Track(c) \/ Rebase(c)
                              \/ \E slow \in SUBSET Patterns : Gate(c, slow) \/ KillGate(c, slow)
                              \/ \E p \in Patterns : CloseDebt(c, p)
      PROVE  TreeStep
  <2>1. CASE Edit(c)
    BY <2>1, EditIs DEF TreeStep
  <2>2. CASE Track(c)
    BY <2>2, TrackIs DEF TreeStep
  <2>3. CASE \E slow \in SUBSET Patterns : Gate(c, slow) \/ KillGate(c, slow)
    BY <2>3, GateIs DEF TreeStep
  <2>4. CASE Rebase(c)
    BY <2>4, RebaseIs DEF TreeStep
  <2>5. CASE \E p \in Patterns : CloseDebt(c, p)
    BY <2>5, CloseDebtIs DEF TreeStep
  <2>6. QED
    BY <1>3, <2>1, <2>2, <2>3, <2>4, <2>5
<1>4. ASSUME NEW id, RuleDismissed(id)
      PROVE  GapRuled(id, "dismissed")
  <2>1. /\ branch[Closing].st = "work" /\ IsOpen(branch[Closing].registry, id)
        /\ ruling' = NoGap /\ UNCHANGED <<master, reports, openIds, history>>
    BY <1>4 DEF RuleDismissed, Rulable
  <2>2. branch' = [branch EXCEPT ![Closing] =
                     [branch[Closing] EXCEPT !.registry = Append(@, Ruled(id, "dismissed"))]]
    BY <1>4 DEF RuleDismissed
  <2>3. PICK how : how = "dismissed"
    OBVIOUS
  <2>4. GapRuled(id, how)
    <3>1. how # "debt"
      BY <2>3
    <3>2. branch' = [branch EXCEPT ![Closing] =
                       [branch[Closing] EXCEPT !.registry = Append(@, Ruled(id, how))]]
      BY <2>2, <2>3
    <3>3. QED
      BY <2>1, <3>1, <3>2, RuledIs
  <2>5. QED
    BY <2>3, <2>4
<1>5. ASSUME AppendRuling
      PROVE  \E id : GapRuled(id, "debt")
  <2> PICK id : id = ruling
    OBVIOUS
  <2>1. /\ branch[Closing].st = "work" /\ IsOpen(branch[Closing].registry, id)
        /\ \E p \in Patterns : branch[Closing].debts[p].gap = id
        /\ ruling' = NoGap /\ UNCHANGED <<master, reports, openIds, history>>
    BY <1>5 DEF AppendRuling, RulingIsOpen
  <2>2. branch' = [branch EXCEPT ![Closing] =
                     [branch[Closing] EXCEPT !.registry = Append(@, Ruled(id, "debt"))]]
    BY <1>5 DEF AppendRuling, WithRuling
  <2>3. GapRuled(id, "debt")
    BY <2>1, <2>2, RuledIs
  <2>4. QED
    BY <2>3
<1>6. CASE Ruling
  <2>1. ASSUME NEW id, RuleDismissed(id) \/ CreateDebtEntity(id) PROVE TreeStep
    <3>1. CASE RuleDismissed(id)
      BY <1>4, <3>1 DEF TreeStep
    <3>2. CASE CreateDebtEntity(id)
      BY <3>2, EntityIs DEF TreeStep
    <3>3. QED
      BY <2>1, <3>1, <3>2
  <2>2. CASE AppendRuling
    BY <1>5, <2>2 DEF TreeStep
  <2>3. CASE KillRule
    BY <2>3 DEF KillRule, Quiet, TreeStep
  <2>4. CASE Abandon
    BY <2>4, AbandonIs DEF TreeStep
  <2>5. QED
    BY <1>6, <2>1, <2>2, <2>3, <2>4 DEF Ruling
<1>7. CASE Backfill
  BY <1>7 DEF Backfill, Quiet, TreeStep, TypeOK
<1>8. CASE \E i \in DOMAIN fills : FailIssue(i) \/ \E p \in Patterns : CreateIssue(i, p)
  BY <1>8 DEF FailIssue, CreateIssue, Quiet, TreeStep
<1>9. QED
  BY <1>1, <1>2, <1>3, <1>6, <1>7, <1>8 DEF Next

\* What a step does to one branch that is worked on after it.
OwnStep(u) ==
  \/ branch'[u] = branch[u]
  \/ Forked(u)
  \/ u \in Cards /\ (Rebased(u) \/ Edited(u) \/ Gated(u) \/ \E p \in Patterns : DebtClosed(u, p))
  \/ PrOpened(u)
  \/ u = Closing /\ \E id : \/ GapRuled(id, "dismissed") \/ GapRuled(id, "debt")
                            \/ \E p \in Patterns : EntityMade(id, p)

LEMMA ClosingIsNoCard ==
  Closing \in Branches /\ Closing \notin Cards /\ Cards \subseteq Branches
    /\ \A t \in Branches : t = Closing \/ t \in Cards
BY RegistryAssumption DEF Branches

LEMMA OwnSteps ==
  ASSUME TreeStep, NEW u \in Branches, Worked(u)'
  PROVE  OwnStep(u)
<1>1. CASE Quiet
  BY <1>1 DEF Quiet, OwnStep
<1>2. CASE Abandoned
  <2>1. Becomes(Closing, [NoBranch EXCEPT !.st = "none"])
    BY <1>2 DEF Abandoned, Ended
  <2>2. u # Closing
    BY <2>1 DEF Becomes, Worked, NoBranch
  <2>3. QED
    BY <2>1, <2>2 DEF Becomes, OwnStep
<1>3. ASSUME NEW t \in Branches, Forked(t) \/ PrOpened(t) PROVE OwnStep(u)
  <2>1. CASE u = t
    BY <1>3, <2>1 DEF OwnStep
  <2>2. CASE u # t
    BY <1>3, <2>2 DEF Forked, PrOpened, Begun, Becomes, OwnStep
  <2>3. QED
    BY <2>1, <2>2
<1>4. ASSUME NEW t \in Branches, Merged(t) PROVE OwnStep(u)
  <2>1. PICK st : st = (IF t = Closing THEN "none" ELSE "merged")
    OBVIOUS
  <2>2. Becomes(t, [NoBranch EXCEPT !.st = st]) /\ st \notin {"work", "pr"}
    BY <1>4, <2>1 DEF Merged, Ended
  <2>3. u # t
    BY <2>2 DEF Becomes, Worked, NoBranch
  <2>4. QED
    BY <2>2, <2>3 DEF Becomes, OwnStep
<1>5. ASSUME NEW c \in Cards, Tracked(c) PROVE OwnStep(u)
  BY <1>5 DEF Tracked, OwnStep
<1>6. ASSUME NEW c \in Cards, \/ Edited(c) \/ Gated(c) \/ Rebased(c)
                              \/ \E p \in Patterns : DebtClosed(c, p)
      PROVE  OwnStep(u)
  <2>1. CASE u = c
    BY <1>6, <2>1 DEF OwnStep
  <2>2. CASE u # c
    BY <1>6, <2>2 DEF Edited, Gated, Rebased, DebtClosed, Begun, Becomes, OwnStep
  <2>3. QED
    BY <2>1, <2>2
<1>7. ASSUME NEW id, \/ GapRuled(id, "dismissed") \/ GapRuled(id, "debt")
                     \/ \E p \in Patterns : EntityMade(id, p)
      PROVE  OwnStep(u)
  <2>1. CASE u = Closing
    BY <1>7, <2>1 DEF OwnStep
  <2>2. CASE u # Closing
    BY <1>7, <2>2 DEF GapRuled, EntityMade, Becomes, OwnStep
  <2>3. QED
    BY <2>1, <2>2
<1>8. QED
  BY <1>1, <1>2, <1>3, <1>4, <1>5, <1>6, <1>7 DEF TreeStep

\* The default branch changes in a merge only.
LEMMA MasterSteps ==
  ASSUME TreeStep
  PROVE  master' = master \/ \E t \in Branches : Merged(t)
BY DEF TreeStep, Quiet, Abandoned, Forked, Begun, PrOpened, Tracked, Edited, Gated, Rebased,
       DebtClosed, GapRuled, EntityMade

\* What is no longer worked on is gone or merged.
LEMMA IdleSteps ==
  ASSUME TypeOK, TreeStep, NEW u \in Branches, ~Worked(u)'
  PROVE  branch'[u] \in {NoBranch, [NoBranch EXCEPT !.st = "merged"]}
<1>1. ASSUME NEW st, NEW base, NEW head, NEW registry, NEW debts, NEW gate,
             branch'[u] = AWork(st, base, head, registry, debts, gate), st \in {"work", "pr"}
      PROVE  FALSE
  BY <1>1 DEF AWork, Worked
<1>2. CASE branch'[u] = branch[u]
  BY <1>2 DEF TypeOK, Worked
<1>3. ASSUME NEW st, st \in {"none", "merged"}, Ended(u, st)
      PROVE  branch'[u] \in {NoBranch, [NoBranch EXCEPT !.st = "merged"]}
  <2>1. branch'[u] = [NoBranch EXCEPT !.st = st]
    BY <1>3 DEF Ended, Becomes
  <2>2. NoBranch = [NoBranch EXCEPT !.st = "none"]
    BY DEF NoBranch
  <2>3. QED
    BY <1>3, <2>1, <2>2
<1>4. CASE Quiet
  BY <1>2, <1>4 DEF Quiet
<1>5. CASE Abandoned
  BY <1>2, <1>3, <1>5 DEF Abandoned, Ended, Becomes
<1>6. ASSUME NEW t \in Branches, Forked(t) \/ PrOpened(t) PROVE branch'[u] = branch[u]
  BY <1>1, <1>6 DEF Forked, PrOpened, Begun, Becomes
<1>7. ASSUME NEW t \in Branches, Merged(t)
      PROVE  branch'[u] \in {NoBranch, [NoBranch EXCEPT !.st = "merged"]}
  <2>1. PICK st : st = (IF t = Closing THEN "none" ELSE "merged")
    OBVIOUS
  <2>2. Ended(t, st) /\ st \in {"none", "merged"}
    BY <1>7, <2>1 DEF Merged
  <2>3. QED
    BY <1>2, <1>3, <2>2 DEF Ended, Becomes
<1>8. ASSUME NEW c \in Cards, \/ Tracked(c) \/ Edited(c) \/ Gated(c) \/ Rebased(c)
                              \/ \E p \in Patterns : DebtClosed(c, p)
      PROVE  branch'[u] = branch[u]
  BY <1>1, <1>8 DEF Tracked, Edited, Gated, Rebased, DebtClosed, Begun, Becomes
<1>9. ASSUME NEW id, \/ GapRuled(id, "dismissed") \/ GapRuled(id, "debt")
                     \/ \E p \in Patterns : EntityMade(id, p)
      PROVE  branch'[u] = branch[u]
  <2>1. \E w : Becomes(Closing, w) /\ \E base, head, registry, debts, gate :
                w = AWork("work", base, head, registry, debts, gate)
    BY <1>9 DEF GapRuled, EntityMade
  <2>2. u # Closing
    BY <1>1, <2>1 DEF Becomes
  <2>3. QED
    BY <2>1, <2>2 DEF Becomes
<1>10. QED
  BY <1>2, <1>4, <1>5, <1>6, <1>7, <1>8, <1>9 DEF TreeStep
-----------------------------------------------------------------------------
(* Types                                                                   *)

LEMMA MergedCodeIs ==
  ASSUME TypeOK, NEW t \in Branches, Worked(t)
  PROVE  MergedCode(t) \in Code /\ MergedFiles(t) \in SUBSET Files
<1>1. /\ master.code \in Code /\ branch[t].head.code \in Code
      /\ master.files \in SUBSET Files /\ branch[t].head.files \in SUBSET Files
  BY WorkOf, TreeOf DEF TypeOK
<1>2. QED
  BY <1>1 DEF MergedCode, MergedFiles, Code

LEMMA NoDebtIs == NoDebt \in Debt
BY DEF NoDebt, NoGap, Debt

LEMMA MasterTyped ==
  ASSUME TypeOK, TreeStep
  PROVE  master' \in Tree
<1>1. CASE master' = master
  BY <1>1 DEF TypeOK
<1>2. ASSUME NEW t \in Branches, Merged(t) PROVE master' \in Tree
  <2>1. Worked(t)
    BY <1>2 DEF Merged, Worked
  <2>2. /\ branch[t].head.registry \in Seq(Event) /\ branch[t].head.debts \in [Patterns -> Debt]
        /\ master.registry \in Seq(Event) /\ master.debts \in [Patterns -> Debt]
        /\ MergedCode(t) \in Code /\ MergedFiles(t) \in SUBSET Files
    BY <2>1, WorkOf, TreeOf, MergedCodeIs DEF TypeOK
  <2>3. QED
    BY <1>2, <2>2 DEF Merged, ATree, Tree, Code
<1>3. QED
  BY <1>1, <1>2, MasterSteps

LEMMA AWorkTyped ==
  ASSUME NEW st \in {"work", "pr"}, NEW base \in Tree, NEW head \in Tree,
         NEW registry \in Seq(Event), NEW debts \in [Patterns -> Debt],
         NEW gate \in {"none", "red", "green"}
  PROVE  AWork(st, base, head, registry, debts, gate) \in Work
BY DEF AWork, Work

LEMMA ATreeTyped ==
  ASSUME NEW registry \in Seq(Event), NEW code \in Code, NEW files \in SUBSET Files,
         NEW debts \in [Patterns -> Debt]
  PROVE  ATree(registry, code, files, debts) \in Tree
BY DEF ATree, Tree, Code

LEMMA ShutTyped ==
  ASSUME NEW debts \in [Patterns -> Debt], NEW p \in Patterns
  PROVE  /\ Shut(debts, p) \in [Patterns -> Debt]
         /\ \A q \in Patterns : /\ Shut(debts, p)[q].gap = debts[q].gap
                                /\ q # p => Shut(debts, p)[q] = debts[q]
         /\ Shut(debts, p)[p].status = "closed"
<1>1. debts[p] \in Debt
  OBVIOUS
<1> DEFINE d == [debts[p] EXCEPT !.status = "closed"]
<1>2. d \in Debt /\ d.gap = debts[p].gap /\ d.status = "closed"
  BY <1>1 DEF Debt
<1>3. Shut(debts, p) = [debts EXCEPT ![p] = d]
  BY DEF Shut
<1> HIDE DEF d
<1>4. QED
  BY <1>2, <1>3

\* The id of an open gap is a number, and not that of no gap.
LEMMA OpenIdIs ==
  ASSUME NEW r \in Seq(Event), Sound(r), NEW id, IsOpen(r, id)
  PROVE  id \in Nat \ {0}
BY OpenIs, EventOf

\* An entity made for an open gap.
LEMMA EntityTyped ==
  ASSUME TypeOK, RegistriesAreSound, NEW id, NEW p \in Patterns, EntityMade(id, p)
  PROVE  LET old == branch[Closing].debts
             new == branch'[Closing].debts
         IN  /\ new \in [Patterns -> Debt] /\ id \in Nat \ {0}
             /\ new[p].gap = id /\ new[p].status = "open"
             /\ new[p].baseline = Hits(branch[Closing].head.code, p)
             /\ old[p].gap = NoGap /\ \A q \in Patterns : q # p => new[q] = old[q]
<1> DEFINE old == branch[Closing].debts
           d == [status |-> "open", gap |-> id, baseline |-> Hits(branch[Closing].head.code, p)]
<1>1. Worked(Closing) /\ IsOpen(branch[Closing].registry, id) /\ old[p] = NoDebt
  BY DEF EntityMade, Worked
<1>2. /\ branch[Closing].registry \in Seq(Event) /\ Sound(branch[Closing].registry)
      /\ branch[Closing].head.code \in Code /\ old \in [Patterns -> Debt]
  BY <1>1, ClosingIsNoCard, WorkOf, TreeOf DEF RegistriesAreSound
<1>3. id \in Nat \ {0} /\ Hits(branch[Closing].head.code, p) \in Nat
  BY <1>1, <1>2, OpenIdIs, HitsIsNat
<1>4. /\ d \in Debt /\ d.gap = id /\ d.status = "open"
      /\ d.baseline = Hits(branch[Closing].head.code, p)
  BY <1>3 DEF Debt
<1>5. branch'[Closing].debts = [old EXCEPT ![p] = d]
  BY DEF EntityMade, Becomes, AWork
<1>6. old[p].gap = NoGap
  BY <1>1 DEF NoDebt
<1> HIDE DEF d, old
<1>7. QED
  BY <1>2, <1>3, <1>4, <1>5, <1>6 DEF old

LEMMA BegunIs ==
  ASSUME TypeOK, NEW u \in Branches, Forked(u) \/ Rebased(u)
  PROVE  \E code \in Code, files \in SUBSET Files : Begun(u, code, files)
<1>1. master.code \in Code /\ master.files \in SUBSET Files
  BY TreeOf DEF TypeOK
<1>2. Rebased(u) => MergedCode(u) \in Code /\ MergedFiles(u) \in SUBSET Files
  BY MergedCodeIs DEF Rebased, Worked
<1>3. QED
  BY <1>1, <1>2 DEF Forked, Rebased

LEMMA WorkTyped ==
  ASSUME TypeOK, RegistriesAreSound, TreeStep, NEW u \in Branches, Worked(u)'
  PROVE  branch'[u] \in Work
<1>1. CASE branch'[u] = branch[u]
  BY <1>1 DEF TypeOK, Worked
<1>2. CASE Forked(u) \/ Rebased(u)
  <2>1. PICK code \in Code, files \in SUBSET Files : Begun(u, code, files)
    BY <1>2, BegunIs
  <2>2. master \in Tree
    BY DEF TypeOK
  <2>3. master.registry \in Seq(Event) /\ master.debts \in [Patterns -> Debt]
    BY <2>2, TreeOf
  <2>4. ATree(master.registry, code, files, master.debts) \in Tree
    BY <2>3, ATreeTyped
  <2>5. QED
    BY <2>1, <2>2, <2>3, <2>4, AWorkTyped DEF Begun, Becomes
<1>3. CASE ~Worked(u)
  <2>1. branch[u].st \notin {"work", "pr"}
    BY <1>3 DEF Worked
  <2>2. ASSUME NEW id, \/ GapRuled(id, "dismissed") \/ GapRuled(id, "debt")
                       \/ \E p \in Patterns : EntityMade(id, p)
        PROVE  branch[Closing].st = "work"
    BY <2>2 DEF GapRuled, EntityMade
  <2>3. ~Edited(u) /\ ~Gated(u) /\ ~PrOpened(u) /\ \A p \in Patterns : ~DebtClosed(u, p)
    BY <2>1 DEF Edited, Gated, PrOpened, DebtClosed
  <2>4. QED
    BY <1>1, <1>2, <2>1, <2>2, <2>3, OwnSteps DEF OwnStep
<1>4. CASE Worked(u)
  <2>1. /\ branch[u].base \in Tree /\ branch[u].head \in Tree
        /\ branch[u].registry \in Seq(Event) /\ branch[u].debts \in [Patterns -> Debt]
        /\ branch[u].gate \in {"none", "red", "green"}
    BY <1>4, WorkOf
  <2>2. /\ branch[u].head.registry \in Seq(Event) /\ branch[u].head.code \in Code
        /\ branch[u].head.files \in SUBSET Files /\ branch[u].head.debts \in [Patterns -> Debt]
    BY <2>1, TreeOf
  <2>3. Sound(branch[u].registry)
    BY <1>4 DEF RegistriesAreSound
  <2>5. CASE Edited(u)
    <3>1. PICK code \in Code, files \in SUBSET Files :
            Becomes(u, AWork("work", branch[u].base,
                             ATree(branch[u].head.registry, code, files, branch[u].head.debts),
                             branch[u].registry, branch[u].debts, "none"))
      BY <2>5 DEF Edited
    <3>2. ATree(branch[u].head.registry, code, files, branch[u].head.debts) \in Tree
      BY <2>2, ATreeTyped
    <3>3. QED
      BY <2>1, <3>1, <3>2, AWorkTyped DEF Becomes
  <2>6. CASE u \in Cards /\ Gated(u)
    <3>1. PICK app, fires, news, gate :
            /\ fires \in Nat /\ news \in Nat /\ gate \in {"none", "red", "green"}
            /\ Appends(branch[u].registry, reports[u].found, app, fires, news)
            /\ Becomes(u, AWork("work", branch[u].base, branch[u].head,
                                branch[u].registry \o app, branch[u].debts, gate))
      BY <2>6 DEF Gated
    <3>2. branch[u].registry \o app \in Seq(Event)
      BY <2>1, <3>1, ConcatProperties DEF Appends
    <3>3. QED
      <4>1. PICK registry \in Seq(Event) : registry = branch[u].registry \o app
        BY <3>2
      <4>2. AWork("work", branch[u].base, branch[u].head, registry, branch[u].debts, gate) \in Work
        BY <2>1, <3>1, AWorkTyped
      <4>3. QED
        BY <3>1, <4>1, <4>2 DEF Becomes
  <2>7. ASSUME NEW p \in Patterns, DebtClosed(u, p) PROVE branch'[u] \in Work
    <3>1. Shut(branch[u].head.debts, p) \in [Patterns -> Debt]
            /\ Shut(branch[u].debts, p) \in [Patterns -> Debt]
      BY <2>1, <2>2, ShutTyped
    <3>2. ATree(branch[u].head.registry, branch[u].head.code, branch[u].head.files,
                Shut(branch[u].head.debts, p)) \in Tree
      BY <2>2, <3>1, ATreeTyped
    <3>3. QED
      BY <2>1, <2>7, <3>1, <3>2, AWorkTyped DEF DebtClosed, Becomes
  <2>8. CASE PrOpened(u)
    <3>1. ATree(branch[u].registry, branch[u].head.code, branch[u].head.files,
                branch[u].debts) \in Tree
      BY <2>1, <2>2, ATreeTyped
    <3>2. QED
      BY <2>1, <2>8, <3>1, AWorkTyped DEF PrOpened, Becomes
  <2>9. ASSUME NEW id, NEW how \in {"dismissed", "debt"}, u = Closing, GapRuled(id, how)
        PROVE  branch'[u] \in Work
    <3>1. Append(branch[u].registry, Ruled(id, how)) \in Seq(Event)
      BY <2>1, <2>3, <2>9, RulingIsSound DEF GapRuled
    <3>2. QED
      <4>1. AWork("work", branch[u].base, branch[u].head,
                  Append(branch[u].registry, Ruled(id, how)), branch[u].debts, branch[u].gate) \in Work
        BY <2>1, <3>1, AWorkTyped
      <4>2. QED
        BY <2>9, <4>1 DEF GapRuled, Becomes
  <2>10. ASSUME NEW id, NEW p \in Patterns, u = Closing, EntityMade(id, p)
         PROVE  branch'[u] \in Work
    <3>1. branch'[Closing].debts \in [Patterns -> Debt]
      BY <2>10, EntityTyped
    <3>2. branch'[Closing] = AWork("work", branch[u].base, branch[u].head, branch[u].registry,
                                   branch'[Closing].debts, branch[u].gate)
      BY <2>10 DEF EntityMade, Becomes, AWork
    <3>3. QED
      BY <2>1, <2>10, <3>1, <3>2, AWorkTyped
  <2>11. QED
    BY <1>1, <1>2, <2>5, <2>6, <2>7, <2>8, <2>9, <2>10, OwnSteps DEF OwnStep
<1>5. QED
  BY <1>3, <1>4

\* The variables a tree is not made of.
LEMMA ListsTyped ==
  ASSUME TypeOK, RegistriesAreSound, TreeStep
  PROVE  /\ reports' \in [Cards -> [rounds : Nat, found : Seq(Patterns)]]
         /\ openIds' \in [Cards -> SUBSET (Nat \ {0})] /\ ruling' \in Nat
<1>1. /\ reports \in [Cards -> [rounds : Nat, found : Seq(Patterns)]]
      /\ openIds \in [Cards -> SUBSET (Nat \ {0})] /\ ruling \in Nat
  BY DEF TypeOK
<1>2. CASE UNCHANGED <<reports, openIds, ruling>>
  BY <1>1, <1>2
<1>3. CASE Quiet
  BY <1>1, <1>3 DEF Quiet, NoGap
<1>4. ASSUME NEW c \in Cards, Tracked(c)
      PROVE  reports' \in [Cards -> [rounds : Nat, found : Seq(Patterns)]]
               /\ UNCHANGED <<openIds, ruling>>
  BY <1>4 DEF Tracked
<1>5. ASSUME NEW c \in Cards, Gated(c)
      PROVE  openIds' \in [Cards -> SUBSET (Nat \ {0})] /\ UNCHANGED <<reports, ruling>>
  <2> DEFINE reg == branch[c].registry
  <2>1. Worked(c) /\ c \in Branches /\ UNCHANGED <<reports, ruling>>
    BY <1>5 DEF Gated, Worked, Branches
  <2>2. reg \in Seq(Event) /\ Sound(reg)
    BY <2>1, WorkOf DEF RegistriesAreSound
  <2> HIDE DEF reg
  <2>3. PICK news, failing :
          /\ news \in Nat
          /\ openIds' = openIds \/ openIds' = [openIds EXCEPT ![c] =
               {reg[i].id : i \in Again(reg, branch[c].head.code, Touched(c), failing)}
                 \cup (mintNextId(reg) .. mintNextId(reg) + news - 1)]
    BY <1>5 DEF Gated, reg
  <2>4. {reg[i].id : i \in Again(reg, branch[c].head.code, Touched(c), failing)} \in SUBSET (Nat \ {0})
    BY <2>2, EventOf DEF Again
  <2>5. (mintNextId(reg) .. mintNextId(reg) + news - 1) \in SUBSET (Nat \ {0})
    <3>1. mintNextId(reg) \in Nat \ {0}
      BY <2>2, FreshId
    <3>2. QED
      BY <3>1
  <2>6. QED
    BY <1>1, <2>1, <2>3, <2>4, <2>5
<1>6. ASSUME NEW id, GapRuled(id, "dismissed") \/ GapRuled(id, "debt")
      PROVE  ruling' = NoGap /\ UNCHANGED <<reports, openIds>>
  BY <1>6 DEF GapRuled
<1>7. ASSUME NEW id, NEW p \in Patterns, EntityMade(id, p)
      PROVE  ruling' \in Nat /\ UNCHANGED <<reports, openIds>>
  BY <1>7, EntityTyped DEF EntityMade
<1>8. CASE Abandoned \/ \E t \in Branches : Forked(t) \/ PrOpened(t) \/ Merged(t)
  BY <1>2, <1>8 DEF Abandoned, Forked, PrOpened, Merged, Begun
<1>9. CASE \E c \in Cards : \/ Edited(c) \/ Rebased(c) \/ \E p \in Patterns : DebtClosed(c, p)
  BY <1>2, <1>9 DEF Edited, Rebased, DebtClosed, Begun
<1>10. NoGap \in Nat
  BY DEF NoGap
<1>11. QED
  BY <1>1, <1>3, <1>4, <1>5, <1>6, <1>7, <1>8, <1>9, <1>10 DEF TreeStep

LEMMA CountersTyped ==
  ASSUME TypeOK, [Next]_vars
  PROVE  /\ issues' \in [Patterns -> Nat] /\ fills' \in Seq(SUBSET Patterns)
         /\ count' \in [edits : Nat, rulings : Nat, faults : Nat, fills : Nat]
         /\ history' \in [unguarded : SUBSET Patterns, removed : SUBSET Patterns,
              reworked : SUBSET Cards, missed : SUBSET Cards, overlap : BOOLEAN]
<1> DEFINE CountOK == count \in [edits : Nat, rulings : Nat, faults : Nat, fills : Nat]
           PastOK  == history \in [unguarded : SUBSET Patterns, removed : SUBSET Patterns,
              reworked : SUBSET Cards, missed : SUBSET Cards, overlap : BOOLEAN]
           DebtOK  == issues \in [Patterns -> Nat] /\ fills \in Seq(SUBSET Patterns)
<1>1. CountOK /\ PastOK /\ DebtOK
  BY DEF TypeOK
<1>2. ASSUME NEW what \in {"edits", "rulings", "faults", "fills"},
             NEW max, Counted(what, max)
      PROVE  CountOK'
  BY <1>1, <1>2 DEF Counted
<1>3. ASSUME NEW c \in Cards, history' = Reworked(c)
      PROVE  PastOK'
  BY <1>1, <1>3 DEF Reworked
<1>4. ASSUME UNCHANGED vars PROVE CountOK' /\ PastOK' /\ DebtOK'
  BY <1>1, <1>4 DEF vars
<1>5. ASSUME NEW t \in Branches, Fork(t) PROVE CountOK' /\ PastOK' /\ DebtOK'
  BY <1>1, <1>2, <1>5 DEF Fork
<1>6. ASSUME NEW t \in Branches, OpenPr(t) PROVE CountOK' /\ PastOK' /\ DebtOK'
  BY <1>1, <1>6 DEF OpenPr
<1>7. ASSUME NEW t \in Branches, Merge(t) PROVE CountOK' /\ PastOK' /\ DebtOK'
  <2>1. PICK S \in SUBSET Patterns, R \in SUBSET Patterns :
          history' = [history EXCEPT !.unguarded = @ \cup S, !.removed = @ \cup R]
    <3> DEFINE R == {h[1] : h \in branch[t].base.code \ (branch[t].head.code \cup master.code)}
               S == {p \in Patterns : /\ Hits(branch[t].head.code, p) > Hits(branch[t].base.code, p)
                                      /\ branch[t].head.debts[p].status # "open"}
    <3>1. Worked(t)
      BY <1>7 DEF Merge, Worked
    <3>2. branch[t].base.code \in Code
      BY <3>1, WorkOf, TreeOf
    <3>3. R \in SUBSET Patterns
      BY <3>2 DEF Code
    <3>4. history' = [history EXCEPT !.unguarded = @ \cup S, !.removed = @ \cup R]
      BY <1>7 DEF Merge
    <3>5. S \in SUBSET Patterns
      OBVIOUS
    <3> HIDE DEF R, S
    <3>6. QED
      BY <3>3, <3>4, <3>5
  <2>2. UNCHANGED <<issues, fills, count>>
    BY <1>7 DEF Merge
  <2>3. PastOK'
    BY <1>1, <2>1
  <2>4. QED
    BY <1>1, <2>2, <2>3
<1>8. ASSUME NEW c \in Cards, Edit(c) PROVE CountOK' /\ PastOK' /\ DebtOK'
  BY <1>1, <1>2, <1>3, <1>8 DEF Edit
<1>9. ASSUME NEW c \in Cards, Track(c) \/ \E p \in Patterns : CloseDebt(c, p)
      PROVE  CountOK' /\ PastOK' /\ DebtOK'
  BY <1>1, <1>9 DEF Track, CloseDebt
<1>10. ASSUME NEW c \in Cards, NEW slow, Gate(c, slow) \/ KillGate(c, slow)
       PROVE  CountOK' /\ PastOK' /\ DebtOK'
  <2>1. RunGate(c, slow) /\ UNCHANGED <<issues, fills>>
    BY <1>10 DEF Gate, KillGate
  <2>2. PICK M \in {history.missed, history.missed \cup {c}} :
          history' = [history EXCEPT !.missed = M]
    BY <2>1 DEF RunGate
  <2>3. PastOK'
    BY <1>1, <2>2
  <2>4. count' = count \/ Counted("faults", MaxFaults)
    BY <1>10 DEF Gate, KillGate
  <2>5. CountOK'
    BY <1>1, <1>2, <2>4
  <2>6. QED
    BY <1>1, <2>1, <2>3, <2>5
<1>11. ASSUME NEW c \in Cards, Rebase(c) PROVE CountOK' /\ PastOK' /\ DebtOK'
  BY <1>1, <1>3, <1>11 DEF Rebase
<1>12. ASSUME Ruling PROVE CountOK' /\ PastOK' /\ DebtOK'
  BY <1>1, <1>2, <1>12 DEF Ruling, RuleDismissed, CreateDebtEntity, AppendRuling, KillRule, Abandon
<1>13. ASSUME Backfill PROVE CountOK' /\ PastOK' /\ DebtOK'
  <2>1. selectMissing \in SUBSET Patterns
    BY DEF selectMissing, OpenDebts
  <2>2. fills' \in Seq(SUBSET Patterns) /\ issues' = issues
    BY <1>1, <1>13, <2>1 DEF Backfill
  <2>3. PICK b \in BOOLEAN : history' = [history EXCEPT !.overlap = b]
    BY <1>1, <1>13 DEF Backfill
  <2>4. PastOK'
    BY <1>1, <2>3
  <2>5. CountOK'
    BY <1>2, <1>13 DEF Backfill
  <2>6. QED
    BY <1>1, <2>2, <2>4, <2>5
<1>14. ASSUME NEW i \in DOMAIN fills, FailIssue(i) PROVE CountOK' /\ PastOK' /\ DebtOK'
  <2>1. fills' = [fills EXCEPT ![i] = {}] /\ UNCHANGED <<issues, history>> /\ CountOK'
    BY <1>2, <1>14 DEF FailIssue
  <2>2. fills' \in Seq(SUBSET Patterns)
    BY <1>1, <2>1, ExceptSeq
  <2>3. QED
    BY <1>1, <2>1, <2>2
<1>15. ASSUME NEW i \in DOMAIN fills, NEW p \in Patterns, CreateIssue(i, p)
       PROVE  CountOK' /\ PastOK' /\ DebtOK'
  <2>1. /\ fills' = [fills EXCEPT ![i] = fills[i] \ {p}] /\ UNCHANGED <<count, history>>
        /\ issues' = [issues EXCEPT ![p] = issues[p] + 1]
    BY <1>15 DEF CreateIssue
  <2>2. fills[i] \in SUBSET Patterns /\ i \in 1 .. Len(fills)
    BY <1>1
  <2>3. fills' \in Seq(SUBSET Patterns)
    BY <1>1, <2>1, <2>2, ExceptSeq
  <2>4. issues' \in [Patterns -> Nat]
    BY <1>1, <2>1
  <2>5. QED
    BY <1>1, <2>1, <2>3, <2>4
<1> HIDE DEF CountOK, PastOK, DebtOK
<1>16. CountOK' /\ PastOK' /\ DebtOK'
  <2>1. CASE \E c \in Cards : \/ Edit(c) \/ Track(c) \/ Rebase(c)
                              \/ \E slow \in SUBSET Patterns : Gate(c, slow) \/ KillGate(c, slow)
                              \/ \E p \in Patterns : CloseDebt(c, p)
    BY <1>8, <1>9, <1>10, <1>11, <2>1
  <2>2. CASE \E t \in Branches : Fork(t) \/ OpenPr(t) \/ Merge(t)
    BY <1>5, <1>6, <1>7, <2>2
  <2>3. CASE \E i \in DOMAIN fills : FailIssue(i) \/ \E p \in Patterns : CreateIssue(i, p)
    BY <1>14, <1>15, <2>3
  <2>4. CASE Next
    BY <1>12, <1>13, <2>1, <2>2, <2>3, <2>4 DEF Next
  <2>5. QED
    BY <1>4, <2>4
<1>17. QED
  BY <1>16 DEF CountOK, PastOK, DebtOK

LEMMA StepKeepsTypes ==
  ASSUME TypeOK, RegistriesAreSound, TreeStep, [Next]_vars
  PROVE  TypeOK'
<1>1. DOMAIN branch' = Branches
  BY ZenonT(60) DEF TypeOK, TreeStep, Quiet, Abandoned, Ended, Forked, PrOpened, Merged, Tracked, Edited,
         Gated, Rebased, DebtClosed, GapRuled, EntityMade, Begun, Becomes
<1>2. \A t \in Branches : IF Worked(t)' THEN branch'[t] \in Work
                          ELSE branch'[t] \in {NoBranch, [NoBranch EXCEPT !.st = "merged"]}
  BY WorkTyped, IdleSteps
<1>3. QED
  BY <1>1, <1>2, MasterTyped, ListsTyped, CountersTyped DEF TypeOK
-----------------------------------------------------------------------------
(* Registries in every tree                                                *)

\* The part of BranchesAppend that is about one branch.
AppendOnly(t) ==
  LET old == branch[t].base.registry
      new == branch[t].registry
  IN  /\ Len(old) <= Len(new) /\ \A i \in DOMAIN old : new[i] = old[i]
      /\ \A i \in DOMAIN new : i > Len(old) => (new[i].event = "ruled" <=> t = Closing)
      /\ branch[t].head.registry = IF branch[t].st = "pr" THEN new ELSE old
      /\ branch[t].st = "pr" \/ t # Closing => branch[t].head.debts = branch[t].debts

\* What a step appends to the registry of a branch.
LEMMA RegistrySteps ==
  ASSUME TypeOK, RegistriesAreSound, NEW u \in Branches, Worked(u), OwnStep(u)
  PROVE  \/ \E code \in Code, files \in SUBSET Files : Begun(u, code, files)
         \/ /\ branch'[u].base = branch[u].base
            /\ branch'[u].registry = branch[u].registry
         \/ /\ branch'[u].base = branch[u].base /\ branch[u].st = "work" /\ branch'[u].st = "work"
            /\ branch'[u].head = branch[u].head /\ branch'[u].debts = branch[u].debts
            /\ Sound(branch'[u].registry) /\ branch'[u].registry \in Seq(Event)
            /\ Len(branch[u].registry) <= Len(branch'[u].registry)
            /\ \A i \in 1 .. Len(branch[u].registry) :
                 branch'[u].registry[i] = branch[u].registry[i]
            /\ \A i \in 1 .. Len(branch'[u].registry) : i > Len(branch[u].registry) =>
                 (branch'[u].registry[i].event = "ruled" <=> u = Closing)
<1> DEFINE r == branch[u].registry
           new == branch'[u].registry
<1>1. r \in Seq(Event) /\ Sound(r)
  BY WorkOf DEF RegistriesAreSound
<1>2. CASE branch'[u] = branch[u]
  BY <1>2
<1>3. CASE Forked(u) \/ Rebased(u)
  BY <1>3, BegunIs
<1>4. CASE Edited(u) \/ PrOpened(u) \/ \E p \in Patterns : DebtClosed(u, p)
  <2>1. CASE Edited(u)
    BY <2>1 DEF Edited, Becomes, AWork
  <2>2. CASE PrOpened(u)
    BY <2>2 DEF PrOpened, Becomes, AWork
  <2>3. ASSUME NEW p \in Patterns, DebtClosed(u, p)
        PROVE  branch'[u].base = branch[u].base /\ branch'[u].registry = branch[u].registry
    BY <2>3 DEF DebtClosed, Becomes, AWork
  <2>4. QED
    BY <1>4, <2>1, <2>2, <2>3
<1>5. CASE u \in Cards /\ Gated(u)
  <2>1. PICK app, fires, news, gate :
          /\ fires \in Nat /\ news \in Nat
          /\ Appends(r, reports[u].found, app, fires, news)
          /\ Becomes(u, AWork("work", branch[u].base, branch[u].head, r \o app,
                              branch[u].debts, gate))
    BY <1>5 DEF Gated
  <2>2. /\ branch'[u].base = branch[u].base /\ branch[u].st = "work" /\ branch'[u].st = "work"
        /\ branch'[u].head = branch[u].head /\ branch'[u].debts = branch[u].debts
        /\ new = r \o app
    <3> DEFINE reg == r \o app
    <3>1. branch'[u] = AWork("work", branch[u].base, branch[u].head, reg, branch[u].debts, gate)
      BY <2>1 DEF Becomes
    <3> HIDE DEF reg
    <3>2. branch[u].st = "work"
      BY <1>5 DEF Gated
    <3>3. /\ branch'[u].base = branch[u].base /\ branch'[u].st = "work"
          /\ branch'[u].head = branch[u].head /\ branch'[u].debts = branch[u].debts
          /\ new = reg
      BY <3>1 DEF AWork
    <3>4. QED
      BY <3>2, <3>3 DEF reg
  <2>3. reports[u].found \in Seq(Patterns)
    <3>1. reports[u] \in [rounds : Nat, found : Seq(Patterns)]
      BY <1>5 DEF TypeOK
    <3>2. QED
      BY <3>1
  <2>4. u # Closing
    BY <1>5, ClosingIsNoCard
  <2>5. Grown(r, reports[u].found, r \o app, news)
    BY <1>1, <2>1, <2>3, GateAppendIsSound
  <2> HIDE DEF r, new
  <2>6. /\ new \in Seq(Event) /\ Sound(new) /\ Len(r) <= Len(new)
        /\ \A i \in 1 .. Len(r) : new[i] = r[i]
        /\ \A i \in 1 .. Len(new) : i > Len(r) => new[i].event # "ruled"
    BY <2>2, <2>5 DEF Grown
  <2>7. QED
    BY <2>2, <2>4, <2>6 DEF r, new
<1>6. ASSUME NEW id, NEW how \in {"dismissed", "debt"}, u = Closing, GapRuled(id, how)
      PROVE  /\ branch'[u].base = branch[u].base /\ branch[u].st = "work" /\ branch'[u].st = "work"
             /\ branch'[u].head = branch[u].head /\ branch'[u].debts = branch[u].debts
             /\ Sound(new) /\ new \in Seq(Event) /\ Len(r) <= Len(new)
             /\ \A i \in 1 .. Len(r) : new[i] = r[i]
             /\ \A i \in 1 .. Len(new) : i > Len(r) => (new[i].event = "ruled" <=> u = Closing)
  <2>1. /\ branch'[u].base = branch[u].base /\ branch[u].st = "work" /\ branch'[u].st = "work"
        /\ branch'[u].head = branch[u].head /\ branch'[u].debts = branch[u].debts
        /\ new = Append(r, Ruled(id, how)) /\ IsOpen(r, id)
    BY <1>6 DEF GapRuled, Becomes, AWork
  <2>2. LET s == Append(r, Ruled(id, how))
        IN  /\ s \in Seq(Event) /\ Sound(s) /\ Len(s) = Len(r) + 1
            /\ \A i \in 1 .. Len(r) : s[i] = r[i]
            /\ s[Len(r) + 1] = Ruled(id, how)
    BY <1>1, <2>1, RulingIsSound
  <2> HIDE DEF r, new
  <2>3. /\ new \in Seq(Event) /\ Sound(new) /\ Len(new) = Len(r) + 1
        /\ \A i \in 1 .. Len(r) : new[i] = r[i]
        /\ new[Len(r) + 1] = Ruled(id, how)
    BY <2>1, <2>2
  <2>4. Len(r) \in Nat
    BY <1>1
  <2>5. \A i \in 1 .. Len(new) : i > Len(r) => i = Len(r) + 1
    BY <2>3, <2>4
  <2>6. \A i \in 1 .. Len(new) : i > Len(r) => new[i].event = "ruled"
    BY <2>3, <2>5 DEF Ruled
  <2>7. QED
    BY <1>6, <2>1, <2>3, <2>4, <2>6
<1>7. ASSUME NEW id, NEW p \in Patterns, u = Closing, EntityMade(id, p)
      PROVE  branch'[u].base = branch[u].base /\ branch'[u].registry = branch[u].registry
  BY <1>7 DEF EntityMade, Becomes, AWork
<1> HIDE DEF r, new
<1>8. ASSUME NEW id, u = Closing, GapRuled(id, "dismissed") \/ GapRuled(id, "debt")
      PROVE  /\ branch'[u].base = branch[u].base /\ branch[u].st = "work" /\ branch'[u].st = "work"
             /\ branch'[u].head = branch[u].head /\ branch'[u].debts = branch[u].debts
             /\ Sound(new) /\ new \in Seq(Event) /\ Len(r) <= Len(new)
             /\ \A i \in 1 .. Len(r) : new[i] = r[i]
             /\ \A i \in 1 .. Len(new) : i > Len(r) => (new[i].event = "ruled" <=> u = Closing)
  BY <1>6, <1>8
<1>9. CASE u = Closing /\ \E id : GapRuled(id, "dismissed") \/ GapRuled(id, "debt")
  BY <1>8, <1>9 DEF r, new
<1>10. QED
  BY <1>2, <1>3, <1>4, <1>5, <1>7, <1>9 DEF OwnStep

\* A branch nobody worked on before the step was forked by it.
LEMMA FreshIsForked ==
  ASSUME NEW u \in Branches, ~Worked(u), Worked(u)', OwnStep(u)
  PROVE  Forked(u)
<1>1. branch[u].st \notin {"work", "pr"} /\ branch'[u] # branch[u]
  BY DEF Worked
<1>2. ASSUME NEW id, \/ GapRuled(id, "dismissed") \/ GapRuled(id, "debt")
                     \/ \E p \in Patterns : EntityMade(id, p)
      PROVE  branch[Closing].st = "work"
  BY <1>2 DEF GapRuled, EntityMade
<1>3. ~Edited(u) /\ ~Gated(u) /\ ~PrOpened(u) /\ ~Rebased(u) /\ \A p \in Patterns : ~DebtClosed(u, p)
  BY <1>1 DEF Edited, Gated, PrOpened, Rebased, DebtClosed
<1>4. QED
  BY <1>1, <1>2, <1>3 DEF OwnStep

LEMMA StepKeepsSound ==
  ASSUME TypeOK, RegistriesAreSound, BranchesAppend, TreeStep
  PROVE  RegistriesAreSound'
<1>1. Sound(master.registry)'
  <2>1. CASE master' = master
    BY <2>1 DEF RegistriesAreSound
  <2>2. ASSUME NEW t \in Branches, Merged(t) PROVE Sound(master.registry)'
    <3>1. Worked(t) /\ branch[t].st = "pr"
      BY <2>2 DEF Merged, Worked
    <3>2. branch[t].head.registry = branch[t].registry
      BY <3>1 DEF BranchesAppend
    <3>3. master'.registry \in {master.registry, branch[t].head.registry}
      BY <2>2 DEF Merged, ATree
    <3>4. QED
      BY <3>1, <3>2, <3>3 DEF RegistriesAreSound
  <2>3. QED
    BY <2>1, <2>2, MasterSteps
<1>2. ASSUME NEW u \in Branches, Worked(u)'
      PROVE  Sound(branch[u].base.registry)' /\ Sound(branch[u].registry)'
  <2>1. OwnStep(u)
    BY <1>2, OwnSteps
  <2>2. ASSUME NEW code, NEW files, Begun(u, code, files)
        PROVE  Sound(branch[u].base.registry)' /\ Sound(branch[u].registry)'
    <3>1. branch'[u].base = master /\ branch'[u].registry = master.registry
      BY <2>2 DEF Begun, Becomes, AWork
    <3>2. QED
      BY <3>1 DEF RegistriesAreSound
  <2>3. CASE ~Worked(u)
    BY <1>2, <2>1, <2>2, <2>3, FreshIsForked DEF Forked
  <2>4. CASE Worked(u)
    <3>1. Sound(branch[u].base.registry) /\ Sound(branch[u].registry)
      BY <2>4 DEF RegistriesAreSound
    <3>2. QED
      BY <2>1, <2>2, <2>4, <3>1, RegistrySteps
  <2>5. QED
    BY <2>3, <2>4
<1>3. QED
  BY <1>1, <1>2 DEF RegistriesAreSound

LEMMA StepKeepsAppends ==
  ASSUME TypeOK, RegistriesAreSound, BranchesAppend, TreeStep, NEW u \in Branches, Worked(u)'
  PROVE  AppendOnly(u)'
<1> DEFINE old == branch[u].base.registry
           mid == branch[u].registry
           new == branch'[u].registry
           HeadOf(st, registry, debts, head) ==
             /\ head.registry = IF st = "pr" THEN registry ELSE old
             /\ st = "pr" \/ u # Closing => head.debts = debts
<1>1. OwnStep(u)
  BY OwnSteps
<1>2. ASSUME NEW code, NEW files, Begun(u, code, files) PROVE AppendOnly(u)'
  <2>1. /\ branch'[u].base = master /\ branch'[u].registry = master.registry
        /\ branch'[u].head.registry = master.registry /\ branch'[u].st = "work"
        /\ branch'[u].head.debts = branch'[u].debts
    BY <1>2 DEF Begun, Becomes, AWork, ATree
  <2>2. master.registry \in Seq(Event)
    BY TreeOf DEF TypeOK
  <2>3. Len(master.registry) \in Nat /\ DOMAIN master.registry = 1 .. Len(master.registry)
    BY <2>2
  <2>4. QED
    BY <2>1, <2>3 DEF AppendOnly
<1>3. CASE ~Worked(u)
  BY <1>1, <1>2, <1>3, FreshIsForked DEF Forked
<1>4. CASE Worked(u) /\ ~\E code, files : Begun(u, code, files)
  <2>1. AppendOnly(u)
    BY <1>4 DEF BranchesAppend, AppendOnly
  <2>2. old \in Seq(Event) /\ mid \in Seq(Event)
    BY <1>4, WorkOf, TreeOf
  <2>3. /\ branch'[u].base = branch[u].base /\ new \in Seq(Event)
        /\ Len(mid) <= Len(new) /\ \A i \in 1 .. Len(mid) : new[i] = mid[i]
        /\ \A i \in 1 .. Len(new) : i > Len(mid) => (new[i].event = "ruled" <=> u = Closing)
    BY <1>1, <1>4, <2>2, RegistrySteps
  <2>4. HeadOf(branch[u].st, mid, branch[u].debts, branch[u].head)
    BY <2>1 DEF AppendOnly
  <2>5. HeadOf(branch'[u].st, new, branch'[u].debts, branch'[u].head)
    <3>1. CASE branch'[u] = branch[u]
      BY <2>4, <3>1
    <3>2. CASE Forked(u) \/ Rebased(u)
      BY <1>4, <3>2 DEF Forked, Rebased
    <3>3. CASE Edited(u)
      <4>1. /\ branch[u].st = "work" /\ branch'[u].st = "work"
            /\ branch'[u].head.registry = branch[u].head.registry
            /\ branch'[u].head.debts = branch[u].head.debts /\ branch'[u].debts = branch[u].debts
        BY <3>3 DEF Edited, Becomes, AWork, ATree
      <4>2. QED
        BY <2>4, <4>1
    <3>4. CASE PrOpened(u)
      BY <3>4 DEF PrOpened, Becomes, AWork, ATree
    <3>5. ASSUME NEW p \in Patterns, u \in Cards, DebtClosed(u, p)
          PROVE  HeadOf(branch'[u].st, new, branch'[u].debts, branch'[u].head)
      <4>1. /\ branch[u].st = "work" /\ branch'[u].st = "work"
            /\ branch'[u].head.registry = branch[u].head.registry
            /\ branch'[u].head.debts = Shut(branch[u].head.debts, p)
            /\ branch'[u].debts = Shut(branch[u].debts, p)
        BY <3>5 DEF DebtClosed, Becomes, AWork, ATree
      <4>2. u # Closing
        BY <3>5, ClosingIsNoCard
      <4>3. QED
        BY <2>4, <4>1, <4>2
    <3>6. CASE u \in Cards /\ Gated(u)
      <4>1. /\ branch[u].st = "work" /\ branch'[u].st = "work"
            /\ branch'[u].head = branch[u].head /\ branch'[u].debts = branch[u].debts
        BY <3>6 DEF Gated, Becomes, AWork
      <4>2. QED
        BY <2>4, <4>1
    <3>7. ASSUME NEW id, GapRuled(id, "dismissed") \/ GapRuled(id, "debt"), u = Closing
          PROVE  HeadOf(branch'[u].st, new, branch'[u].debts, branch'[u].head)
      <4>1. /\ branch[u].st = "work" /\ branch'[u].st = "work"
            /\ branch'[u].head = branch[u].head /\ branch'[u].debts = branch[u].debts
        BY <3>7 DEF GapRuled, Becomes, AWork
      <4>2. QED
        BY <2>4, <4>1
    <3>8. ASSUME NEW id, NEW p \in Patterns, u = Closing, EntityMade(id, p)
          PROVE  HeadOf(branch'[u].st, new, branch'[u].debts, branch'[u].head)
      <4>1. /\ branch[u].st = "work" /\ branch'[u].st = "work"
            /\ branch'[u].head = branch[u].head
        BY <3>8 DEF EntityMade, Becomes, AWork
      <4>2. QED
        BY <2>4, <3>8, <4>1
    <3> HIDE DEF HeadOf, new
    <3>9. QED
      BY <1>1, <3>1, <3>2, <3>3, <3>4, <3>5, <3>6, <3>7, <3>8 DEF OwnStep
  <2>6. /\ Len(old) <= Len(mid) /\ \A i \in 1 .. Len(old) : mid[i] = old[i]
        /\ \A i \in 1 .. Len(mid) : i > Len(old) => (mid[i].event = "ruled" <=> u = Closing)
    BY <2>1, <2>2 DEF AppendOnly
  <2>7. Len(old) \in Nat /\ Len(mid) \in Nat /\ Len(new) \in Nat
          /\ DOMAIN old = 1 .. Len(old) /\ DOMAIN new = 1 .. Len(new)
    BY <2>2, <2>3
  <2>8. branch'[u].base.registry = old
    BY <2>3
  <2>9. AppendOnly(u)' <=>
          /\ Len(old) <= Len(new) /\ \A i \in DOMAIN old : new[i] = old[i]
          /\ \A i \in DOMAIN new : i > Len(old) => (new[i].event = "ruled" <=> u = Closing)
          /\ HeadOf(branch'[u].st, new, branch'[u].debts, branch'[u].head)
    BY <2>8 DEF AppendOnly
  <2> HIDE DEF HeadOf, old, mid, new
  <2>10. Len(old) <= Len(new) /\ \A i \in DOMAIN old : new[i] = old[i]
    BY <2>3, <2>6, <2>7
  <2>11. ASSUME NEW i \in DOMAIN new, i > Len(old)
         PROVE  new[i].event = "ruled" <=> u = Closing
    <3>1. CASE i <= Len(mid)
      <4>1. i \in 1 .. Len(mid) /\ new[i] = mid[i]
        BY <2>3, <2>7, <3>1
      <4>2. QED
        BY <2>6, <2>11, <4>1
    <3>2. CASE ~(i <= Len(mid))
      BY <2>3, <2>7, <3>2
    <3>3. QED
      BY <3>1, <3>2
  <2>12. QED
    BY <2>5, <2>9, <2>10, <2>11
<1>5. QED
  BY <1>2, <1>3, <1>4

LEMMA StepKeepsRuling ==
  ASSUME TypeOK, RegistriesAreSound, RulingIsOpen, TreeStep
  PROVE  RulingIsOpen'
<1>1. CASE ruling' = ruling /\ branch'[Closing] = branch[Closing]
  BY <1>1 DEF RulingIsOpen
<1>2. CASE ruling' = NoGap
  BY <1>2 DEF RulingIsOpen
<1>3. ASSUME NEW id, NEW p \in Patterns, EntityMade(id, p) PROVE RulingIsOpen'
  <2>1. /\ ruling' = id /\ IsOpen(branch[Closing].registry, id)
        /\ branch'[Closing].st = "work" /\ branch'[Closing].registry = branch[Closing].registry
    BY <1>3 DEF EntityMade, Becomes, AWork
  <2>2. branch'[Closing].debts[p].gap = id
    BY <1>3, EntityTyped
  <2>3. QED
    BY <2>1, <2>2 DEF RulingIsOpen
<1>4. ASSUME NEW t \in Branches, Forked(t) \/ PrOpened(t) \/ Merged(t) PROVE RulingIsOpen'
  <2>1. ruling' = ruling
    BY <1>4 DEF Forked, PrOpened, Merged, Begun
  <2>2. \E w : Becomes(t, w)
    BY <1>4 DEF Forked, PrOpened, Merged, Ended, Begun
  <2>3. CASE t # Closing
    BY <1>1, <2>1, <2>2, <2>3, ClosingIsNoCard DEF Becomes
  <2>4. CASE t = Closing
    <3>1. branch[Closing].st # "work" \/ ruling = NoGap
      BY <1>4, <2>4 DEF Forked, PrOpened, Merged
    <3>2. ruling = NoGap
      BY <3>1 DEF RulingIsOpen
    <3>3. QED
      BY <1>2, <2>1, <3>2
  <2>5. QED
    BY <2>3, <2>4
<1>5. CASE Abandoned
  <2>1. ruling' = ruling /\ branch[Closing].st # "work"
    BY <1>5 DEF Abandoned
  <2>2. QED
    BY <1>2, <2>1 DEF RulingIsOpen
<1>6. ASSUME NEW c \in Cards, \/ Tracked(c) \/ Edited(c) \/ Gated(c) \/ Rebased(c)
                              \/ \E p \in Patterns : DebtClosed(c, p)
      PROVE  RulingIsOpen'
  <2>1. ruling' = ruling /\ (branch' = branch \/ \E w : Becomes(c, w))
    <3>1. CASE Gated(c)
      BY <3>1 DEF Gated
    <3>2. CASE ~Gated(c)
      BY <1>6, <3>2 DEF Tracked, Edited, Rebased, DebtClosed, Begun
    <3>3. QED
      BY <3>1, <3>2
  <2>2. branch'[Closing] = branch[Closing]
    BY <2>1, ClosingIsNoCard DEF Becomes
  <2>3. QED
    BY <1>1, <2>1, <2>2
<1>7. CASE Quiet
  BY <1>1, <1>2, <1>7 DEF Quiet
<1>8. CASE \E id : GapRuled(id, "dismissed") \/ GapRuled(id, "debt")
  BY <1>2, <1>8 DEF GapRuled
<1>9. QED
  BY <1>3, <1>4, <1>5, <1>6, <1>7, <1>8 DEF TreeStep
-----------------------------------------------------------------------------
(* Debts                                                                   *)

IsDebtRuling(e) == e.event = "ruled" /\ e.what = "debt"

\* What a step does to the entities of a branch that goes on: they keep their gaps, an
\* open one was there or is measured on the head, and what is committed was there.
DebtStep(u) ==
  LET old == branch[u]
      new == branch'[u]
  IN  /\ new.base = old.base
      /\ \A p \in Patterns : old.debts[p].gap # NoGap => new.debts[p].gap = old.debts[p].gap
      /\ \A p \in Patterns : new.debts[p].status = "open" =>
           \/ new.debts[p] = old.debts[p]
           \/ u = Closing /\ new.debts[p].baseline = Hits(old.head.code, p)
      /\ \A p \in Patterns : new.head.debts[p].status = "open" =>
           new.head.debts[p] \in {old.head.debts[p], old.debts[p]}
      /\ \/ new.head.registry = old.registry /\ new.head.debts = old.debts
         \/ /\ new.head.registry = old.head.registry
            /\ \A p \in Patterns : new.head.debts[p].gap = old.head.debts[p].gap
      /\ \A e \in ToSet(new.registry) : IsDebtRuling(e) =>
           e \in ToSet(old.registry) \/ \E p \in Patterns : old.debts[p].gap = e.id

LEMMA DebtSteps ==
  ASSUME TypeOK, RegistriesAreSound, NEW u \in Branches, Worked(u), OwnStep(u),
         ~\E code \in Code, files \in SUBSET Files : Begun(u, code, files)
  PROVE  DebtStep(u)
<1>1. /\ branch[u].debts \in [Patterns -> Debt] /\ branch[u].head.debts \in [Patterns -> Debt]
      /\ branch[u].registry \in Seq(Event) /\ Sound(branch[u].registry)
  BY WorkOf, TreeOf DEF RegistriesAreSound
<1>2. CASE branch'[u] = branch[u]
  BY <1>2 DEF DebtStep
<1>3. CASE Forked(u) \/ Rebased(u)
  BY <1>3, BegunIs
<1>4. CASE Edited(u)
  <2>1. /\ branch'[u].base = branch[u].base /\ branch'[u].registry = branch[u].registry
        /\ branch'[u].debts = branch[u].debts
        /\ branch'[u].head.registry = branch[u].head.registry
        /\ branch'[u].head.debts = branch[u].head.debts
    BY <1>4 DEF Edited, Becomes, AWork, ATree
  <2>2. QED
    BY <2>1 DEF DebtStep
<1>5. CASE PrOpened(u)
  <2>1. /\ branch'[u].base = branch[u].base /\ branch'[u].registry = branch[u].registry
        /\ branch'[u].debts = branch[u].debts
        /\ branch'[u].head.registry = branch[u].registry
        /\ branch'[u].head.debts = branch[u].debts
    BY <1>5 DEF PrOpened, Becomes, AWork, ATree
  <2>2. QED
    BY <2>1 DEF DebtStep
<1>6. ASSUME NEW q \in Patterns, DebtClosed(u, q) PROVE DebtStep(u)
  <2>1. /\ branch'[u].base = branch[u].base /\ branch'[u].registry = branch[u].registry
        /\ branch'[u].debts = Shut(branch[u].debts, q)
        /\ branch'[u].head.registry = branch[u].head.registry
        /\ branch'[u].head.debts = Shut(branch[u].head.debts, q)
    BY <1>6 DEF DebtClosed, Becomes, AWork, ATree
  <2>2. ASSUME NEW debts \in [Patterns -> Debt], NEW p \in Patterns
        PROVE  /\ Shut(debts, q)[p].gap = debts[p].gap
               /\ Shut(debts, q)[p].status = "open" => Shut(debts, q)[p] = debts[p]
    <3>1. CASE p = q
      <4>1. debts[p] \in Debt
        OBVIOUS
      <4>2. Shut(debts, q)[p] = [debts[p] EXCEPT !.status = "closed"]
        BY <3>1 DEF Shut
      <4>3. QED
        BY <4>1, <4>2 DEF Debt
    <3>2. CASE p # q
      BY <3>2 DEF Shut
    <3>3. QED
      BY <3>1, <3>2
  <2>3. ASSUME NEW p \in Patterns
        PROVE  /\ branch'[u].debts[p].gap = branch[u].debts[p].gap
               /\ branch'[u].head.debts[p].gap = branch[u].head.debts[p].gap
               /\ branch'[u].debts[p].status = "open" =>
                    branch'[u].debts[p] = branch[u].debts[p]
               /\ branch'[u].head.debts[p].status = "open" =>
                    branch'[u].head.debts[p] = branch[u].head.debts[p]
    <3>1. PICK d, h : d = branch[u].debts /\ h = branch[u].head.debts
      OBVIOUS
    <3>2. /\ Shut(d, q)[p].gap = d[p].gap /\ Shut(h, q)[p].gap = h[p].gap
          /\ Shut(d, q)[p].status = "open" => Shut(d, q)[p] = d[p]
          /\ Shut(h, q)[p].status = "open" => Shut(h, q)[p] = h[p]
      <4>1. d \in [Patterns -> Debt] /\ h \in [Patterns -> Debt]
        BY <1>1, <3>1
      <4>2. QED
        BY <4>1, <2>2
    <3>3. QED
      BY <2>1, <3>1, <3>2
  <2>4. QED
    BY <2>1, <2>3 DEF DebtStep
<1>7. CASE u \in Cards /\ Gated(u)
  <2>1. PICK app, fires, news, gate :
          /\ fires \in Nat /\ news \in Nat
          /\ Appends(branch[u].registry, reports[u].found, app, fires, news)
          /\ Becomes(u, AWork("work", branch[u].base, branch[u].head, branch[u].registry \o app,
                              branch[u].debts, gate))
    BY <1>7 DEF Gated
  <2>2. reports[u].found \in Seq(Patterns)
    <3>1. reports[u] \in [rounds : Nat, found : Seq(Patterns)]
      BY <1>7 DEF TypeOK
    <3>2. QED
      BY <3>1
  <2> DEFINE reg == branch[u].registry \o app
  <2>3. Grown(branch[u].registry, reports[u].found, reg, news)
    BY <1>1, <2>1, <2>2, GateAppendIsSound
  <2>4. branch'[u] = AWork("work", branch[u].base, branch[u].head, reg, branch[u].debts, gate)
    BY <2>1 DEF Becomes
  <2> HIDE DEF reg
  <2>5. /\ branch'[u].base = branch[u].base /\ branch'[u].registry = reg
        /\ branch'[u].debts = branch[u].debts /\ branch'[u].head = branch[u].head
    BY <2>4 DEF AWork
  <2>6. ASSUME NEW e \in ToSet(reg), IsDebtRuling(e) PROVE e \in ToSet(branch[u].registry)
    <3>1. PICK i \in 1 .. Len(reg) : e = reg[i]
      BY <2>3 DEF ToSet, Grown
    <3>2. Len(branch[u].registry) \in Nat /\ DOMAIN branch[u].registry = 1 .. Len(branch[u].registry)
      BY <1>1
    <3>3. i <= Len(branch[u].registry)
      BY <2>3, <2>6, <3>1, <3>2 DEF Grown, IsDebtRuling
    <3>4. e = branch[u].registry[i]
      BY <2>3, <3>1, <3>2, <3>3 DEF Grown
    <3>5. QED
      BY <3>1, <3>2, <3>3, <3>4 DEF ToSet
  <2>7. QED
    BY <2>5, <2>6 DEF DebtStep
<1>8. ASSUME NEW id, NEW how \in {"dismissed", "debt"}, u = Closing, GapRuled(id, how)
      PROVE  DebtStep(u)
  <2> DEFINE reg == Append(branch[u].registry, Ruled(id, how))
             r == branch[u].registry
  <2>1. /\ branch'[u] = AWork("work", branch[u].base, branch[u].head, reg,
                              branch[u].debts, branch[u].gate)
        /\ IsOpen(r, id) /\ (how = "debt" => \E p \in Patterns : branch[u].debts[p].gap = id)
    BY <1>8 DEF GapRuled, Becomes
  <2>2. /\ Len(reg) = Len(r) + 1 /\ reg[Len(r) + 1] = Ruled(id, how) /\ reg \in Seq(Event)
        /\ \A i \in 1 .. Len(r) : reg[i] = r[i]
    BY <1>1, <2>1, RulingIsSound
  <2>3. Len(r) \in Nat /\ DOMAIN r = 1 .. Len(r)
    BY <1>1
  <2> HIDE DEF reg, r
  <2>4. /\ branch'[u].base = branch[u].base /\ branch'[u].registry = reg
        /\ branch'[u].debts = branch[u].debts /\ branch'[u].head = branch[u].head
    BY <2>1 DEF AWork
  <2>5. ASSUME NEW e \in ToSet(reg), IsDebtRuling(e)
        PROVE  e \in ToSet(r) \/ \E p \in Patterns : branch[u].debts[p].gap = e.id
    <3>1. PICK i \in 1 .. Len(r) + 1 : e = reg[i]
      BY <2>2 DEF ToSet
    <3>2. CASE i = Len(r) + 1
      <4>1. how = "debt" /\ e.id = id
        BY <2>2, <2>5, <3>1, <3>2 DEF Ruled, IsDebtRuling
      <4>2. QED
        BY <2>1, <4>1
    <3>3. CASE i # Len(r) + 1
      <4>1. i \in 1 .. Len(r)
        BY <2>3, <3>3
      <4>2. QED
        BY <2>2, <2>3, <3>1, <4>1 DEF ToSet
    <3>4. QED
      BY <3>2, <3>3
  <2>6. QED
    BY <2>4, <2>5 DEF DebtStep, r
<1>9. ASSUME NEW id, NEW q \in Patterns, u = Closing, EntityMade(id, q) PROVE DebtStep(u)
  <2>1. /\ branch'[u].base = branch[u].base /\ branch'[u].registry = branch[u].registry
        /\ branch'[u].head = branch[u].head
    BY <1>9 DEF EntityMade, Becomes, AWork
  <2>2. /\ branch'[u].debts[q].baseline = Hits(branch[u].head.code, q)
        /\ branch[u].debts[q].gap = NoGap
        /\ \A p \in Patterns : p # q => branch'[u].debts[p] = branch[u].debts[p]
    BY <1>9, EntityTyped
  <2>3. ASSUME NEW p \in Patterns
        PROVE  /\ branch[u].debts[p].gap # NoGap => branch'[u].debts[p].gap = branch[u].debts[p].gap
               /\ \/ branch'[u].debts[p] = branch[u].debts[p]
                  \/ branch'[u].debts[p].baseline = Hits(branch[u].head.code, p)
    BY <2>2
  <2>4. QED
    BY <1>9, <2>1, <2>3 DEF DebtStep
<1>10. QED
  <2>1. ASSUME NEW id, GapRuled(id, "dismissed") \/ GapRuled(id, "debt"), u = Closing
        PROVE  DebtStep(u)
    BY <1>8, <2>1
  <2>2. QED
    BY <1>2, <1>3, <1>4, <1>5, <1>6, <1>7, <1>9, <2>1 DEF OwnStep

\* A merge leaves the entity of a gap to its gap.
LEMMA MasterKeepsGaps ==
  ASSUME TypeOK, ArtifactsAreThere, TreeStep, NEW p \in Patterns, master.debts[p].gap # NoGap
  PROVE  master'.debts[p].gap = master.debts[p].gap
<1>1. CASE master' = master
  BY <1>1
<1>2. ASSUME NEW t \in Branches, Merged(t) PROVE master'.debts[p].gap = master.debts[p].gap
  <2>1. Worked(t) /\ ~Conflict(t)
    BY <1>2 DEF Merged, Worked
  <2>2. master'.debts[p] = IF branch[t].head.debts[p] = branch[t].base.debts[p]
                           THEN master.debts[p] ELSE branch[t].head.debts[p]
    BY <1>2 DEF Merged, ATree
  <2>3. CASE branch[t].head.debts[p] = branch[t].base.debts[p]
    BY <2>2, <2>3
  <2>4. CASE branch[t].head.debts[p] # branch[t].base.debts[p]
    <3>1. branch[t].base.debts[p] = master.debts[p] \/ branch[t].head.debts[p] = master.debts[p]
      BY <2>1, <2>4 DEF Conflict
    <3>2. CASE branch[t].head.debts[p] = master.debts[p]
      BY <2>2, <2>4, <3>2
    <3>3. CASE branch[t].base.debts[p] = master.debts[p]
      <4>1. branch[t].head.debts[p].gap = branch[t].base.debts[p].gap
        BY <2>1, <3>3 DEF ArtifactsAreThere
      <4>2. QED
        BY <2>2, <2>4, <3>3, <4>1
    <3>4. QED
      BY <3>1, <3>2, <3>3
  <2>5. QED
    BY <2>3, <2>4
<1>3. QED
  BY <1>1, <1>2, MasterSteps

LEMMA ArtifactsIs ==
  ASSUME NEW registry, NEW debts
  PROVE  Artifacts(registry, debts) <=>
           \A e \in ToSet(registry) : IsDebtRuling(e) => \E p \in Patterns : debts[p].gap = e.id
BY DEF Artifacts, IsDebtRuling

\* An event's gap is a gap.
LEMMA GapOf ==
  ASSUME NEW r \in Seq(Event), NEW e \in ToSet(r)
  PROVE  e.id # NoGap
BY EventOf DEF ToSet, NoGap

LEMMA MasterKeepsArtifacts ==
  ASSUME TypeOK, ArtifactsAreThere, TreeStep
  PROVE  Artifacts(master'.registry, master'.debts)
<1>1. CASE master' = master
  BY <1>1 DEF ArtifactsAreThere
<1>2. ASSUME NEW t \in Branches, Merged(t)
      PROVE  Artifacts(master'.registry, master'.debts)
  <2> DEFINE base == branch[t].base
             head == branch[t].head
  <2>1. Worked(t) /\ ~Conflict(t)
    BY <1>2 DEF Merged, Worked
  <2>2. /\ master'.registry = IF head.registry = base.registry THEN master.registry
                              ELSE head.registry
        /\ \A p \in Patterns : master'.debts[p] = IF head.debts[p] = base.debts[p]
                                                  THEN master.debts[p] ELSE head.debts[p]
    BY <1>2 DEF Merged, ATree
  <2>3. head.registry \in Seq(Event) /\ master.registry \in Seq(Event)
    BY <2>1, WorkOf, TreeOf DEF TypeOK
  <2>4. Artifacts(master.registry, master.debts) /\ Artifacts(head.registry, head.debts)
    BY <2>1 DEF ArtifactsAreThere
  <2>5. ASSUME NEW p \in Patterns, head.debts[p].gap # NoGap
        PROVE  master'.debts[p].gap = head.debts[p].gap
    <3>1. CASE head.debts[p] = base.debts[p]
      <4>1. master.debts[p].gap = base.debts[p].gap
        BY <2>1, <2>5, <3>1 DEF ArtifactsAreThere
      <4>2. QED
        BY <2>2, <3>1, <4>1
    <3>2. CASE head.debts[p] # base.debts[p]
      BY <2>2, <3>2
    <3>3. QED
      BY <3>1, <3>2
  <2>6. ASSUME NEW e \in ToSet(master'.registry), IsDebtRuling(e)
        PROVE  \E p \in Patterns : master'.debts[p].gap = e.id
    <3>1. CASE e \in ToSet(master.registry)
      <4>1. PICK p \in Patterns : master.debts[p].gap = e.id
        BY <2>4, <2>6, <3>1, ArtifactsIs
      <4>2. e.id # NoGap
        BY <2>3, <3>1, GapOf
      <4>3. QED
        BY <4>1, <4>2, MasterKeepsGaps
    <3>2. CASE e \in ToSet(head.registry)
      <4>1. PICK p \in Patterns : head.debts[p].gap = e.id
        BY <2>4, <2>6, <3>2, ArtifactsIs
      <4>2. e.id # NoGap
        BY <2>3, <3>2, GapOf
      <4>3. QED
        BY <2>5, <4>1, <4>2
    <3>3. QED
      BY <2>2, <2>6, <3>1, <3>2
  <2>7. QED
    BY <2>6, ArtifactsIs
<1>3. QED
  BY <1>1, <1>2, MasterSteps

\* The part of ArtifactsAreThere that is about one branch.
ArtifactsOf(t) ==
  /\ Artifacts(branch[t].head.registry, branch[t].head.debts)
  /\ Artifacts(branch[t].registry, branch[t].debts)
  /\ \A p \in Patterns : branch[t].base.debts[p].gap # NoGap =>
       \A d \in {master.debts[p], branch[t].head.debts[p], branch[t].debts[p]} :
         d.gap = branch[t].base.debts[p].gap

LEMMA StepKeepsArtifacts ==
  ASSUME TypeOK, TypeOK', RegistriesAreSound, ArtifactsAreThere, TreeStep
  PROVE  ArtifactsAreThere'
<1>1. ASSUME NEW u \in Branches, Worked(u)' PROVE ArtifactsOf(u)'
  <2>1. OwnStep(u)
    BY <1>1, OwnSteps
  <2>2. ASSUME NEW code, NEW files, Begun(u, code, files) PROVE ArtifactsOf(u)'
    <3>1. /\ master' = master
          /\ branch'[u].base = master /\ branch'[u].registry = master.registry
          /\ branch'[u].head.registry = master.registry
          /\ branch'[u].head.debts = master.debts /\ branch'[u].debts = master.debts
      BY <2>2 DEF Begun, Becomes, AWork, ATree
    <3>2. QED
      BY <3>1 DEF ArtifactsAreThere, ArtifactsOf
  <2>3. CASE ~Worked(u)
    BY <1>1, <2>1, <2>2, <2>3, FreshIsForked DEF Forked
  <2>4. CASE Worked(u) /\ ~\E code \in Code, files \in SUBSET Files : Begun(u, code, files)
    <3> DEFINE old == branch[u]
               new == branch'[u]
    <3>1. DebtStep(u)
      BY <2>1, <2>4, DebtSteps
    <3>2. ArtifactsOf(u)
      BY <2>4 DEF ArtifactsAreThere, ArtifactsOf
    <3>3. new.registry \in Seq(Event)
      <4>1. new \in Work
        BY <1>1 DEF TypeOK
      <4>2. QED
        BY <4>1 DEF Work
    <3>4. Artifacts(new.registry, new.debts)
      <4>1. ASSUME NEW e \in ToSet(new.registry), IsDebtRuling(e)
            PROVE  \E p \in Patterns : new.debts[p].gap = e.id
        <5>1. PICK p \in Patterns : old.debts[p].gap = e.id
          BY <3>1, <3>2, <4>1, ArtifactsIs DEF DebtStep, ArtifactsOf
        <5>2. e.id # NoGap
          BY <3>3, GapOf
        <5>3. QED
          BY <3>1, <5>1, <5>2 DEF DebtStep
      <4>2. QED
        BY <4>1, ArtifactsIs
    <3>5. Artifacts(new.head.registry, new.head.debts)
      <4>1. CASE new.head.registry = old.registry /\ new.head.debts = old.debts
        BY <3>2, <4>1 DEF ArtifactsOf
      <4>2. CASE /\ new.head.registry = old.head.registry
                 /\ \A p \in Patterns : new.head.debts[p].gap = old.head.debts[p].gap
        BY <3>2, <4>2, ArtifactsIs DEF ArtifactsOf
      <4>3. QED
        BY <3>1, <4>1, <4>2 DEF DebtStep
    <3>6. ASSUME NEW p \in Patterns, new.base.debts[p].gap # NoGap
          PROVE  /\ master'.debts[p].gap = new.base.debts[p].gap
                 /\ new.head.debts[p].gap = new.base.debts[p].gap
                 /\ new.debts[p].gap = new.base.debts[p].gap
      <4>1. /\ new.base = old.base /\ master.debts[p].gap = old.base.debts[p].gap
            /\ old.head.debts[p].gap = old.base.debts[p].gap
            /\ old.debts[p].gap = old.base.debts[p].gap
        BY <3>1, <3>2, <3>6 DEF DebtStep, ArtifactsOf
      <4>2. master'.debts[p].gap = master.debts[p].gap
        BY <3>6, <4>1, MasterKeepsGaps
      <4>3. new.debts[p].gap = old.debts[p].gap
        BY <3>1, <3>6, <4>1 DEF DebtStep
      <4>4. new.head.debts[p].gap \in {old.head.debts[p].gap, old.debts[p].gap}
        BY <3>1 DEF DebtStep
      <4>5. QED
        BY <4>1, <4>2, <4>3, <4>4
    <3>7. QED
      BY <3>4, <3>5, <3>6 DEF ArtifactsOf
  <2>5. QED
    BY <2>2, <2>3, <2>4
<1>2. QED
  BY <1>1, MasterKeepsArtifacts DEF ArtifactsAreThere, ArtifactsOf
-----------------------------------------------------------------------------
(* What is merged was judged                                               *)

\* The part of VerdictsHold that is about one branch.
VerdictOf(t) ==
  /\ t \in Cards => /\ branch[t].gate = "green" => ~MoreDebt(branch[t].base, branch[t].head)
                    /\ branch[t].st = "pr" => branch[t].gate = "green"
  /\ t = Closing => branch[t].head.code = branch[t].base.code

LEMMA MoreDebtIs ==
  ASSUME NEW base, NEW head
  PROVE  MoreDebt(base, head) <=>
           \E p \in Patterns : /\ head.debts[p].status = "open"
                               /\ Hits(head.code, p) > Hits(base.code, p)
BY DEF MoreDebt, OpenDebts

LEMMA StepKeepsVerdicts ==
  ASSUME TypeOK, RegistriesAreSound, BranchesAppend, VerdictsHold, TreeStep
  PROVE  VerdictsHold'
<1>1. ASSUME NEW u \in Branches, Worked(u)' PROVE VerdictOf(u)'
  <2>1. OwnStep(u)
    BY <1>1, OwnSteps
  <2>2. ASSUME Worked(u) PROVE VerdictOf(u)
    BY <2>2 DEF VerdictsHold, VerdictOf
  <2>3. CASE branch'[u] = branch[u]
    <3>1. Worked(u)
      BY <1>1, <2>3 DEF Worked
    <3>2. QED
      BY <2>2, <2>3, <3>1 DEF VerdictOf, MoreDebt, OpenDebts
  <2>4. CASE Forked(u)
    <3>1. /\ branch'[u].st = "work" /\ branch'[u].gate = "none"
          /\ branch'[u].head.code = master.code /\ branch'[u].base = master
      BY <2>4 DEF Forked, Begun, Becomes, AWork, ATree
    <3>2. QED
      BY <3>1 DEF VerdictOf
  <2>5. CASE u \in Cards /\ (Rebased(u) \/ Edited(u))
    <3>1. \E base, head, registry, debts :
            branch'[u] = AWork("work", base, head, registry, debts, "none")
      BY <2>5 DEF Rebased, Edited, Begun, Becomes
    <3>2. branch'[u].st = "work" /\ branch'[u].gate = "none"
      BY <3>1 DEF AWork
    <3>3. QED
      BY <2>5, <3>2, ClosingIsNoCard DEF VerdictOf
  <2>6. CASE u \in Cards /\ Gated(u)
    <3>1. PICK registry, gate :
            /\ branch'[u] = AWork("work", branch[u].base, branch[u].head, registry,
                                  branch[u].debts, gate)
            /\ gate = "green" => ~MoreDebt(branch[u].base, branch[u].head)
      BY <2>6 DEF Gated, Becomes
    <3>2. /\ branch'[u].st = "work" /\ branch'[u].gate = gate
          /\ branch'[u].base = branch[u].base /\ branch'[u].head = branch[u].head
      BY <3>1 DEF AWork
    <3>3. QED
      BY <2>6, <3>1, <3>2, ClosingIsNoCard DEF VerdictOf, MoreDebt, OpenDebts
  <2>7. ASSUME NEW q \in Patterns, u \in Cards, DebtClosed(u, q) PROVE VerdictOf(u)'
    <3>1. /\ branch'[u].st = "work" /\ branch'[u].gate = branch[u].gate
          /\ branch'[u].base = branch[u].base
          /\ branch'[u].head.code = branch[u].head.code
          /\ branch'[u].head.debts = Shut(branch[u].head.debts, q)
          /\ branch[u].st = "work"
      BY <2>7 DEF DebtClosed, Becomes, AWork, ATree
    <3>2. Worked(u)
      BY <3>1 DEF Worked
    <3>3. branch[u].head.debts \in [Patterns -> Debt]
      BY <3>2, WorkOf, TreeOf
    <3>4. ASSUME NEW p \in Patterns, branch'[u].head.debts[p].status = "open"
          PROVE  branch[u].head.debts[p].status = "open"
      <4> PICK d : d = branch[u].head.debts
        OBVIOUS
      <4>1. Shut(d, q)[p].status = "open" => d[p].status = "open"
        BY <3>3 DEF Shut
      <4>2. QED
        BY <3>1, <3>4, <4>1
    <3>5. MoreDebt(branch'[u].base, branch'[u].head) => MoreDebt(branch[u].base, branch[u].head)
      BY <3>1, <3>4 DEF MoreDebt, OpenDebts
    <3>6. QED
      BY <2>2, <2>7, <3>1, <3>2, <3>5, ClosingIsNoCard DEF VerdictOf
  <2>8. CASE PrOpened(u)
    <3>1. /\ branch'[u].st = "pr" /\ branch'[u].gate = branch[u].gate
          /\ branch'[u].base = branch[u].base
          /\ branch'[u].head.code = branch[u].head.code
          /\ branch'[u].head.debts = branch[u].debts
          /\ branch[u].st = "work" /\ (u \in Cards => branch[u].gate = "green")
      BY <2>8 DEF PrOpened, Becomes, AWork, ATree
    <3>2. Worked(u)
      BY <3>1 DEF Worked
    <3>3. u \in Cards => branch[u].head.debts = branch[u].debts
      BY <3>2, ClosingIsNoCard DEF BranchesAppend
    <3>4. QED
      BY <2>2, <3>1, <3>2, <3>3, ClosingIsNoCard DEF VerdictOf, MoreDebt, OpenDebts
  <2>9. ASSUME NEW id, u = Closing,
               \/ GapRuled(id, "dismissed") \/ GapRuled(id, "debt")
               \/ \E p \in Patterns : EntityMade(id, p)
        PROVE  VerdictOf(u)'
    <3>1. /\ branch[u].st = "work"
          /\ \E registry, debts, gate :
               branch'[u] = AWork("work", branch[u].base, branch[u].head, registry, debts, gate)
      BY <2>9 DEF GapRuled, EntityMade, Becomes
    <3>2. Worked(u) /\ branch'[u].base = branch[u].base /\ branch'[u].head = branch[u].head
      BY <3>1 DEF Worked, AWork
    <3>3. QED
      BY <2>2, <2>9, <3>2, ClosingIsNoCard DEF VerdictOf
  <2>10. QED
    BY <2>1, <2>3, <2>4, <2>5, <2>6, <2>7, <2>8, <2>9 DEF OwnStep
<1>2. QED
  BY <1>1, ClosingIsNoCard DEF VerdictsHold, VerdictOf

\* A merge gives the default branch more hits of what it is not guarded against, or of
\* what both sides removed a hit of, only.
LEMMA MasterGrows ==
  ASSUME TypeOK, VerdictsHold, TreeStep, NEW p \in Patterns,
         Hits(master'.code, p) > Hits(master.code, p)
  PROVE  p \in history'.unguarded \cup history'.removed
<1>1. master' # master
  <2>1. Hits(master.code, p) \in Nat
    BY TreeOf, HitsIsNat DEF TypeOK
  <2>2. QED
    BY <2>1
<1>2. PICK t \in Branches : Merged(t)
  BY <1>1, MasterSteps
<1> DEFINE base == branch[t].base
           head == branch[t].head
<1>3. Worked(t) /\ branch[t].st = "pr"
  BY <1>2 DEF Merged, Worked
<1>4. base.code \in Code /\ head.code \in Code /\ master.code \in Code /\ MergedCode(t) \in Code
  BY <1>3, WorkOf, TreeOf, MergedCodeIs DEF TypeOK
<1>5. /\ master'.code = MergedCode(t)
      /\ Hits(head.code, p) > Hits(base.code, p) /\ head.debts[p].status # "open"
           => p \in history'.unguarded
      /\ \A h \in base.code \ (head.code \cup master.code) : h[1] \in history'.removed
  <2>1. /\ history'.unguarded = history.unguarded \cup
             {q \in Patterns : /\ Hits(head.code, q) > Hits(base.code, q)
                               /\ head.debts[q].status # "open"}
        /\ history'.removed = history.removed \cup
             {h[1] : h \in base.code \ (head.code \cup master.code)}
    BY <1>2 DEF Merged, TypeOK
  <2>2. QED
    BY <1>2, <2>1 DEF Merged, ATree
<1>6. CASE \E h \in base.code \ head.code : h[1] = p /\ h \notin master.code
  BY <1>5, <1>6
<1>7. CASE \A h \in base.code \ head.code : h[1] = p => h \in master.code
  <2>1. Hits(head.code, p) > Hits(base.code, p)
    <3> PICK b, h, m, n : b = base.code /\ h = head.code /\ m = master.code /\ n = master'.code
      OBVIOUS
    <3>1. /\ b \in Code /\ h \in Code /\ m \in Code /\ n \in Code
          /\ n \subseteq (m \ (b \ h)) \cup (h \ b)
      BY <1>4, <1>5 DEF MergedCode
    <3>2. \A g \in b \ h : g[1] = p => g \in m
      BY <1>7
    <3>3. Hits(n, p) > Hits(m, p)
      OBVIOUS
    <3>4. GrowthIsOfBranch(b, h, m, n, p)
      BY <3>1, <3>2, MergeGrows
    <3>5. QED
      BY <3>3, <3>4 DEF GrowthIsOfBranch
  <2>2. head.debts[p].status # "open"
    <3>1. CASE t = Closing
      <4>1. head.code = base.code
        BY <1>3, <3>1 DEF VerdictsHold
      <4>2. Hits(base.code, p) \in Nat
        BY <1>4, HitsIsNat
      <4>3. QED
        BY <2>1, <4>1, <4>2
    <3>2. CASE t \in Cards
      BY <1>3, <2>1, <3>2, MoreDebtIs DEF VerdictsHold
    <3>3. QED
      BY <3>1, <3>2, ClosingIsNoCard
  <2>3. QED
    BY <1>5, <2>1, <2>2
<1>8. QED
  BY <1>6, <1>7

\* What was merged unguarded, or removed on both sides, stays known.
LEMMA UnguardedGrows ==
  ASSUME TypeOK, TreeStep
  PROVE  history.unguarded \subseteq history'.unguarded /\ history.removed \subseteq history'.removed
<1>1. ASSUME NEW c \in Cards
      PROVE  /\ Reworked(c).unguarded = history.unguarded
             /\ Reworked(c).removed = history.removed
  BY DEF Reworked, TypeOK
<1>2. ASSUME NEW t \in Branches, Merged(t)
      PROVE  /\ history.unguarded \subseteq history'.unguarded
             /\ history.removed \subseteq history'.removed
  BY <1>2 DEF Merged, TypeOK
<1>3. QED
  BY <1>1, <1>2 DEF TreeStep, Quiet, Abandoned, Forked, PrOpened, Tracked, Edited, Gated, Rebased,
     DebtClosed, GapRuled, EntityMade

\* The part of GrowthIsUnguarded that is about one branch.
GrowthOf(t) ==
  \A p \in Patterns :
    /\ Hits(master.code, p) > Hits(branch[t].base.code, p) =>
         p \in history.unguarded \cup history.removed
    /\ \A d \in {branch[t].head.debts[p], branch[t].debts[p]} : d.status = "open" =>
         d = branch[t].base.debts[p] \/ d.baseline = Hits(branch[t].base.code, p)

LEMMA StepKeepsGrowth ==
  ASSUME TypeOK, TypeOK', RegistriesAreSound, VerdictsHold, GrowthIsUnguarded, TreeStep
  PROVE  GrowthIsUnguarded'
<1>1. ASSUME NEW u \in Branches, Worked(u)' PROVE GrowthOf(u)'
  <2>1. OwnStep(u)
    BY <1>1, OwnSteps
  <2>2. ASSUME NEW code, NEW files, Begun(u, code, files) PROVE GrowthOf(u)'
    <3>1. /\ master' = master /\ branch'[u].base = master
          /\ branch'[u].head.debts = master.debts /\ branch'[u].debts = master.debts
      BY <2>2 DEF Begun, Becomes, AWork, ATree
    <3>2. ASSUME NEW p \in Patterns PROVE Hits(master.code, p) \in Nat
      BY TreeOf, HitsIsNat DEF TypeOK
    <3>3. ASSUME NEW p \in Patterns
          PROVE  ~(Hits(master'.code, p) > Hits(branch'[u].base.code, p))
      BY <3>1, <3>2
    <3>4. QED
      BY <3>1, <3>3 DEF GrowthOf
  <2>3. CASE ~Worked(u)
    BY <1>1, <2>1, <2>2, <2>3, FreshIsForked DEF Forked
  <2>4. CASE Worked(u) /\ ~\E code \in Code, files \in SUBSET Files : Begun(u, code, files)
    <3>1. DebtStep(u)
      BY <2>1, <2>4, DebtSteps
    <3>2. GrowthOf(u)
      BY <2>4 DEF GrowthIsUnguarded, GrowthOf
    <3> DEFINE old == branch[u]
               new == branch'[u]
    <3>3. new.base = old.base
      BY <3>1 DEF DebtStep
    <3>4. ASSUME NEW p \in Patterns, Hits(master'.code, p) > Hits(new.base.code, p)
          PROVE  p \in history'.unguarded \cup history'.removed
      <4>1. CASE Hits(master'.code, p) > Hits(master.code, p)
        BY <4>1, MasterGrows
      <4>2. CASE ~(Hits(master'.code, p) > Hits(master.code, p))
        <5>1. /\ Hits(master.code, p) \in Nat /\ Hits(master'.code, p) \in Nat
              /\ Hits(old.base.code, p) \in Nat
          <6>1. master \in Tree /\ master' \in Tree /\ old.base \in Tree
            BY <2>4, WorkOf DEF TypeOK
          <6>2. QED
            BY <6>1, TreeOf, HitsIsNat
        <5>2. Hits(master.code, p) > Hits(old.base.code, p)
          BY <3>3, <3>4, <4>2, <5>1
        <5>3. QED
          BY <3>2, <5>2, UnguardedGrows DEF GrowthOf
      <4>3. QED
        BY <4>1, <4>2
    <3>5. ASSUME NEW p \in Patterns, NEW d \in {old.head.debts[p], old.debts[p]}, d.status = "open"
          PROVE  d = new.base.debts[p] \/ d.baseline = Hits(new.base.code, p)
      BY <3>2, <3>3, <3>5 DEF GrowthOf
    <3>6. ASSUME NEW p \in Patterns, new.debts[p].status = "open"
          PROVE  new.debts[p] = new.base.debts[p] \/ new.debts[p].baseline = Hits(new.base.code, p)
      <4>1. CASE new.debts[p] = old.debts[p]
        BY <3>5, <3>6, <4>1
      <4>2. CASE u = Closing /\ new.debts[p].baseline = Hits(old.head.code, p)
        BY <2>4, <3>3, <4>2 DEF VerdictsHold
      <4>3. QED
        BY <3>1, <3>6, <4>1, <4>2 DEF DebtStep
    <3>7. ASSUME NEW p \in Patterns, new.head.debts[p].status = "open"
          PROVE  \/ new.head.debts[p] = new.base.debts[p]
                 \/ new.head.debts[p].baseline = Hits(new.base.code, p)
      <4>1. new.head.debts[p] \in {old.head.debts[p], old.debts[p]}
        BY <3>1, <3>7 DEF DebtStep
      <4>2. QED
        BY <3>5, <3>7, <4>1
    <3>8. QED
      BY <3>4, <3>6, <3>7 DEF GrowthOf
  <2>5. QED
    BY <2>2, <2>3, <2>4
<1>2. QED
  BY <1>1 DEF GrowthIsUnguarded, GrowthOf

LEMMA StepKeepsLeaks ==
  ASSUME TypeOK, TypeOK', VerdictsHold, GrowthIsUnguarded, LeaksAreUnguarded, TreeStep
  PROVE  LeaksAreUnguarded'
<1>1. ASSUME NEW p \in Patterns, master'.debts[p].status = "open",
             Hits(master'.code, p) > master'.debts[p].baseline
      PROVE  p \in history'.unguarded \cup history'.removed
  <2>1. CASE master' = master
    BY <1>1, <2>1, UnguardedGrows DEF LeaksAreUnguarded
  <2>2. CASE Hits(master'.code, p) > Hits(master.code, p)
    BY <2>2, MasterGrows
  <2>3. ASSUME NEW t \in Branches, Merged(t), ~(Hits(master'.code, p) > Hits(master.code, p))
        PROVE  p \in history'.unguarded \cup history'.removed
    <3> DEFINE base == branch[t].base
               head == branch[t].head
    <3>1. Worked(t) /\ ~Conflict(t)
      BY <2>3 DEF Merged, Worked
    <3>2. master'.debts[p] = IF head.debts[p] = base.debts[p] THEN master.debts[p]
                             ELSE head.debts[p]
      BY <2>3 DEF Merged, ATree
    <3>3. /\ Hits(master.code, p) \in Nat /\ Hits(master'.code, p) \in Nat
          /\ master'.debts[p].baseline \in Nat
      <4>1. master \in Tree /\ master' \in Tree
        BY DEF TypeOK
      <4>2. master'.debts[p] \in Debt
        BY <4>1, TreeOf
      <4>3. QED
        BY <4>1, <4>2, TreeOf, HitsIsNat DEF Debt
    <3>4. Hits(master.code, p) > master'.debts[p].baseline
      BY <1>1, <2>3, <3>3
    <3>5. CASE head.debts[p] = base.debts[p]
      BY <1>1, <3>2, <3>4, <3>5, UnguardedGrows DEF LeaksAreUnguarded
    <3>6. CASE head.debts[p] # base.debts[p]
      <4>1. master'.debts[p].baseline = Hits(base.code, p)
        BY <1>1, <3>1, <3>2, <3>6 DEF GrowthIsUnguarded
      <4>2. QED
        BY <3>1, <3>4, <4>1, UnguardedGrows DEF GrowthIsUnguarded
    <3>7. QED
      BY <3>5, <3>6
  <2>4. QED
    BY <2>1, <2>2, <2>3, MasterSteps
<1>2. QED
  BY <1>1 DEF LeaksAreUnguarded

\* The part of HitsAreInPaths that is about one tree.
InPaths(code, files) == \A h \in code : h[2] \in Paths[h[1]] \cap files

LEMMA StepKeepsPaths ==
  ASSUME TypeOK, RegistriesAreSound, HitsAreInPaths, TreeStep
  PROVE  HitsAreInPaths'
<1>1. /\ InPaths(master.code, master.files)
      /\ \A t \in Branches : Worked(t) => InPaths(branch[t].head.code, branch[t].head.files)
  BY DEF HitsAreInPaths, InPaths
<1>2. ASSUME NEW t \in Branches, Worked(t) PROVE InPaths(MergedCode(t), MergedFiles(t))
  BY <1>1, <1>2 DEF MergedCode, InPaths
<1>3. InPaths(master'.code, master'.files)
  <2>1. ASSUME NEW t \in Branches, Merged(t) PROVE InPaths(master'.code, master'.files)
    <3>1. Worked(t) /\ master'.code = MergedCode(t) /\ master'.files = MergedFiles(t)
      BY <2>1 DEF Merged, Worked, ATree
    <3>2. QED
      BY <1>2, <3>1
  <2>2. QED
    BY <1>1, <2>1, MasterSteps
<1>4. ASSUME NEW u \in Branches, Worked(u)' PROVE InPaths(branch'[u].head.code, branch'[u].head.files)
  <2>1. OwnStep(u)
    BY <1>4, OwnSteps
  <2>2. ASSUME NEW code, NEW files, Begun(u, code, files)
        PROVE  branch'[u].head.code = code /\ branch'[u].head.files = files
    BY <2>2 DEF Begun, Becomes, AWork, ATree
  <2>3. CASE Forked(u)
    <3>1. branch'[u].head.code = master.code /\ branch'[u].head.files = master.files
      BY <2>2, <2>3 DEF Forked
    <3>2. QED
      BY <1>1, <3>1
  <2>4. CASE Rebased(u)
    <3>1. /\ branch'[u].head.code = MergedCode(u) /\ branch'[u].head.files = MergedFiles(u)
          /\ Worked(u)
      BY <2>2, <2>4 DEF Rebased, Worked
    <3>2. QED
      BY <1>2, <3>1
  <2>5. CASE Edited(u)
    <3>1. PICK code, files : /\ \A h \in code : h[2] \in Paths[h[1]] \cap files
                             /\ branch'[u].head.code = code /\ branch'[u].head.files = files
      BY <2>5 DEF Edited, Becomes, AWork, ATree
    <3>2. QED
      BY <3>1 DEF InPaths
  <2>6. CASE /\ Worked(u) /\ branch'[u].head.code = branch[u].head.code
             /\ branch'[u].head.files = branch[u].head.files
    BY <1>1, <2>6
  <2>7. CASE branch'[u] = branch[u]
    BY <1>4, <2>6, <2>7 DEF Worked
  <2>8. ASSUME branch[u].st = "work", NEW st, NEW registry, NEW debts, NEW r, NEW d, NEW gate,
               branch'[u] = AWork(st, branch[u].base, ATree(r, branch[u].head.code, branch[u].head.files, d),
                                  registry, debts, gate)
        PROVE  InPaths(branch'[u].head.code, branch'[u].head.files)
    BY <2>6, <2>8 DEF AWork, ATree, Worked
  <2>9. ASSUME branch[u].st = "work", NEW st, NEW registry, NEW debts, NEW gate,
               branch'[u] = AWork(st, branch[u].base, branch[u].head, registry, debts, gate)
        PROVE  InPaths(branch'[u].head.code, branch'[u].head.files)
    BY <2>6, <2>9 DEF AWork, Worked
  <2>10. CASE Gated(u)
    BY <2>9, <2>10 DEF Gated, Becomes
  <2>11. CASE PrOpened(u) \/ \E p \in Patterns : DebtClosed(u, p)
    BY <2>8, <2>11 DEF PrOpened, DebtClosed, Becomes
  <2>12. ASSUME u = Closing, \E id : \/ GapRuled(id, "dismissed") \/ GapRuled(id, "debt")
                                    \/ \E p \in Patterns : EntityMade(id, p)
         PROVE  InPaths(branch'[u].head.code, branch'[u].head.files)
    BY <2>9, <2>12, ZenonT(60) DEF GapRuled, EntityMade, Becomes
  <2>13. QED
    BY <2>1, <2>3, <2>4, <2>5, <2>7, <2>10, <2>11, <2>12 DEF OwnStep
<1>5. QED
  BY <1>3, <1>4 DEF HitsAreInPaths, InPaths, Worked
-----------------------------------------------------------------------------
(* What the closing pass is shown                                          *)

\* What a step is to a card.
CardStep(c) ==
  \/ branch'[c] = branch[c] /\ reports'[c] = reports[c] /\ openIds'[c] = openIds[c]
  \/ Tracked(c) \/ Edited(c) \/ Rebased(c) \/ Gated(c) \/ Forked(c) \/ PrOpened(c) \/ Merged(c)
  \/ \E p \in Patterns : DebtClosed(c, p)

LEMMA CardSteps ==
  ASSUME TypeOK, TreeStep, NEW c \in Cards
  PROVE  CardStep(c)
<1>1. c \in Branches /\ c # Closing
  BY ClosingIsNoCard
<1>2. CASE Quiet
  BY <1>2 DEF Quiet, CardStep
<1>3. CASE Abandoned
  BY <1>1, <1>3 DEF Abandoned, Ended, Becomes, CardStep
<1>4. ASSUME NEW t \in Branches, Forked(t) \/ PrOpened(t) \/ Merged(t) PROVE CardStep(c)
  <2>1. CASE t = c
    BY <1>4, <2>1 DEF CardStep
  <2>2. CASE t # c
    <3>1. \E w : Becomes(t, w)
      BY <1>4 DEF Forked, Begun, PrOpened, Merged, Ended
    <3>2. reports' = reports /\ openIds' = openIds
      BY <1>4 DEF Forked, Begun, PrOpened, Merged
    <3>3. QED
      BY <1>1, <2>2, <3>1, <3>2 DEF Becomes, CardStep
  <2>3. QED
    BY <2>1, <2>2
<1>5. ASSUME NEW d \in Cards, Tracked(d) PROVE CardStep(c)
  BY <1>5 DEF Tracked, CardStep
<1>6. ASSUME NEW d \in Cards, \/ Edited(d) \/ Gated(d) \/ Rebased(d)
                              \/ \E p \in Patterns : DebtClosed(d, p)
      PROVE  CardStep(c)
  <2>1. CASE d = c
    BY <1>6, <2>1 DEF CardStep
  <2>2. CASE d # c
    <3>1. \E w : Becomes(d, w)
      BY <1>6 DEF Edited, Gated, Rebased, Begun, DebtClosed
    <3>2. reports' = reports
      BY <1>6 DEF Edited, Gated, Rebased, Begun, DebtClosed
    <3>3. openIds'[c] = openIds[c]
      <4>1. CASE Gated(d)
        <5>1. \E ids : openIds' = openIds \/ openIds' = [openIds EXCEPT ![d] = ids]
          BY <4>1 DEF Gated
        <5>2. QED
          BY <2>2, <5>1 DEF TypeOK
      <4>2. CASE ~Gated(d)
        BY <1>6, <4>2 DEF Edited, Rebased, Begun, DebtClosed
      <4>3. QED
        BY <4>1, <4>2
    <3>4. QED
      BY <1>1, <2>2, <3>1, <3>2, <3>3 DEF Becomes, CardStep
  <2>3. QED
    BY <2>1, <2>2
<1>7. ASSUME NEW id, \/ GapRuled(id, "dismissed") \/ GapRuled(id, "debt")
                     \/ \E p \in Patterns : EntityMade(id, p)
      PROVE  CardStep(c)
  <2>1. (\E w : Becomes(Closing, w)) /\ reports' = reports /\ openIds' = openIds
    BY <1>7 DEF GapRuled, EntityMade
  <2>2. QED
    BY <1>1, <2>1 DEF Becomes, CardStep
<1>8. QED
  BY <1>2, <1>3, <1>4, <1>5, <1>6, <1>7 DEF TreeStep

\* A card that was reworked, or a gate of which had a grep fail, stays one, and one that
\* is edited or rebased after a finding is one.
LEMMA ReworkedGrows ==
  ASSUME TypeOK, TreeStep
  PROVE  /\ history.reworked \subseteq history'.reworked
         /\ history.missed \subseteq history'.missed
         /\ \A c \in Cards : (Edited(c) \/ Rebased(c)) /\ reports[c].found # <<>> =>
              c \in history'.reworked
<1>1. ASSUME NEW c \in Cards
      PROVE  /\ history.reworked \subseteq Reworked(c).reworked
             /\ history.missed = Reworked(c).missed
             /\ reports[c].found # <<>> => c \in Reworked(c).reworked
  BY DEF Reworked, TypeOK
<1>2. ASSUME NEW t \in Branches, Merged(t)
      PROVE  /\ history.reworked \subseteq history'.reworked
             /\ history.missed \subseteq history'.missed
  BY <1>2 DEF Merged, TypeOK
<1>3. /\ history.reworked \subseteq history'.reworked
      /\ history.missed \subseteq history'.missed
  BY <1>1, <1>2 DEF TreeStep, Quiet, Abandoned, Forked, PrOpened, Tracked, Edited, Gated, Rebased,
     DebtClosed, GapRuled, EntityMade
<1>4. QED
  BY <1>1, <1>3 DEF Edited, Rebased

\* A step of a branch that leaves its base, and the code of its head, alone.
SameCode(c) ==
  /\ branch'[c].base = branch[c].base
  /\ branch'[c].head.code = branch[c].head.code /\ branch'[c].head.files = branch[c].head.files

LEMMA FiresAgain ==
  ASSUME NEW c, NEW p, SameCode(c)
  PROVE  Fires(c, p)' <=> Fires(c, p)
BY DEF SameCode, Fires, Touched, Changed

LEMMA SameCodeSteps ==
  ASSUME NEW c, \/ branch'[c] = branch[c] \/ Tracked(c) \/ Gated(c) \/ PrOpened(c)
                \/ \E p \in Patterns : DebtClosed(c, p)
  PROVE  SameCode(c)
<1>1. CASE branch'[c] = branch[c] \/ Tracked(c)
  BY <1>1 DEF Tracked, SameCode
<1>2. CASE Gated(c)
  <2>1. \E registry, gate : branch'[c] = AWork("work", branch[c].base, branch[c].head, registry,
                                               branch[c].debts, gate)
    BY <1>2 DEF Gated, Becomes
  <2>2. QED
    BY <2>1 DEF AWork, SameCode
<1>3. CASE PrOpened(c) \/ \E p \in Patterns : DebtClosed(c, p)
  <2>1. \E st, r, d, registry, debts, gate :
          branch'[c] = AWork(st, branch[c].base, ATree(r, branch[c].head.code, branch[c].head.files, d),
                             registry, debts, gate)
    BY <1>3 DEF PrOpened, DebtClosed, Becomes
  <2>2. QED
    BY <2>1 DEF AWork, ATree, SameCode
<1>4. QED
  BY <1>1, <1>2, <1>3

LEMMA StepKeepsFresh ==
  ASSUME TypeOK, HitsAreInPaths, ReportsAreFresh, TreeStep
  PROVE  ReportsAreFresh'
<1> SUFFICES ASSUME NEW c \in Cards
             PROVE  /\ branch'[c].st = "none" => reports'[c].found = <<>>
                    /\ Worked(c)' /\ c \notin history'.reworked =>
                         \A p \in ToSet(reports'[c].found) : Fires(c, p)'
  BY DEF ReportsAreFresh
<1>1. CardStep(c) /\ c \in Branches /\ c # Closing
  BY CardSteps, ClosingIsNoCard
<1>2. ASSUME branch'[c].st = "none" PROVE reports'[c].found = <<>>
  <2>1. CASE branch'[c] = branch[c] /\ reports'[c] = reports[c]
    BY <1>2, <2>1 DEF ReportsAreFresh
  <2>2. ASSUME Tracked(c) PROVE FALSE
    BY <1>2, <2>2 DEF Tracked
  <2>3. ASSUME NEW p \in Patterns, \/ Edited(c) \/ Rebased(c) \/ Gated(c) \/ Forked(c)
                                   \/ PrOpened(c) \/ DebtClosed(c, p)
        PROVE  FALSE
    <3>1. \E st \in {"work", "pr"} : \E base, head, registry, debts, gate :
            branch'[c] = AWork(st, base, head, registry, debts, gate)
      BY <2>3 DEF Edited, Rebased, Gated, Forked, Begun, PrOpened, DebtClosed, Becomes
    <3>2. QED
      BY <1>2, <3>1 DEF AWork
  <2>4. ASSUME Merged(c) PROVE FALSE
    BY <1>1, <1>2, <2>4 DEF Merged, Ended, Becomes, NoBranch
  <2>5. Patterns # {}
    BY RegistryAssumption
  <2>6. QED
    BY <1>1, <2>1, <2>2, <2>3, <2>4, <2>5 DEF CardStep
<1>3. ASSUME Worked(c)', c \notin history'.reworked, NEW p \in ToSet(reports'[c].found)
      PROVE  Fires(c, p)'
  <2>1. c \notin history.reworked
    BY <1>3, ReworkedGrows
  <2>2. ASSUME Worked(c), p \in ToSet(reports[c].found), SameCode(c) PROVE Fires(c, p)'
    BY <2>1, <2>2, FiresAgain DEF ReportsAreFresh
  <2>3. CASE branch'[c] = branch[c] /\ reports'[c] = reports[c]
    <3>1. Worked(c)
      BY <1>3, <2>3 DEF Worked
    <3>2. QED
      BY <1>3, <2>2, <2>3, <3>1, SameCodeSteps
  <2>4. CASE Tracked(c)
    <3>1. Worked(c) /\ SameCode(c)
      BY <2>4, SameCodeSteps DEF Tracked, Worked
    <3>2. CASE p \in ToSet(reports[c].found)
      BY <2>2, <3>1, <3>2
    <3>3. ASSUME NEW f \in Touched(c), <<p, f>> \in branch[c].head.code PROVE Fires(c, p)'
      <4>1. f \in Paths[p]
        BY <1>1, <3>1, <3>3 DEF HitsAreInPaths
      <4>2. Fires(c, p)
        BY <3>3, <4>1 DEF Fires
      <4>3. QED
        BY <3>1, <4>2, FiresAgain
    <3>4. QED
      BY <1>3, <2>4, <3>2, <3>3 DEF Tracked
  <2>5. CASE Edited(c) \/ Rebased(c)
    <3>1. reports'[c].found = <<>>
      BY <1>3, <2>5, ReworkedGrows DEF Edited, Rebased, Begun
    <3>2. QED
      BY <1>3, <3>1 DEF ToSet
  <2>6. CASE Forked(c)
    <3>1. reports'[c].found = <<>>
      BY <2>6 DEF Forked, Begun, ReportsAreFresh
    <3>2. QED
      BY <1>3, <3>1 DEF ToSet
  <2>7. CASE Gated(c) \/ PrOpened(c) \/ \E q \in Patterns : DebtClosed(c, q)
    <3>1. Worked(c) /\ SameCode(c)
      BY <2>7, SameCodeSteps DEF Gated, PrOpened, DebtClosed, Worked
    <3>2. reports'[c] = reports[c]
      BY <2>7 DEF Gated, PrOpened, DebtClosed
    <3>3. QED
      BY <1>3, <2>2, <3>1, <3>2
  <2>8. ASSUME Merged(c) PROVE FALSE
    BY <1>1, <1>3, <2>8 DEF Merged, Ended, Becomes, NoBranch, Worked
  <2>9. QED
    BY <1>1, <2>3, <2>4, <2>5, <2>6, <2>7, <2>8 DEF CardStep
<1>4. QED
  BY <1>2, <1>3

\* Event i of a card's registry opened a gap that is found again, and listed once judged.
GapIsListed(c, i) ==
  /\ reports[c].found # <<>> /\ Fires(c, branch[c].registry[i].what)
  /\ branch[c].gate = "none" \/ branch[c].registry[i].id \in openIds[c]

\* The events of a card's registry that opened a gap.
NewGap(c, i) ==
  /\ i \in DOMAIN branch[c].registry /\ i > Len(branch[c].base.registry)
  /\ branch[c].registry[i].event = "opened"

\* A gate lists what it finds again, and that is all that fires and is open: nothing
\* on a card's branch is ruled, and no grep of it failed; and it lists what it opens.
LEMMA GateLists ==
  ASSUME TypeOK, RegistriesAreSound, BranchesAppend, ReportsAreFresh, NewGapsAreListed,
         NEW c \in Cards, c \notin history.reworked \cup history.missed, c \notin history'.missed,
         Gated(c), NEW i, NewGap(c, i)'
  PROVE  GapIsListed(c, i)'
<1> DEFINE r == branch[c].registry
           s == branch'[c].registry
           base == branch[c].base.registry
<1>1. c \in Branches /\ c # Closing /\ Worked(c) /\ branch[c].st = "work"
  BY ClosingIsNoCard DEF Gated, Worked
<1>2. r \in Seq(Event) /\ Sound(r) /\ base \in Seq(Event)
  BY <1>1, WorkOf, TreeOf DEF RegistriesAreSound
<1>3. reports[c].found \in Seq(Patterns)
  <2>1. reports[c] \in [rounds : Nat, found : Seq(Patterns)]
    BY DEF TypeOK
  <2>2. QED
    BY <2>1
<1>4. PICK app, fires, news, gate, failing :
        /\ fires \in Nat /\ news \in Nat
        /\ Appends(r, reports[c].found, app, fires, news)
        /\ Becomes(c, AWork("work", branch[c].base, branch[c].head, r \o app,
                            branch[c].debts, gate))
        /\ openIds' = IF gate = "none" THEN openIds
                      ELSE [openIds EXCEPT ![c] =
                        {r[k].id : k \in Again(r, branch[c].head.code, Touched(c), failing)}
                        \cup (mintNextId(r) .. mintNextId(r) + news - 1)]
        /\ \A e \in InScope(c) : e.what \notin failing
  BY DEF Gated
<1>5. Grown(r, reports[c].found, r \o app, news)
  BY <1>2, <1>3, <1>4, GateAppendIsSound
<1>6. s = r \o app /\ branch'[c].gate = gate /\ branch'[c].base = branch[c].base
  BY <1>4 DEF Becomes, AWork
<1>7. reports' = reports /\ SameCode(c)
  BY SameCodeSteps DEF Gated
<1>8. gate # "none" =>
        openIds'[c] = {r[k].id : k \in Again(r, branch[c].head.code, Touched(c), failing)}
                        \cup (mintNextId(r) .. mintNextId(r) + news - 1)
  BY <1>4 DEF TypeOK
<1>9. /\ Len(r) \in Nat /\ Len(s) \in Nat /\ Len(base) \in Nat
      /\ DOMAIN r = 1 .. Len(r) /\ DOMAIN s = 1 .. Len(s)
      /\ \A k \in 1 .. Len(r) : s[k] = r[k]
      /\ \A k \in 1 .. Len(s) : k > Len(r) /\ s[k].event = "opened" =>
           /\ s[k].id \in mintNextId(r) .. mintNextId(r) + news - 1
           /\ \E j \in 1 .. Len(reports[c].found) : s[k].what = reports[c].found[j]
  <2> PICK found, old, new : found = reports[c].found /\ old = r /\ new = s
    OBVIOUS
  <2>1. Grown(old, found, new, news) /\ old \in Seq(Event)
    BY <1>2, <1>5, <1>6
  <2>2. /\ Len(old) \in Nat /\ Len(new) \in Nat
        /\ DOMAIN old = 1 .. Len(old) /\ DOMAIN new = 1 .. Len(new)
        /\ \A k \in 1 .. Len(old) : new[k] = old[k]
    BY <2>1 DEF Grown
  <2>3. \A k \in 1 .. Len(new) : k > Len(old) /\ new[k].event = "opened" =>
           /\ new[k].id \in mintNextId(old) .. mintNextId(old) + news - 1
           /\ \E j \in 1 .. Len(found) : new[k].what = found[j]
    BY <2>1 DEF Grown
  <2>4. Len(base) \in Nat
    BY <1>2
  <2>5. QED
    BY <2>2, <2>3, <2>4
<1>10. i \in 1 .. Len(s) /\ i > Len(base) /\ s[i].event = "opened"
  BY <1>6, <1>9 DEF NewGap
<1>11. CASE i <= Len(r)
  <2>1. i \in 1 .. Len(r) /\ s[i] = r[i] /\ i \in DOMAIN r
    BY <1>9, <1>10, <1>11
  <2>2. reports[c].found # <<>> /\ Fires(c, r[i].what)
    BY <1>1, <1>10, <2>1 DEF NewGapsAreListed
  <2>3. IsOpen(r, r[i].id)
    <3>1. ASSUME NEW j \in 1 .. Len(r), r[j].id = r[i].id, r[j].event = "ruled" PROVE FALSE
      <4>1. i <= j
        BY <1>2, <1>9, <2>1, <3>1 DEF Sound
      <4>2. j > Len(base)
        BY <1>9, <1>10, <4>1
      <4>3. QED
        BY <1>1, <1>9, <3>1, <4>2 DEF BranchesAppend
    <3>2. QED
      BY <1>2, <2>1, <3>1, OpenIs
  <2>4. r[i].what \notin failing
    <3>1. r[i] \in InScope(c)
      BY <1>10, <2>1, <2>2, <2>3 DEF InScope, Fires, ToSet
    <3>2. QED
      BY <1>4, <3>1
  <2>5. i \in Again(r, branch[c].head.code, Touched(c), failing)
    BY <1>10, <2>1, <2>2, <2>3, <2>4 DEF Again, Fires
  <2>6. Fires(c, branch[c].registry[i].what)'
    <3> PICK q : q = r[i].what
      OBVIOUS
    <3>1. Fires(c, q)'
      BY <1>7, <2>2, FiresAgain
    <3>2. QED
      BY <1>6, <2>1, <3>1
  <2>7. branch'[c].gate = "none" \/ s[i].id \in openIds'[c]
    BY <1>6, <1>8, <2>1, <2>5
  <2>8. QED
    BY <1>7, <2>2, <2>6, <2>7 DEF GapIsListed
<1>12. CASE ~(i <= Len(r))
  <2>1. /\ s[i].id \in mintNextId(r) .. mintNextId(r) + news - 1
        /\ \E j \in 1 .. Len(reports[c].found) : s[i].what = reports[c].found[j]
    BY <1>9, <1>10, <1>12
  <2>2. PICK j \in 1 .. Len(reports[c].found) : s[i].what = reports[c].found[j]
    BY <2>1
  <2>3. s[i].what \in ToSet(reports[c].found) /\ reports[c].found # <<>>
    BY <1>3, <2>2 DEF ToSet
  <2>4. Fires(c, s[i].what)
    BY <1>1, <2>3 DEF ReportsAreFresh
  <2>5. Fires(c, branch[c].registry[i].what)'
    <3> PICK q : q = s[i].what
      OBVIOUS
    <3>1. Fires(c, q)
      BY <2>4
    <3>2. Fires(c, q)'
      BY <1>7, <3>1, FiresAgain
    <3>3. QED
      BY <3>2
  <2>6. branch'[c].gate = "none" \/ s[i].id \in openIds'[c]
    BY <1>6, <1>8, <2>1
  <2>7. QED
    BY <1>7, <2>3, <2>5, <2>6 DEF GapIsListed
<1>13. QED
  BY <1>11, <1>12

LEMMA StepKeepsNewGaps ==
  ASSUME TypeOK, RegistriesAreSound, BranchesAppend, ReportsAreFresh, NewGapsAreListed, TreeStep
  PROVE  NewGapsAreListed'
<1> SUFFICES ASSUME NEW c \in Cards, Worked(c)', c \notin history'.reworked \cup history'.missed,
                    NEW i, NewGap(c, i)'
             PROVE  GapIsListed(c, i)'
  BY DEF NewGapsAreListed, NewGap, GapIsListed
<1>1. CardStep(c) /\ c \in Branches /\ c # Closing
  BY CardSteps, ClosingIsNoCard
<1>2. c \notin history.reworked \cup history.missed
  BY ReworkedGrows
<1>3. ASSUME Worked(c), NewGap(c, i) PROVE GapIsListed(c, i)
  BY <1>2, <1>3 DEF NewGapsAreListed, NewGap, GapIsListed
<1>4. ASSUME Worked(c), SameCode(c), openIds'[c] = openIds[c],
             branch'[c].registry = branch[c].registry, branch'[c].base = branch[c].base,
             branch'[c].gate = branch[c].gate,
             reports[c].found # <<>> => reports'[c].found # <<>>
      PROVE  GapIsListed(c, i)'
  <2>1. NewGap(c, i)
    BY <1>4 DEF NewGap
  <2>2. GapIsListed(c, i)
    BY <1>3, <1>4, <2>1
  <2>3. PICK q : q = branch[c].registry[i].what
    OBVIOUS
  <2>4. Fires(c, q)' <=> Fires(c, q)
    BY <1>4, FiresAgain
  <2>5. QED
    BY <1>4, <2>2, <2>3, <2>4 DEF GapIsListed
<1>5. CASE branch'[c] = branch[c] /\ reports'[c] = reports[c] /\ openIds'[c] = openIds[c]
  <2>1. Worked(c) /\ SameCode(c)
    BY <1>5, SameCodeSteps DEF Worked
  <2>2. QED
    BY <1>4, <1>5, <2>1
<1>6. CASE Tracked(c)
  <2>1. Worked(c) /\ SameCode(c)
    BY <1>6, SameCodeSteps DEF Worked, Tracked
  <2>2. QED
    BY <1>4, <1>6, <2>1 DEF Tracked
<1>7. CASE Edited(c)
  <2>1. reports[c].found = <<>> /\ Worked(c)
    BY <1>7, ReworkedGrows DEF Edited, Worked
  <2>2. branch'[c].registry = branch[c].registry /\ branch'[c].base = branch[c].base
    BY <1>7 DEF Edited, Becomes, AWork
  <2>3. NewGap(c, i)
    BY <2>2 DEF NewGap
  <2>4. QED
    BY <1>3, <2>1, <2>3 DEF GapIsListed
<1>8. CASE Forked(c) \/ Rebased(c)
  <2>1. \E code, files : Begun(c, code, files)
    BY <1>8 DEF Forked, Rebased
  <2>2. branch'[c].registry = master.registry /\ branch'[c].base = master
    BY <2>1 DEF Begun, Becomes, AWork
  <2>3. master.registry \in Seq(Event)
    BY TreeOf DEF TypeOK
  <2>4. ~(i > Len(master.registry)) \/ i \notin DOMAIN master.registry
    BY <2>3
  <2>5. QED
    BY <2>2, <2>4 DEF NewGap
<1>9. CASE Gated(c)
  BY <1>2, <1>9, GateLists
<1>10. CASE PrOpened(c) \/ \E p \in Patterns : DebtClosed(c, p)
  <2>1. Worked(c) /\ SameCode(c) /\ reports' = reports /\ openIds' = openIds
    BY <1>10, SameCodeSteps DEF Worked, PrOpened, DebtClosed
  <2>2. \E st, head, debts :
          branch'[c] = AWork(st, branch[c].base, head, branch[c].registry, debts, branch[c].gate)
    BY <1>10 DEF PrOpened, DebtClosed, Becomes
  <2>3. /\ branch'[c].registry = branch[c].registry /\ branch'[c].base = branch[c].base
        /\ branch'[c].gate = branch[c].gate
    BY <2>2 DEF AWork
  <2>4. QED
    BY <1>4, <2>1, <2>3
<1>11. ASSUME Merged(c) PROVE FALSE
  BY <1>1, <1>11 DEF Merged, Ended, Becomes, NoBranch, Worked
<1>12. QED
  BY <1>1, <1>5, <1>6, <1>7, <1>8, <1>9, <1>10, <1>11 DEF CardStep

\* What the closing pass is shown stays shown.
LEMMA ListedGrows ==
  ASSUME TypeOK, TreeStep
  PROVE  /\ \A id \in Listed : id \in Listed'
         /\ \A c \in Cards : branch[c].st = "merged" => branch'[c].st = "merged"
<1>1. ASSUME NEW c \in Cards, branch[c].st = "merged"
      PROVE  branch'[c] = branch[c] /\ openIds'[c] = openIds[c]
  <2>1. CardStep(c)
    BY CardSteps
  <2>2. QED
    BY <1>1, <2>1 DEF CardStep, Tracked, Edited, Rebased, Gated, Forked, PrOpened, Merged, DebtClosed
<1>2. QED
  BY <1>1 DEF Listed

\* What the last run of a card's gate left open is on the list when the card is merged.
LEMMA MergeLists ==
  ASSUME TypeOK, RegistriesAreSound, BranchesAppend, VerdictsHold, NewGapsAreListed,
         OpenGapsAreListed, NEW t \in Branches, Merged(t),
         \A c \in history.reworked \cup history.missed : branch[c].st # "merged",
         t \notin history.reworked \cup history.missed,
         \A id \in Listed : id \in Listed',
         NEW id, id \in Ids(branch[t].registry), IsOpen(branch[t].registry, id),
         branch[t].base.registry = master.registry
  PROVE  id \in Listed'
<1> DEFINE r == branch[t].registry
           base == branch[t].base.registry
<1>1. Worked(t) /\ branch[t].st = "pr"
  BY DEF Merged, Worked
<1>2. r \in Seq(Event) /\ Sound(r) /\ base \in Seq(Event) /\ Sound(base)
  BY <1>1, WorkOf, TreeOf DEF RegistriesAreSound
<1>3. /\ Len(r) \in Nat /\ Len(base) \in Nat /\ DOMAIN r = 1 .. Len(r)
      /\ DOMAIN base = 1 .. Len(base)
  BY <1>2
<1>4. /\ Len(base) <= Len(r) /\ \A i \in 1 .. Len(base) : r[i] = base[i]
      /\ \A i \in 1 .. Len(r) : i > Len(base) => (r[i].event = "ruled" <=> t = Closing)
  BY <1>1, <1>3 DEF BranchesAppend
<1>5. PICK i \in 1 .. Len(r) : r[i].id = id
  BY <1>3 DEF Ids, ToSet
<1>6. PICK j \in 1 .. Len(r) : r[j] = Opened(id, r[j].what)
  BY <1>2, <1>3, <1>5 DEF Sound
<1>7. r[j].id = id /\ r[j].event = "opened"
  BY <1>6 DEF Opened
<1>8. CASE j <= Len(base)
  <2>1. j \in 1 .. Len(base) /\ base[j].id = id
    BY <1>3, <1>4, <1>7, <1>8
  <2>2. \A k \in 1 .. Len(base) : k \in 1 .. Len(r) /\ r[k] = base[k]
    BY <1>3, <1>4
  <2>3. \A k \in 1 .. Len(r) : r[k].id = id => r[k].event # "ruled"
    BY <1>2, OpenIs
  <2>4. IsOpen(base, id)
    <3>1. \A k \in 1 .. Len(base) : base[k].id = id => base[k].event # "ruled"
      BY <2>2, <2>3
    <3>2. QED
      BY <1>2, <2>1, <3>1, OpenIs
  <2>5. id \in Ids(base)
    BY <1>3, <2>1 DEF Ids, ToSet
  <2>6. id \in Listed
    BY <2>4, <2>5 DEF OpenGapsAreListed
  <2>7. QED
    BY <2>6
<1>9. CASE ~(j <= Len(base))
  <2>1. j > Len(base)
    BY <1>3, <1>9
  <2>2. t \in Cards /\ t # Closing
    BY <1>4, <1>7, <2>1, ClosingIsNoCard
  <2>3. branch[t].gate = "green"
    BY <1>1, <2>2 DEF VerdictsHold
  <2>4. id \in openIds[t]
    BY <1>1, <1>3, <1>7, <2>1, <2>2, <2>3 DEF NewGapsAreListed
  <2>5. branch'[t].st = "merged" /\ openIds' = openIds
    BY <2>2 DEF Merged, Ended, Becomes, NoBranch
  <2>6. QED
    BY <2>2, <2>4, <2>5 DEF Listed
<1>10. QED
  BY <1>8, <1>9

LEMMA StepKeepsListed ==
  ASSUME TypeOK, RegistriesAreSound, BranchesAppend, VerdictsHold, NewGapsAreListed,
         OpenGapsAreListed, TreeStep
  PROVE  OpenGapsAreListed'
<1> SUFFICES ASSUME \A c \in history'.reworked \cup history'.missed : branch'[c].st # "merged",
                    NEW id \in Ids(master'.registry), IsOpen(master'.registry, id)
             PROVE  id \in Listed'
  BY DEF OpenGapsAreListed, Ids, IsOpen, foldToLatestStatus
<1>1. /\ \A d \in Listed : d \in Listed'
      /\ \A c \in Cards : branch[c].st = "merged" => branch'[c].st = "merged"
      /\ history.reworked \subseteq history'.reworked /\ history.missed \subseteq history'.missed
  BY ListedGrows, ReworkedGrows
<1>2. \A c \in history.reworked \cup history.missed : branch[c].st # "merged"
  <2>1. history.reworked \subseteq Cards /\ history.missed \subseteq Cards
    BY DEF TypeOK
  <2>2. QED
    BY <1>1, <2>1
<1>3. CASE master'.registry = master.registry
  <2>1. id \in Listed
    BY <1>2, <1>3 DEF OpenGapsAreListed
  <2>2. QED
    BY <1>1, <2>1
<1>4. ASSUME NEW t \in Branches, Merged(t), master'.registry # master.registry
      PROVE  id \in Listed'
  <2>1. Worked(t) /\ branch[t].st = "pr" /\ ~Conflict(t)
    BY <1>4 DEF Merged, Worked
  <2>2. /\ master'.registry = branch[t].head.registry
        /\ branch[t].head.registry # branch[t].base.registry
    BY <1>4 DEF Merged, ATree
  <2>3. branch[t].base.registry = master.registry
    BY <1>4, <2>1, <2>2 DEF Conflict
  <2>4. branch[t].head.registry = branch[t].registry
    BY <2>1 DEF BranchesAppend
  <2>5. t \notin history.reworked \cup history.missed
    <3>1. ASSUME t \in Cards PROVE branch'[t].st = "merged"
      BY <1>4, <3>1, ClosingIsNoCard DEF Merged, Ended, Becomes, NoBranch
    <3>2. history.reworked \subseteq Cards /\ history.missed \subseteq Cards
      BY DEF TypeOK
    <3>3. QED
      BY <1>1, <3>1, <3>2
  <2>6. id \in Ids(branch[t].registry) /\ IsOpen(branch[t].registry, id)
    BY <2>2, <2>4
  <2>7. QED
    BY <1>1, <1>2, <1>4, <2>3, <2>5, <2>6, MergeLists
<1>5. QED
  BY <1>3, <1>4, MasterSteps
-----------------------------------------------------------------------------
(* Issues                                                                  *)

\* Issues are made by the backfill alone.
LEMMA IssueSteps ==
  ASSUME TypeOK, [Next]_vars
  PROVE  \/ UNCHANGED <<fills, issues>> /\ history'.overlap = history.overlap
         \/ Backfill
         \/ \E i \in DOMAIN fills : FailIssue(i) \/ \E p \in Patterns : CreateIssue(i, p)
<1> DEFINE Same == UNCHANGED <<fills, issues>> /\ history'.overlap = history.overlap
<1>1. CASE UNCHANGED vars
  BY <1>1 DEF vars
<1>2. ASSUME NEW t \in Branches, Fork(t) \/ OpenPr(t) \/ Merge(t) PROVE Same
  <2>1. CASE Merge(t)
    BY <2>1 DEF Merge, TypeOK
  <2>2. QED
    BY <1>2, <2>1 DEF Fork, OpenPr
<1>3. ASSUME NEW c \in Cards, \/ Edit(c) \/ Track(c) \/ Rebase(c)
                              \/ \E slow \in SUBSET Patterns : Gate(c, slow) \/ KillGate(c, slow)
                              \/ \E p \in Patterns : CloseDebt(c, p)
      PROVE  Same
  <2>1. Reworked(c).overlap = history.overlap
    BY DEF Reworked, TypeOK
  <2>2. ASSUME NEW slow, RunGate(c, slow) PROVE history'.overlap = history.overlap
    BY <2>2 DEF RunGate, TypeOK
  <2>3. ASSUME NEW slow, Gate(c, slow) \/ KillGate(c, slow) PROVE Same
    BY <2>2, <2>3 DEF Gate, KillGate
  <2>4. QED
    BY <1>3, <2>1, <2>3 DEF Edit, Track, Rebase, CloseDebt
<1>4. CASE Ruling
  BY <1>4 DEF Ruling, RuleDismissed, CreateDebtEntity, AppendRuling, KillRule, Abandon
<1>5. QED
  BY <1>1, <1>2, <1>3, <1>4 DEF Next

LEMMA StepKeepsIssues ==
  ASSUME TypeOK, IssuesAreOwed, OneIssuePerDebt, [Next]_vars
  PROVE  IssuesAreOwed' /\ OneIssuePerDebt'
<1>1. /\ fills \in Seq(SUBSET Patterns) /\ issues \in [Patterns -> Nat]
      /\ history \in [unguarded : SUBSET Patterns, removed : SUBSET Patterns,
              reworked : SUBSET Cards, missed : SUBSET Cards, overlap : BOOLEAN]
  BY DEF TypeOK
<1>2. DOMAIN fills = 1 .. Len(fills) /\ Len(fills) \in Nat
        /\ \A i \in 1 .. Len(fills) : fills[i] \subseteq Patterns
  BY <1>1
<1>3. CASE UNCHANGED <<fills, issues>> /\ history'.overlap = history.overlap
  BY <1>3 DEF IssuesAreOwed, OneIssuePerDebt
<1>4. CASE Backfill
  <2>1. /\ fills' = Append(fills, selectMissing) /\ issues' = issues
        /\ history' = [history EXCEPT !.overlap = history.overlap
                                                    \/ \E i \in DOMAIN fills : fills[i] # {}]
    BY <1>4 DEF Backfill
  <2>2. history'.overlap <=> history.overlap \/ \E i \in DOMAIN fills : fills[i] # {}
    BY <1>1, <2>1
  <2>3. OneIssuePerDebt'
    BY <2>1, <2>2 DEF OneIssuePerDebt
  <2>4. ASSUME ~history'.overlap
        PROVE  /\ \A i, j \in DOMAIN fills' : i # j => fills'[i] = {} \/ fills'[j] = {}
               /\ \A i \in DOMAIN fills' : \A p \in fills'[i] : issues'[p] = 0
    <3>1. \A i \in 1 .. Len(fills) : fills[i] = {}
      BY <1>2, <2>2, <2>4
    <3> DEFINE M == selectMissing
    <3>2. \A p \in M : issues[p] = 0
      BY DEF selectMissing
    <3>3. M \in SUBSET Patterns
      BY DEF selectMissing, OpenDebts
    <3> HIDE DEF M
    <3>4. /\ DOMAIN fills' = 1 .. Len(fills) + 1
          /\ \A i \in 1 .. Len(fills) + 1 : fills'[i] = IF i <= Len(fills) THEN fills[i] ELSE M
      BY <1>1, <2>1, <3>3 DEF M
    <3>5. \A i \in 1 .. Len(fills) + 1 : i = Len(fills) + 1 \/ fills'[i] = {}
      BY <1>2, <3>1, <3>4
    <3>6. fills'[Len(fills) + 1] = M
      BY <1>2, <3>4
    <3>7. QED
      BY <2>1, <3>2, <3>4, <3>5, <3>6
  <2>5. QED
    BY <2>3, <2>4 DEF IssuesAreOwed
<1>5. ASSUME NEW i \in DOMAIN fills, FailIssue(i) PROVE IssuesAreOwed' /\ OneIssuePerDebt'
  <2>1. fills' = [fills EXCEPT ![i] = {}] /\ issues' = issues /\ history' = history
    BY <1>5 DEF FailIssue
  <2>2. DOMAIN fills' = DOMAIN fills /\ \A j \in DOMAIN fills : fills'[j] \in {fills[j], {}}
    BY <1>1, <2>1
  <2>3. IssuesAreOwed'
    BY <2>1, <2>2 DEF IssuesAreOwed
  <2>4. QED
    BY <2>1, <2>3 DEF OneIssuePerDebt
<1>6. ASSUME NEW i \in DOMAIN fills, NEW p \in Patterns, CreateIssue(i, p)
      PROVE  IssuesAreOwed' /\ OneIssuePerDebt'
  <2>1. /\ p \in fills[i] /\ fills' = [fills EXCEPT ![i] = fills[i] \ {p}]
        /\ issues' = [issues EXCEPT ![p] = issues[p] + 1] /\ history' = history
    BY <1>6 DEF CreateIssue
  <2>2. /\ DOMAIN fills' = DOMAIN fills /\ fills'[i] = fills[i] \ {p}
        /\ \A j \in DOMAIN fills : j # i => fills'[j] = fills[j]
    BY <1>1, <2>1
  <2>3. issues'[p] = issues[p] + 1 /\ \A q \in Patterns : q # p => issues'[q] = issues[q]
    BY <1>1, <2>1
  <2>4. ASSUME ~history.overlap
        PROVE  /\ \A k, j \in DOMAIN fills' : k # j => fills'[k] = {} \/ fills'[j] = {}
               /\ \A k \in DOMAIN fills' : \A q \in fills'[k] : issues'[q] = 0
               /\ issues[p] = 0
    <3>1. issues[p] = 0 /\ \A j \in DOMAIN fills : j # i => fills[j] = {}
      BY <2>1, <2>4 DEF IssuesAreOwed
    <3>2. \A j \in DOMAIN fills : j # i => fills'[j] = {}
      BY <2>2, <3>1
    <3>3. ASSUME NEW q \in fills'[i] PROVE issues'[q] = 0
      <4>1. q \in fills[i] /\ q # p /\ q \in Patterns
        BY <1>2, <2>2, <3>3
      <4>2. issues[q] = 0
        BY <2>4, <4>1 DEF IssuesAreOwed
      <4>3. QED
        BY <2>3, <4>1, <4>2
    <3>4. QED
      BY <2>2, <3>1, <3>2, <3>3
  <2>5. IssuesAreOwed'
    BY <2>1, <2>4 DEF IssuesAreOwed
  <2>6. ASSUME ~history.overlap, NEW q \in Patterns PROVE issues'[q] <= 1
    <3>1. CASE q = p
      BY <2>3, <2>4, <2>6, <3>1
    <3>2. CASE q # p
      BY <2>3, <2>6, <3>2 DEF OneIssuePerDebt
    <3>3. QED
      BY <3>1, <3>2
  <2>7. QED
    BY <2>1, <2>5, <2>6 DEF OneIssuePerDebt
<1>7. QED
  BY <1>3, <1>4, <1>5, <1>6, IssueSteps
-----------------------------------------------------------------------------
(* Theorems                                                                *)

LEMMA InitHolds == Init => TypeOK /\ GapInv
<1> SUFFICES ASSUME Init PROVE TypeOK /\ GapInv
  OBVIOUS
<1>1. /\ master \in Tree /\ Sound(master.registry) /\ Artifacts(master.registry, master.debts)
      /\ \A h \in master.code : h[2] \in Paths[h[1]] \cap master.files
      /\ \A id \in Ids(master.registry) :
           \E e \in ToSet(master.registry) : e.id = id /\ e.event = "ruled"
      /\ \A p \in Patterns : master.debts[p].status = "open" =>
           Hits(master.code, p) <= master.debts[p].baseline
  BY FirstTreesAssumption DEF Init
<1>2. /\ branch = [t \in Branches |-> NoBranch]
      /\ reports = [c \in Cards |-> [rounds |-> 0, found |-> <<>>]]
      /\ openIds = [c \in Cards |-> {}] /\ ruling = NoGap
      /\ issues = [p \in Patterns |-> 0] /\ fills = <<>>
      /\ count = [edits |-> 0, rulings |-> 0, faults |-> 0, fills |-> 0]
      /\ history = [unguarded |-> {}, removed |-> {}, reworked |-> {}, missed |-> {},
                    overlap |-> FALSE]
  BY DEF Init
<1>3. master.registry \in Seq(Event) /\ master.code \in Code /\ master.debts \in [Patterns -> Debt]
  BY <1>1, TreeOf
<1>4. \A id \in Ids(master.registry) : ~IsOpen(master.registry, id)
  <2> PICK r : r = master.registry
    OBVIOUS
  <2>1. ASSUME NEW id, IsOpen(r, id) PROVE id \notin Ids(r)
    <3>1. \A k \in 1 .. Len(r) : r[k].id = id => r[k].event # "ruled"
      BY <1>1, <1>3, <2>1, OpenIs
    <3>2. \A e \in ToSet(r) : e.id = id => e.event # "ruled"
      BY <1>3, <3>1 DEF ToSet
    <3>3. QED
      BY <1>1, <3>2
  <2>2. QED
    BY <2>1
<1>5. \A t \in Branches : branch[t] = NoBranch /\ branch[t].st = "none" /\ ~Worked(t)
  BY <1>2 DEF NoBranch, Worked
<1>6. \A p \in Patterns : ~(master.debts[p].status = "open"
                              /\ Hits(master.code, p) > master.debts[p].baseline)
  <2>1. ASSUME NEW p \in Patterns PROVE master.debts[p].baseline \in Nat
    <3>1. master.debts[p] \in Debt
      BY <1>3
    <3>2. QED
      BY <3>1 DEF Debt
  <2>2. QED
    BY <1>1, <1>3, <2>1, HitsIsNat
<1>7. TypeOK
  <2>1. master \in Tree
    BY <1>1
  <2>2. DOMAIN branch = Branches
    BY <1>2
  <2>3. /\ reports \in [Cards -> [rounds : Nat, found : Seq(Patterns)]]
        /\ openIds \in [Cards -> SUBSET (Nat \ {0})] /\ ruling \in Nat
        /\ issues \in [Patterns -> Nat] /\ fills \in Seq(SUBSET Patterns)
        /\ count \in [edits : Nat, rulings : Nat, faults : Nat, fills : Nat]
        /\ history \in [unguarded : SUBSET Patterns, removed : SUBSET Patterns,
              reworked : SUBSET Cards, missed : SUBSET Cards, overlap : BOOLEAN]
    BY <1>2 DEF NoGap
  <2>4. QED
    BY <1>5, <2>1, <2>2, <2>3 DEF TypeOK
<1>8. RegistriesAreSound /\ BranchesAppend /\ VerdictsHold /\ GrowthIsUnguarded
  BY <1>1, <1>5, ClosingIsNoCard DEF RegistriesAreSound, BranchesAppend, VerdictsHold,
     GrowthIsUnguarded
<1>9. RulingIsOpen
  BY <1>2 DEF RulingIsOpen
<1>10. ArtifactsAreThere
  BY <1>1, <1>5 DEF ArtifactsAreThere
<1>11. HitsAreInPaths
  BY <1>1, <1>5 DEF HitsAreInPaths
<1>12. ReportsAreFresh /\ NewGapsAreListed
  BY <1>2, <1>5, ClosingIsNoCard DEF ReportsAreFresh, NewGapsAreListed
<1>13. IssuesAreOwed /\ OneIssuePerDebt
  BY <1>2 DEF IssuesAreOwed, OneIssuePerDebt
<1>14. LeaksAreUnguarded
  BY <1>6 DEF LeaksAreUnguarded
<1>15. OpenGapsAreListed
  BY <1>4 DEF OpenGapsAreListed
<1>16. QED
  BY <1>7, <1>8, <1>9, <1>10, <1>11, <1>12, <1>13, <1>14, <1>15 DEF GapInv

LEMMA StepKeepsInv == TypeOK /\ GapInv /\ [Next]_vars => TypeOK' /\ GapInv'
<1> SUFFICES ASSUME TypeOK, GapInv, [Next]_vars PROVE TypeOK' /\ GapInv'
  OBVIOUS
<1>1. /\ RegistriesAreSound /\ BranchesAppend /\ RulingIsOpen /\ ArtifactsAreThere
      /\ VerdictsHold /\ GrowthIsUnguarded /\ HitsAreInPaths /\ ReportsAreFresh
      /\ NewGapsAreListed /\ IssuesAreOwed /\ OneIssuePerDebt /\ LeaksAreUnguarded
      /\ OpenGapsAreListed
  BY DEF GapInv
<1>2. TreeStep
  BY <1>1, NextIsTreeStep
<1>3. TypeOK'
  BY <1>1, <1>2, StepKeepsTypes
<1>4. RegistriesAreSound' /\ RulingIsOpen'
  BY <1>1, <1>2, StepKeepsSound, StepKeepsRuling
<1>5. BranchesAppend'
  <2>1. \A u \in Branches : Worked(u)' => AppendOnly(u)'
    BY <1>1, <1>2, StepKeepsAppends
  <2>2. QED
    BY <2>1 DEF BranchesAppend, AppendOnly
<1>6. ArtifactsAreThere' /\ VerdictsHold'
  BY <1>1, <1>2, <1>3, StepKeepsArtifacts, StepKeepsVerdicts
<1>7. GrowthIsUnguarded' /\ LeaksAreUnguarded'
  BY <1>1, <1>2, <1>3, StepKeepsGrowth, StepKeepsLeaks
<1>8. HitsAreInPaths' /\ ReportsAreFresh' /\ NewGapsAreListed'
  BY <1>1, <1>2, StepKeepsPaths, StepKeepsFresh, StepKeepsNewGaps
<1>9. IssuesAreOwed' /\ OneIssuePerDebt'
  BY <1>1, StepKeepsIssues
<1>10. OpenGapsAreListed'
  BY <1>1, <1>2, StepKeepsListed
<1>11. QED
  BY <1>3, <1>4, <1>5, <1>6, <1>7, <1>8, <1>9, <1>10 DEF GapInv

\* In every state the registries are sound and are only appended to, rulings have their
\* artifacts, what is merged was judged, and what cards opened is listed (gap-gate.ts,
\* gap-rule.ts, gap-reconcile.ts, debt-count.ts, debt-backfill.ts).
THEOREM RegistryIsSound == Spec => [](TypeOK /\ GapInv)
<1>1. QED
  BY InitHolds, StepKeepsInv, PTL DEF Spec

\* Every variable of the gap gate stays in its domain, for any number of cards, files
\* and patterns and any bounds.
THEOREM GapRegistryTypeCorrect == Spec => []TypeOK
<1>1. TypeOK /\ GapInv => TypeOK
  OBVIOUS
<1>2. QED
  BY <1>1, RegistryIsSound, PTL

\* The registry of a branch that is not worked on is empty.
LEMMA RegistriesHold ==
  ASSUME TypeOK, RegistriesAreSound, NEW registry \in Registries
  PROVE  Sound(registry)
<1>1. CASE registry = master.registry
  BY <1>1 DEF RegistriesAreSound
<1>2. ASSUME NEW t \in Branches, registry = branch[t].registry PROVE Sound(registry)
  <2>1. CASE Worked(t)
    BY <1>2, <2>1 DEF RegistriesAreSound
  <2>2. CASE ~Worked(t)
    <3>1. branch[t] \in {NoBranch, [NoBranch EXCEPT !.st = "merged"]}
      BY <2>2 DEF TypeOK
    <3>2. registry = <<>>
      BY <1>2, <3>1 DEF NoBranch
    <3>3. QED
      BY <3>2 DEF Sound
  <2>3. QED
    BY <2>1, <2>2
<1>3. QED
  BY <1>1, <1>2 DEF Registries

\* An id names one gap in every tree, however cards run their gates side by side, are
\* killed in them, rebase and run them again (ledger.ts, mintNextId).
THEOREM IdsStayUnique == Spec => []IdsAreUnique
<1>1. TypeOK /\ GapInv => IdsAreUnique
  <2> SUFFICES ASSUME TypeOK, GapInv PROVE IdsAreUnique
    OBVIOUS
  <2>1. \A registry \in Registries : Sound(registry)
    BY RegistriesHold DEF GapInv
  <2>2. QED
    BY <2>1 DEF IdsAreUnique, Sound
<1>2. QED
  BY <1>1, RegistryIsSound, PTL

\* Nothing is appended for a gap that is ruled, by whichever branch and in whatever order
\* they merge (ledger.ts, foldToLatestStatus; gap-rule.ts).
THEOREM RulingsAreLast == Spec => []RuledStaysRuled
<1>1. TypeOK /\ GapInv => RuledStaysRuled
  <2> SUFFICES ASSUME TypeOK, GapInv PROVE RuledStaysRuled
    OBVIOUS
  <2>1. \A registry \in Registries : Sound(registry)
    BY RegistriesHold DEF GapInv
  <2>2. QED
    BY <2>1 DEF RuledStaysRuled, Sound
<1>2. QED
  BY <1>1, RegistryIsSound, PTL

\* A gap ruled a debt has its entity, in the default branch and in the closing worktree,
\* wherever a ruling was killed (gap-rule.ts: artifacts first, ruling last).
THEOREM RulingsHaveArtifacts == Spec => []RulingHasArtifact
<1>1. TypeOK /\ GapInv => RulingHasArtifact
  BY ClosingIsNoCard DEF GapInv, ArtifactsAreThere, Artifacts, RulingHasArtifact, Worked
<1>2. QED
  BY <1>1, RegistryIsSound, PTL

\* Where a debt has outgrown its baseline, a branch without the entity was merged with
\* more hits of it, or a branch and the default branch had removed the same hit of it
\* (debt-count.ts, diffDebt).
THEOREM LeaksStayUnguarded == Spec => []LeaksAreUnguarded
<1>1. TypeOK /\ GapInv => LeaksAreUnguarded
  BY DEF GapInv
<1>2. QED
  BY <1>1, RegistryIsSound, PTL

\* Every gap open on the default branch is on a merged card's list, unless a card was
\* merged that had been edited or rebased after a Tracker's finding, or a gate of which
\* had a grep fail on an open gap (gap-gate.ts; gap-reconcile.ts, runGrep).
THEOREM OpenGapsStayListed == Spec => []OpenGapsAreListed
<1>1. TypeOK /\ GapInv => OpenGapsAreListed
  BY DEF GapInv
<1>2. QED
  BY <1>1, RegistryIsSound, PTL

\* Unless two backfills overlapped, no debt has two issues, whatever failed in between
\* (debt-backfill.ts, selectMissing).
THEOREM IssuesAreSingle == Spec => []OneIssuePerDebt
<1>1. TypeOK /\ GapInv => OneIssuePerDebt
  BY DEF GapInv
<1>2. QED
  BY <1>1, RegistryIsSound, PTL
=============================================================================
