--------------------------- MODULE DiscoverProofs ---------------------------
(***************************************************************************)
(* What the search limiter promises, for every window, limit and number of *)
(* users.  The limiter counts entries of its logs, the properties count    *)
(* searches: each log, once pruned, is the searches it stands for, oldest  *)
(* first (Faithful).                                                       *)
(***************************************************************************)
EXTENDS Discover, FiniteSetTheorems, TLAPS

Live(w) == {i \in 1 .. Len(w) : w[i] < Window}
AllLive(w) == \A i \in 1 .. Len(w) : w[i] < Window
InOrder(w) == \A i, j \in 1 .. Len(w) : i < j => w[i] >= w[j]

\* The entries of w that are not expired are the searches of S, with their ages.
Records(w, S) == \E f \in Bijection(Live(w), S) : \A i \in Live(w) : f[i].age = w[i]
Faithful(w, S) == w \in Seq(Age) /\ InOrder(w) /\ Records(w, S)

-----------------------------------------------------------------------------
(* Logs. *)

LEMMA Bijections ==
    ASSUME NEW S, NEW T, NEW f \in [S -> T],
           \A x, y \in S : f[x] = f[y] => x = y, \A t \in T : \E x \in S : f[x] = t
    PROVE  f \in Bijection(S, T)
  BY DEF Bijection, Injection, Surjection, IsInjective

LEMMA BijectionIs ==
    ASSUME NEW S, NEW T, NEW f \in Bijection(S, T)
    PROVE  /\ f \in [S -> T] /\ \A x, y \in S : f[x] = f[y] => x = y
           /\ \A t \in T : \E x \in S : f[x] = t
  BY DEF Bijection, Injection, Surjection, IsInjective

\* A set of indices that has every index below its members is an initial segment.
LEMMA InitialSegment ==
    ASSUME NEW n \in Nat, NEW D \in SUBSET (1 .. n), \A i \in D, j \in 1 .. n : j < i => j \in D
    PROVE  Cardinality(D) \in 0 .. n /\ D = 1 .. Cardinality(D)
  <1> DEFINE c == Cardinality(D)
             all == 1 .. n
             seg == 1 .. c
  <1>1. IsFiniteSet(all) /\ Cardinality(all) = n
    BY FS_Interval
  <1>2. IsFiniteSet(D) /\ c <= n /\ c \in Nat
    <2>1. D \in SUBSET all
      OBVIOUS
    <2> HIDE DEF all
    <2> QED BY <1>1, <2>1, FS_Subset, FS_CardinalityType
  <1>3. ASSUME NEW i \in D PROVE i \in seg
    <2> DEFINE below == 1 .. i
    <2>1. i \in Nat \ {0} /\ below \in SUBSET D
      OBVIOUS
    <2>2. Cardinality(below) = i
      BY <2>1, FS_Interval
    <2>3. Cardinality(below) <= c
      <3> HIDE DEF below
      <3> QED BY <1>2, <2>1, FS_Subset
    <2> HIDE DEF c
    <2> QED BY <1>2, <2>1, <2>2, <2>3
  <1>4. IsFiniteSet(seg) /\ Cardinality(seg) = c
    <2> HIDE DEF c
    <2> QED BY <1>2, FS_Interval
  <1>5. D = seg
    <2>1. D \in SUBSET seg
      BY <1>3
    <2> HIDE DEF seg
    <2> QED BY <1>4, <2>1, FS_Subset
  <1> QED BY <1>2, <1>5

\* retain on a log in order: it cuts off the expired entries and only those.
LEMMA PruneCuts ==
    ASSUME NEW w \in Seq(Age), InOrder(w)
    PROVE  \E k \in 0 .. Len(w) :
               /\ Prune(w) \in Seq(Age) /\ Len(Prune(w)) = Len(w) - k
               /\ \A j \in 1 .. Len(w) - k : Prune(w)[j] = w[j + k]
               /\ \A i \in 1 .. Len(w) : w[i] < Window <=> i > k
  <1> DEFINE n == Len(w)
             D == {i \in 1 .. n : w[i] >= Window}
             k == Cardinality(D)
  <1>1. n \in Nat /\ \A i \in 1 .. n : w[i] \in Nat
    <2>1. n \in Nat /\ \A i \in 1 .. n : w[i] \in Age
      OBVIOUS
    <2>2. Age \subseteq Nat
      BY RateLimiterAssumption DEF Age
    <2> HIDE DEF n
    <2> QED BY <2>1, <2>2
  <1>2. \A i \in D, j \in 1 .. n : j < i => j \in D
    BY <1>1, RateLimiterAssumption DEF InOrder
  <1>3. k \in 0 .. n /\ D = 1 .. k
    <2>1. D \in SUBSET (1 .. n)
      OBVIOUS
    <2> HIDE DEF D, n
    <2> QED BY <1>1, <1>2, <2>1, InitialSegment
  <1>4. \A i \in 1 .. n : w[i] < Window <=> i > k
    <2>1. \A i \in 1 .. n : w[i] >= Window <=> i \in 1 .. k
      BY <1>3
    <2> HIDE DEF k, D
    <2> QED BY <1>1, <1>3, <2>1, RateLimiterAssumption
  <1>5. Prune(w) = SubSeq(w, k + 1, n)
    BY DEF Prune, KeepYounger
  <1> HIDE DEF k
  <1>6. /\ Prune(w) \in Seq(Age) /\ Len(Prune(w)) = n - k
        /\ \A j \in 1 .. n - k : Prune(w)[j] = w[j + k]
    BY <1>1, <1>3, <1>5
  <1> QED BY <1>3, <1>4, <1>6

LEMMA EntriesAreAges ==
    ASSUME NEW w \in Seq(Age)
    PROVE  /\ Len(w) \in Nat /\ \A i \in 1 .. Len(w) : w[i] \in Age /\ w[i] \in Nat
           /\ Age \subseteq Nat /\ 0 \in Age /\ Window \in Nat /\ Window > 0
  <1>1. Len(w) \in Nat /\ \A i \in 1 .. Len(w) : w[i] \in Age
    OBVIOUS
  <1>2. Age \subseteq Nat /\ 0 \in Age /\ Window \in Nat /\ Window > 0
    BY RateLimiterAssumption DEF Age
  <1> QED BY <1>1, <1>2

LEMMA PruneFaithful ==
    ASSUME NEW w, NEW S, Faithful(w, S)
    PROVE  Faithful(Prune(w), S) /\ AllLive(Prune(w))
  <1> DEFINE v == Prune(w)
  <1>1. w \in Seq(Age) /\ InOrder(w) /\ Records(w, S)
    BY DEF Faithful
  <1>2. PICK k \in 0 .. Len(w) :
               /\ v \in Seq(Age) /\ Len(v) = Len(w) - k
               /\ \A j \in 1 .. Len(w) - k : v[j] = w[j + k]
               /\ \A i \in 1 .. Len(w) : w[i] < Window <=> i > k
    BY <1>1, PruneCuts
  <1>3. PICK f \in Bijection(Live(w), S) : \A i \in Live(w) : f[i].age = w[i]
    BY <1>1 DEF Records
  <1> HIDE DEF v
  <1>4. Len(w) \in Nat /\ Len(v) \in Nat
    BY <1>1, <1>2
  <1>5. /\ \A j \in 1 .. Len(v) : j + k \in Live(w)
        /\ \A i \in Live(w) : i - k \in 1 .. Len(v)
    <2>1. k \in Nat /\ Len(v) = Len(w) - k /\ \A i \in 1 .. Len(w) : w[i] < Window <=> i > k
      BY <1>2, <1>4
    <2>2. \A i \in 1 .. Len(w) : i \in Live(w) <=> i > k
      BY <2>1 DEF Live
    <2>3. Live(w) \subseteq 1 .. Len(w)
      BY DEF Live
    <2>4. ASSUME NEW j \in 1 .. Len(v) PROVE j + k \in Live(w)
      <3>1. j + k \in 1 .. Len(w) /\ j + k > k
        BY <1>4, <2>1
      <3> QED BY <2>2, <3>1
    <2>5. ASSUME NEW i \in Live(w) PROVE i - k \in 1 .. Len(v)
      <3>1. i \in 1 .. Len(w) /\ i > k
        BY <2>2, <2>3
      <3> QED BY <1>4, <2>1, <3>1
    <2> QED BY <2>4, <2>5
  <1>6. AllLive(v) /\ Live(v) = 1 .. Len(v)
    <2>1. ASSUME NEW j \in 1 .. Len(v) PROVE v[j] < Window
      <3>1. v[j] = w[j + k] /\ w[j + k] < Window
        BY <1>2, <1>4, <1>5, <2>1 DEF Live
      <3> QED BY <3>1
    <2> QED BY <2>1 DEF Live, AllLive
  <1>7. InOrder(v)
    BY <1>1, <1>2, <1>4 DEF InOrder
  <1>8. Records(v, S)
    <2> DEFINE g == [j \in Live(v) |-> f[j + k]]
    <2>1. /\ f \in [Live(w) -> S] /\ \A x, y \in Live(w) : f[x] = f[y] => x = y
          /\ \A t \in S : \E x \in Live(w) : f[x] = t
      BY <1>3, BijectionIs
    <2>2. g \in [Live(v) -> S] /\ \A j \in Live(v) : g[j] = f[j + k]
      BY <1>5, <1>6, <2>1
    <2> HIDE DEF g
    <2>3. \A x, y \in Live(v) : g[x] = g[y] => x = y
      BY <1>4, <1>5, <1>6, <2>1, <2>2
    <2>4. \A t \in S : \E x \in Live(v) : g[x] = t
      <3> SUFFICES ASSUME NEW t \in S PROVE \E x \in Live(v) : g[x] = t
        OBVIOUS
      <3>1. PICK i \in Live(w) : f[i] = t
        BY <2>1
      <3>2. i - k \in Live(v) /\ (i - k) + k = i
        BY <1>2, <1>5, <1>6 DEF Live
      <3> QED BY <2>2, <3>1, <3>2
    <2>5. g \in Bijection(Live(v), S)
      BY <2>2, <2>3, <2>4, Bijections
    <2>6. \A j \in Live(v) : g[j].age = v[j]
      BY <1>2, <1>3, <1>5, <1>6, <2>2
    <2> QED BY <2>5, <2>6 DEF Records
  <1> QED BY <1>2, <1>6, <1>7, <1>8 DEF Faithful, v

\* A pruned log has one entry for each of its searches.
LEMMA PrunedCounts ==
    ASSUME NEW v, NEW S, Faithful(v, S), AllLive(v)
    PROVE  IsFiniteSet(S) /\ Cardinality(S) = Len(v)
  <1>1. v \in Seq(Age) /\ Len(v) \in Nat
    BY DEF Faithful
  <1>2. Live(v) = 1 .. Len(v)
    BY DEF Live, AllLive
  <1>3. ExistsBijection(Live(v), S)
    BY DEF Faithful, Records, ExistsBijection
  <1>4. IsFiniteSet(Live(v)) /\ Cardinality(Live(v)) = Len(v)
    BY <1>1, <1>2, FS_Interval
  <1> QED BY <1>3, <1>4, FS_Bijection

\* A search let through is one more entry.
LEMMA AppendFaithful ==
    ASSUME NEW v, NEW S, Faithful(v, S), AllLive(v), NEW new, new \notin S, new.age = 0
    PROVE  Faithful(Append(v, 0), S \cup {new}) /\ AllLive(Append(v, 0))
  <1> DEFINE a == Append(v, 0)
             n == Len(v)
  <1>1. v \in Seq(Age) /\ InOrder(v) /\ Records(v, S)
    BY DEF Faithful
  <1>2. n \in Nat /\ (\A i \in 1 .. n : v[i] \in Nat /\ v[i] < Window) /\ 0 \in Age /\ 0 < Window
    BY <1>1, EntriesAreAges DEF AllLive
  <1>3. a \in Seq(Age) /\ Len(a) = n + 1 /\ a[n + 1] = 0 /\ \A i \in 1 .. n : a[i] = v[i]
    BY <1>1, <1>2
  <1> HIDE DEF a, n
  <1>4. InOrder(a)
    BY <1>1, <1>2, <1>3 DEF InOrder, n
  <1>5. AllLive(a) /\ Live(a) = 1 .. n + 1 /\ Live(v) = 1 .. n
    <2>1. \A i \in 1 .. n + 1 : a[i] < Window
      BY <1>2, <1>3
    <2> QED BY <1>2, <1>3, <2>1 DEF Live, AllLive, n
  <1>6. Records(a, S \cup {new})
    <2>1. PICK f \in Bijection(Live(v), S) : \A i \in Live(v) : f[i].age = v[i]
      BY <1>1 DEF Records
    <2> DEFINE g == [j \in 1 .. n + 1 |-> IF j = n + 1 THEN new ELSE f[j]]
               T == S \cup {new}
    <2>2. /\ f \in [1 .. n -> S] /\ \A x, y \in 1 .. n : f[x] = f[y] => x = y
          /\ \A t \in S : \E x \in 1 .. n : f[x] = t
      <3>1. /\ f \in [Live(v) -> S] /\ \A x, y \in Live(v) : f[x] = f[y] => x = y
            /\ \A t \in S : \E x \in Live(v) : f[x] = t
        BY <2>1, BijectionIs
      <3> HIDE DEF g
      <3> QED BY <1>5, <3>1
    <2>3. /\ g \in [1 .. n + 1 -> T] /\ g[n + 1] = new
          /\ \A j \in 1 .. n : g[j] = f[j] /\ g[j] \in S
      BY <1>2, <1>5, <2>2
    <2> HIDE DEF g
    <2>4. \A j \in 1 .. n + 1 : j \in 1 .. n \/ j = n + 1
      BY <1>2
    <2>5. \A x, y \in 1 .. n + 1 : g[x] = g[y] => x = y
      BY <2>2, <2>3, <2>4
    <2>6. \A t \in T : \E x \in 1 .. n + 1 : g[x] = t
      BY <1>2, <2>2, <2>3
    <2>7. g \in Bijection(Live(a), T)
      <3> HIDE DEF T
      <3> QED BY <1>5, <2>3, <2>5, <2>6, Bijections
    <2>8. \A j \in Live(a) : g[j].age = a[j]
      BY <1>3, <1>5, <2>1, <2>3, <2>4
    <2> QED BY <2>7, <2>8 DEF Records
  <1> QED BY <1>3, <1>4, <1>5, <1>6 DEF Faithful, a

-----------------------------------------------------------------------------
(* The clock. *)

Plus(p) == [p EXCEPT !.age = @ + 1]
Aged(S) == {Plus(p) : p \in {q \in S : q.age + 1 < Window}}

LEMMA PlusIs ==
    ASSUME NEW p \in Passed
    PROVE  /\ Plus(p).age = p.age + 1 /\ Plus(p).age # 0
           /\ Plus(p).user = p.user /\ Plus(p).mode = p.mode
           /\ (p.age + 1 < Window => Plus(p) \in Passed)
           /\ \A q \in Passed : Plus(p) = Plus(q) => p = q
  <1>1. /\ p = [user |-> p.user, mode |-> p.mode, age |-> p.age, nth |-> p.nth]
        /\ p.user \in User /\ p.mode \in Mode /\ p.age \in Age /\ p.nth \in Nat
    BY DEF Passed
  <1>2. /\ p.age \in Nat /\ Window \in Nat /\ (p.age + 1 < Window => p.age + 1 \in Age)
    BY <1>1, RateLimiterAssumption DEF Age
  <1>3. Plus(p) = [user |-> p.user, mode |-> p.mode, age |-> p.age + 1, nth |-> p.nth]
    BY <1>1 DEF Plus
  <1>4. ASSUME NEW q \in Passed, Plus(p) = Plus(q) PROVE p = q
    <2>1. /\ q = [user |-> q.user, mode |-> q.mode, age |-> q.age, nth |-> q.nth] /\ q.age \in Age
      BY DEF Passed
    <2>2. q.age \in Nat
      BY <2>1, RateLimiterAssumption DEF Age
    <2>3. Plus(q) = [user |-> q.user, mode |-> q.mode, age |-> q.age + 1, nth |-> q.nth]
      BY <2>1 DEF Plus
    <2>4. p.user = q.user /\ p.mode = q.mode /\ p.age + 1 = q.age + 1 /\ p.nth = q.nth
      BY <1>3, <1>4, <2>3
    <2> QED BY <1>1, <1>2, <2>1, <2>2, <2>4
  <1>5. p.age + 1 < Window => Plus(p) \in Passed
    BY <1>1, <1>2, <1>3 DEF Passed
  <1>6. /\ Plus(p).age = p.age + 1 /\ Plus(p).age # 0
        /\ Plus(p).user = p.user /\ Plus(p).mode = p.mode
    BY <1>2, <1>3
  <1> QED BY <1>4, <1>5, <1>6

\* The log and its searches grow older together, and leave the window together.
LEMMA OlderFaithful ==
    ASSUME NEW w, NEW S \in SUBSET Passed, Faithful(w, S)
    PROVE  Faithful(Older(w), Aged(S)) /\ Len(Older(w)) = Len(w)
  <1> DEFINE o == Older(w)
             n == Len(w)
  <1>1. w \in Seq(Age) /\ InOrder(w) /\ Records(w, S)
    BY DEF Faithful
  <1>2. /\ n \in Nat /\ \A i \in 1 .. n : w[i] \in Age /\ w[i] \in Nat
        /\ Window \in Nat /\ Window > 0
    BY <1>1, EntriesAreAges
  <1>3. o = [i \in 1 .. n |-> IF w[i] < Window THEN w[i] + 1 ELSE Window]
    BY DEF Older
  <1> HIDE DEF o, n
  <1>4. \A i \in 1 .. n : /\ o[i] = IF w[i] < Window THEN w[i] + 1 ELSE Window
                          /\ o[i] \in Age
    BY <1>2, <1>3 DEF Age
  <1>5. o \in Seq(Age) /\ Len(o) = n
    <2>1. o \in [1 .. n -> Age]
      BY <1>3, <1>4
    <2> QED BY <1>2, <2>1
  <1>6. InOrder(o)
    <2>1. \A i, j \in 1 .. n : i < j => w[i] >= w[j]
      BY <1>1 DEF InOrder, n
    <2>2. \A i, j \in 1 .. n : i < j => o[i] >= o[j]
      BY <1>2, <1>4, <2>1
    <2> QED BY <1>5, <2>2 DEF InOrder
  <1>7. \A i : i \in Live(o) <=> i \in Live(w) /\ w[i] + 1 < Window
    BY <1>2, <1>4, <1>5 DEF Live, n
  <1>8. PICK f \in Bijection(Live(w), S) : \A i \in Live(w) : f[i].age = w[i]
    BY <1>1 DEF Records
  <1> DEFINE g == [i \in Live(o) |-> Plus(f[i])]
             T == Aged(S)
  <1>9. /\ f \in [Live(w) -> S] /\ \A x, y \in Live(w) : f[x] = f[y] => x = y
        /\ \A t \in S : \E x \in Live(w) : f[x] = t
    BY <1>8, BijectionIs
  <1>10. \A i \in Live(o) : i \in Live(w) /\ f[i] \in Passed /\ f[i] \in S /\ f[i].age = w[i]
                            /\ f[i].age + 1 < Window
    BY <1>7, <1>8, <1>9
  <1>11. g \in [Live(o) -> T] /\ \A i \in Live(o) : g[i] = Plus(f[i])
    <2>1. \A i \in Live(o) : Plus(f[i]) \in T
      BY <1>10 DEF Aged
    <2> HIDE DEF T
    <2> QED BY <2>1
  <1> HIDE DEF g
  <1>12. \A x, y \in Live(o) : g[x] = g[y] => x = y
    BY <1>9, <1>10, <1>11, PlusIs
  <1>13. \A t \in T : \E x \in Live(o) : g[x] = t
    <2> SUFFICES ASSUME NEW t \in T PROVE \E x \in Live(o) : g[x] = t
      OBVIOUS
    <2>1. PICK p \in S : p.age + 1 < Window /\ t = Plus(p)
      BY DEF Aged
    <2>2. PICK x \in Live(w) : f[x] = p
      BY <1>9
    <2> QED BY <1>7, <1>8, <1>11, <2>1, <2>2
  <1>14. g \in Bijection(Live(o), T)
    <2> HIDE DEF T
    <2> QED BY <1>11, <1>12, <1>13, Bijections
  <1>15. \A i \in Live(o) : g[i].age = o[i]
    <2> SUFFICES ASSUME NEW i \in Live(o) PROVE g[i].age = o[i]
      OBVIOUS
    <2>1. g[i].age = w[i] + 1
      BY <1>10, <1>11, PlusIs
    <2>2. i \in 1 .. n /\ w[i] < Window
      BY <1>10 DEF Live, n
    <2> QED BY <1>4, <2>1, <2>2
  <1>16. Records(o, T)
    BY <1>14, <1>15 DEF Records
  <1> QED BY <1>5, <1>6, <1>16 DEF Faithful, o, n

LEMMA AgedFewer ==
    ASSUME NEW S, IsFiniteSet(S)
    PROVE  IsFiniteSet(Aged(S)) /\ Cardinality(Aged(S)) <= Cardinality(S)
  <1> DEFINE Q == {q \in S : q.age + 1 < Window}
             f == [q \in Q |-> Plus(q)]
             T == Aged(S)
  <1>1. IsFiniteSet(Q) /\ Cardinality(Q) <= Cardinality(S)
    <2>1. Q \in SUBSET S
      OBVIOUS
    <2> HIDE DEF Q
    <2> QED BY <2>1, FS_Subset
  <1>2. T = {Plus(q) : q \in Q}
    BY DEF Aged
  <1> HIDE DEF T, Q
  <1>3. f \in Surjection(Q, T)
    BY <1>2 DEF Surjection
  <1> HIDE DEF f
  <1>4. IsFiniteSet(T) /\ Cardinality(T) <= Cardinality(Q)
    BY <1>1, <1>3, FS_Surjection
  <1>5. Cardinality(T) \in Nat /\ Cardinality(Q) \in Nat /\ Cardinality(S) \in Nat
    BY <1>1, <1>4, FS_CardinalityType
  <1> QED BY <1>1, <1>4, <1>5 DEF T

\* The first entry of a pruned log is its oldest search.
LEMMA FirstIsOldest ==
    ASSUME NEW v, NEW S, Faithful(v, S), AllLive(v), S # {}
    PROVE  /\ v # << >> /\ v[1] \in Nat /\ v[1] < Window
           /\ Max({0} \cup {p.age : p \in S}) = v[1]
  <1> DEFINE M == {0} \cup {p.age : p \in S}
  <1>1. v \in Seq(Age) /\ InOrder(v) /\ Records(v, S)
    BY DEF Faithful
  <1>2. Len(v) \in Nat /\ \A i \in 1 .. Len(v) : v[i] \in Nat /\ v[i] < Window
    BY <1>1, EntriesAreAges DEF AllLive
  <1>3. Live(v) = 1 .. Len(v)
    BY DEF Live, AllLive
  <1>4. PICK f \in Bijection(Live(v), S) : \A i \in Live(v) : f[i].age = v[i]
    BY <1>1 DEF Records
  <1>5. /\ f \in [Live(v) -> S] /\ \A t \in S : \E x \in Live(v) : f[x] = t
    BY <1>4, BijectionIs
  <1>6. Len(v) > 0 /\ v # << >> /\ 1 \in Live(v)
    <2>1. PICK x \in Live(v) : TRUE
      BY <1>5
    <2> QED BY <1>1, <1>2, <1>3, <2>1
  <1>7. v[1] \in M
    BY <1>4, <1>5, <1>6
  <1>8. \A m \in M : v[1] >= m /\ m \in Nat
    <2>1. \A p \in S : v[1] >= p.age /\ p.age \in Nat
      <3> SUFFICES ASSUME NEW p \in S PROVE v[1] >= p.age /\ p.age \in Nat
        OBVIOUS
      <3>1. PICK i \in 1 .. Len(v) : f[i] = p
        BY <1>3, <1>5
      <3>2. p.age = v[i] /\ v[i] \in Nat /\ v[1] \in Nat
        BY <1>2, <1>3, <1>4, <1>6, <3>1
      <3>3. i = 1 \/ v[1] >= v[i]
        BY <1>1, <1>2, <1>6 DEF InOrder
      <3> QED BY <3>2, <3>3
    <2> QED BY <1>2, <1>3, <1>6, <2>1
  <1> HIDE DEF M
  <1>9. Max(M) \in M /\ \A m \in M : Max(M) >= m
    BY <1>7, <1>8 DEF Max
  <1>10. Max(M) = v[1]
    <2>1. Max(M) >= v[1] /\ v[1] >= Max(M) /\ Max(M) \in Nat /\ v[1] \in Nat
      BY <1>7, <1>8, <1>9
    <2> QED BY <2>1
  <1> QED BY <1>2, <1>3, <1>6, <1>10 DEF M

-----------------------------------------------------------------------------
(* The inductive invariant: every log is faithful to its searches, and the searches of
   one user, mode and instant are numbered, so that the next one is not among them. *)

LogsFaithful ==
    /\ Faithful(global, OnSite)
    /\ \A u \in User : /\ Faithful(users[u], OfUser(u, "shared"))
                       /\ Faithful(userTokens[u], OfUser(u, "user"))

Numbered == \A p \in passed : p.age = 0 => p.nth < Cardinality(JustNow(p.user, p.mode))

LocalsFit ==
    \A s \in Search : /\ ~At(s, "idle") => req[s].user \in User
                      /\ At(s, "limit") => req[s].mode \in {"user", "shared"}

IInv == TypeOK /\ LocalsFit /\ LogsFaithful /\ Numbered

LEMMA InitInv == Init => IInv
  <1> SUFFICES ASSUME Init PROVE IInv
    OBVIOUS
  <1>1. << >> \in Seq(Age) /\ Live(<< >>) = {} /\ InOrder(<< >>)
    BY DEF Live, InOrder
  <1>2. Faithful(<< >>, {})
    <2> DEFINE f == [x \in {} |-> x]
    <2>1. f \in [{} -> {}]
      OBVIOUS
    <2> HIDE DEF f
    <2>2. f \in Bijection({}, {})
      BY <2>1, Bijections
    <2>3. Records(<< >>, {})
      BY <1>1, <2>2 DEF Records
    <2> QED BY <1>1, <2>3 DEF Faithful
  <1>3. passed = {} /\ OnSite = {} /\ \A u, m : OfUser(u, m) = {}
    BY DEF Init, OnSite, OfUser
  <1>4. LogsFaithful
    BY <1>2, <1>3 DEF Init, LimiterInit, LogsFaithful
  <1>5. Numbered
    BY <1>3 DEF Numbered
  <1>6. LocalsFit
    BY DEF LocalsFit, Init, NoReq, At
  <1>7. TypeOK
    <2>1. NoReq \in Req
      BY DEF NoReq, Req, PC, Mode, Scope
    <2>2. LimiterTypeOK
      BY <1>1, RateLimiterAssumption DEF Init, LimiterInit, LimiterTypeOK
    <2> QED BY <1>3, <2>1, <2>2 DEF Init, TypeOK
  <1> QED BY <1>4, <1>5, <1>6, <1>7 DEF IInv

-----------------------------------------------------------------------------
(* A search is let through. *)

New(u, mode) == [user |-> u, mode |-> mode, age |-> 0, nth |-> Cardinality(JustNow(u, mode))]
Admits(u, mode) == passed' = passed \cup {New(u, mode)}

\* What a step that admits New(u, mode) does to the sets the properties count.
Admitted(u, mode) ==
    /\ New(u, mode).age = 0 /\ New(u, mode) \notin passed
    /\ passed' \in SUBSET Passed /\ Numbered'
    /\ OfUser(u, mode)' = OfUser(u, mode) \cup {New(u, mode)}
    /\ \A v, m : v # u \/ m # mode => OfUser(v, m)' = OfUser(v, m)
    /\ OnSite' = IF mode = "shared" THEN OnSite \cup {New(u, mode)} ELSE OnSite

LEMMA NewIsNew ==
    ASSUME IInv, NEW u \in User, NEW mode \in {"user", "shared"}, Admits(u, mode)
    PROVE  Admitted(u, mode)
  <1> DEFINE new == New(u, mode)
             J == JustNow(u, mode)
             S == OfUser(u, mode)
  <1>1. passed \in SUBSET Passed /\ passed' = passed \cup {new}
    BY DEF IInv, TypeOK, Admits
  <1>2. IsFiniteSet(S)
    <2>1. \E w : Faithful(w, S)
      BY DEF IInv, LogsFaithful
    <2>2. PICK w : Faithful(w, S)
      BY <2>1
    <2> HIDE DEF S
    <2> QED BY <2>2, PruneFaithful, PrunedCounts
  <1>3. IsFiniteSet(J) /\ Cardinality(J) \in Nat
    <2>1. J \in SUBSET S
      BY DEF JustNow, OfUser
    <2> HIDE DEF J, S
    <2> QED BY <1>2, <2>1, FS_Subset, FS_CardinalityType
  <1>4. /\ new.user = u /\ new.mode = mode /\ new.age = 0 /\ new.nth = Cardinality(J)
        /\ new \in Passed
    BY <1>3, RateLimiterAssumption DEF New, Passed, Mode, Age
  <1> HIDE DEF new
  <1>5. new \notin passed
    <2> SUFFICES ASSUME new \in passed PROVE FALSE
      OBVIOUS
    <2>1. new.nth < Cardinality(J)
      BY <1>4 DEF IInv, Numbered
    <2> HIDE DEF J
    <2> QED BY <1>3, <1>4, <2>1
  <1>6. /\ OfUser(u, mode)' = S \cup {new}
        /\ \A v, m : v # u \/ m # mode => OfUser(v, m)' = OfUser(v, m)
        /\ OnSite' = IF mode = "shared" THEN OnSite \cup {new} ELSE OnSite
    BY <1>1, <1>4 DEF OfUser, OnSite
  <1>7. J' = J \cup {new} /\ \A v, m : v # u \/ m # mode => JustNow(v, m)' = JustNow(v, m)
    BY <1>1, <1>4 DEF JustNow
  <1>8. Cardinality(J') = Cardinality(J) + 1
    <2>1. new \notin J
      BY <1>5 DEF JustNow
    <2> HIDE DEF J
    <2> QED BY <1>3, <1>7, <2>1, FS_AddElement
  <1>9. Numbered'
    <2> SUFFICES ASSUME NEW p \in passed', p.age = 0
                 PROVE  p.nth < Cardinality(JustNow(p.user, p.mode)')
      BY DEF Numbered
    <2>1. CASE p = new
      BY <1>3, <1>4, <1>8, <2>1
    <2>2. CASE p \in passed
      <3>1. p.nth < Cardinality(JustNow(p.user, p.mode)) /\ p.nth \in Nat
        BY <1>1, <2>2 DEF IInv, Numbered, Passed
      <3>2. CASE p.user = u /\ p.mode = mode
        <4>1. p.nth < Cardinality(J) /\ JustNow(p.user, p.mode)' = J'
          BY <3>1, <3>2
        <4> HIDE DEF J
        <4> QED BY <1>3, <1>8, <3>1, <4>1
      <3>3. CASE p.user # u \/ p.mode # mode
        BY <1>7, <3>1, <3>3
      <3> QED BY <3>2, <3>3
    <2> QED BY <1>1, <2>1, <2>2
  <1>10. passed' \in SUBSET Passed
    BY <1>1, <1>4
  <1> QED BY <1>4, <1>5, <1>6, <1>9, <1>10 DEF Admitted, new

LEMMA SharedVerdictIs ==
    ASSUME NEW u, Len(Prune(global)) \in Nat, Len(Prune(users[u])) \in Nat
    PROVE  \/ /\ Len(Prune(global)) >= GlobalLimit
              /\ SharedVerdict(u) = [scope |-> "global", retry |-> RetryAfter(Prune(global))]
           \/ /\ Len(Prune(global)) < GlobalLimit /\ Len(Prune(users[u])) >= UserLimit
              /\ SharedVerdict(u) = [scope |-> "user", retry |-> RetryAfter(Prune(users[u]))]
           \/ /\ Len(Prune(global)) < GlobalLimit /\ Len(Prune(users[u])) < UserLimit
              /\ SharedVerdict(u) = [scope |-> "pass", retry |-> 0]
  <1> DEFINE g == Len(Prune(global))
             k == Len(Prune(users[u]))
  <1>1. SharedVerdict(u) =
            CASE g >= GlobalLimit -> [scope |-> "global", retry |-> RetryAfter(Prune(global))]
              [] g < GlobalLimit /\ k >= UserLimit ->
                     [scope |-> "user", retry |-> RetryAfter(Prune(users[u]))]
              [] OTHER -> [scope |-> "pass", retry |-> 0]
    BY DEF SharedVerdict
  <1>2. g \in Nat /\ k \in Nat /\ GlobalLimit \in Nat /\ UserLimit \in Nat
    BY RateLimiterAssumption
  <1> HIDE DEF g, k
  <1>3. CASE g >= GlobalLimit
    BY <1>1, <1>2, <1>3 DEF g
  <1>4. CASE g < GlobalLimit /\ k >= UserLimit
    BY <1>1, <1>2, <1>4 DEF g, k
  <1>5. CASE g < GlobalLimit /\ k < UserLimit
    BY <1>1, <1>2, <1>5 DEF g, k
  <1> QED BY <1>2, <1>3, <1>4, <1>5

-----------------------------------------------------------------------------
(* The check of the limiter. *)

LEMMA LogPruned ==
    ASSUME NEW w, NEW S, Faithful(w, S)
    PROVE  /\ Faithful(Prune(w), S) /\ Prune(w) \in Seq(Age) /\ Len(Prune(w)) \in Nat
           /\ IsFiniteSet(S) /\ Cardinality(S) = Len(Prune(w))
           /\ \A n \in Nat : Len(w) <= n => Len(Prune(w)) <= n
  <1>1. Faithful(Prune(w), S) /\ AllLive(Prune(w))
    BY PruneFaithful
  <1>2. Prune(w) \in Seq(Age) /\ Len(Prune(w)) \in Nat
    BY <1>1 DEF Faithful
  <1>3. \E k \in 0 .. Len(w) : Len(Prune(w)) = Len(w) - k
    BY PruneCuts DEF Faithful
  <1>4. Len(w) \in Nat
    BY DEF Faithful
  <1>5. \A n \in Nat : Len(w) <= n => Len(Prune(w)) <= n
    BY <1>2, <1>3, <1>4
  <1> QED BY <1>1, <1>2, <1>5, PrunedCounts

LEMMA LogAdmits ==
    ASSUME NEW w, NEW S, Faithful(w, S), NEW new, new \notin S, new.age = 0
    PROVE  /\ Faithful(Append(Prune(w), 0), S \cup {new}) /\ Append(Prune(w), 0) \in Seq(Age)
           /\ Len(Append(Prune(w), 0)) = Len(Prune(w)) + 1
           /\ Cardinality(S \cup {new}) = Len(Prune(w)) + 1
  <1>1. Faithful(Prune(w), S) /\ AllLive(Prune(w))
    BY PruneFaithful
  <1>2. Faithful(Append(Prune(w), 0), S \cup {new})
    BY <1>1, AppendFaithful
  <1>3. IsFiniteSet(S) /\ Cardinality(S) = Len(Prune(w))
    BY <1>1, PrunedCounts
  <1>4. Len(Append(Prune(w), 0)) = Len(Prune(w)) + 1
    BY <1>1 DEF Faithful
  <1> QED BY <1>2, <1>3, <1>4, FS_AddElement DEF Faithful

Limiter == LimiterTypeOK /\ LogsFaithful /\ Numbered /\ passed \in SUBSET Passed

\* The user's own log.
LEMMA TokenChecked ==
    ASSUME IInv, NEW u \in User, CheckUserToken(u),
           IF TokenVerdict(u).scope = "pass" THEN Admits(u, "user") ELSE UNCHANGED passed
    PROVE  Limiter' /\ (Budget => Budget')
  <1> DEFINE w == userTokens[u]
             S == OfUser(u, "user")
  <1>1. /\ Faithful(global, OnSite) /\ Faithful(w, S)
        /\ \A v \in User : /\ Faithful(users[v], OfUser(v, "shared"))
                           /\ Faithful(userTokens[v], OfUser(v, "user"))
    BY DEF IInv, LogsFaithful
  <1>2. LimiterTypeOK /\ passed \in SUBSET Passed /\ Numbered
    BY DEF IInv, TypeOK
  <1>3. UNCHANGED <<global, users>>
    BY DEF CheckUserToken
  <1>4. TokenLimit \in Nat
    BY RateLimiterAssumption
  <1>5. CASE TokenVerdict(u).scope = "pass"
    <2>1. Admitted(u, "user") /\ New(u, "user") \notin S
      <3>1. Admits(u, "user")
        BY <1>5
      <3>2. Admitted(u, "user")
        BY <3>1, NewIsNew
      <3> QED BY <3>2 DEF Admitted, OfUser
    <2>2. Len(Prune(w)) < TokenLimit
      BY <1>1, <1>4, <1>5, LogPruned DEF TokenVerdict
    <2>3. userTokens' = [userTokens EXCEPT ![u] = Append(Prune(@), 0)]
      BY <1>5 DEF CheckUserToken
    <2>4. /\ Faithful(Append(Prune(w), 0), S') /\ Append(Prune(w), 0) \in Seq(Age)
          /\ Cardinality(S') = Len(Prune(w)) + 1
          /\ Len(Append(Prune(w), 0)) = Len(Prune(w)) + 1
      <3>1. S' = S \cup {New(u, "user")} /\ New(u, "user").age = 0
        BY <2>1 DEF Admitted
      <3> HIDE DEF w, S
      <3> QED BY <1>1, <2>1, <3>1, LogAdmits
    <2>5. /\ LimiterTypeOK' /\ userTokens'[u] = Append(Prune(w), 0)
          /\ \A v \in User : v # u => userTokens'[v] = userTokens[v]
      <3>1. Len(Append(Prune(w), 0)) <= TokenLimit
        BY <1>1, <1>4, <2>2, <2>4, LogPruned
      <3> DEFINE a == Append(Prune(w), 0)
      <3>2. a \in Seq(Age) /\ Len(a) <= TokenLimit
        BY <2>4, <3>1
      <3>3. userTokens' = [userTokens EXCEPT ![u] = a]
        BY <2>3
      <3> HIDE DEF a
      <3>4. /\ LimiterTypeOK' /\ userTokens'[u] = a
            /\ \A v \in User : v # u => userTokens'[v] = userTokens[v]
        BY <1>2, <1>3, <3>2, <3>3 DEF LimiterTypeOK
      <3> QED BY <3>4 DEF a
    <2>6. /\ OnSite' = OnSite /\ \A v \in User : OfUser(v, "shared")' = OfUser(v, "shared")
          /\ \A v \in User : v # u => OfUser(v, "user")' = OfUser(v, "user")
      BY <2>1 DEF Admitted
    <2>7. LogsFaithful'
      BY <1>1, <1>3, <2>4, <2>5, <2>6 DEF LogsFaithful
    <2>8. Budget => Budget'
      <3>1. Cardinality(S') <= TokenLimit
        BY <1>1, <1>4, <2>2, <2>4, LogPruned
      <3> QED BY <2>6, <3>1 DEF Budget
    <2> QED BY <2>1, <2>5, <2>7, <2>8 DEF Limiter, Admitted
  <1>6. CASE TokenVerdict(u).scope # "pass"
    <2>1. UNCHANGED passed /\ userTokens' = [userTokens EXCEPT ![u] = Prune(@)]
      BY <1>6 DEF CheckUserToken
    <2>2. Faithful(Prune(w), S) /\ Prune(w) \in Seq(Age) /\ Len(Prune(w)) <= TokenLimit
      BY <1>1, <1>2, <1>4, LogPruned DEF LimiterTypeOK
    <2>3. /\ LimiterTypeOK' /\ userTokens'[u] = Prune(w)
          /\ \A v \in User : v # u => userTokens'[v] = userTokens[v]
      BY <1>2, <1>3, <2>1, <2>2 DEF LimiterTypeOK
    <2>4. /\ OnSite' = OnSite /\ \A v, m : OfUser(v, m)' = OfUser(v, m)
          /\ Numbered'
      BY <1>2, <2>1 DEF OnSite, OfUser, Numbered, JustNow
    <2>5. LogsFaithful'
      BY <1>1, <1>3, <2>2, <2>3, <2>4 DEF LogsFaithful
    <2> QED BY <1>2, <2>1, <2>3, <2>4, <2>5 DEF Limiter, Budget
  <1> QED BY <1>5, <1>6

\* The site's log and the user's on the site's token.
LEMMA SharedChecked ==
    ASSUME IInv, NEW u \in User, CheckShared(u),
           IF SharedVerdict(u).scope = "pass" THEN Admits(u, "shared") ELSE UNCHANGED passed
    PROVE  Limiter' /\ (Budget => Budget')
  <1> DEFINE w == users[u]
             S == OfUser(u, "shared")
  <1>1. /\ Faithful(global, OnSite) /\ Faithful(w, S)
        /\ \A v \in User : /\ Faithful(users[v], OfUser(v, "shared"))
                           /\ Faithful(userTokens[v], OfUser(v, "user"))
    BY DEF IInv, LogsFaithful
  <1>2. LimiterTypeOK /\ passed \in SUBSET Passed /\ Numbered
    BY DEF IInv, TypeOK
  <1>3. UNCHANGED userTokens
    BY DEF CheckShared
  <1>4. GlobalLimit \in Nat /\ UserLimit \in Nat
    BY RateLimiterAssumption
  <1>5. /\ Faithful(Prune(global), OnSite) /\ Prune(global) \in Seq(Age) /\ Len(Prune(global)) \in Nat
        /\ Faithful(Prune(w), S) /\ Prune(w) \in Seq(Age) /\ Len(Prune(w)) \in Nat
        /\ Len(Prune(global)) <= GlobalLimit /\ Len(Prune(w)) <= UserLimit
    BY <1>1, <1>2, <1>4, LogPruned DEF LimiterTypeOK
  <1>6. CASE SharedVerdict(u).scope = "pass"
    <2>1. Admitted(u, "shared") /\ New(u, "shared") \notin S /\ New(u, "shared") \notin OnSite
      <3>1. Admits(u, "shared")
        BY <1>6
      <3>2. Admitted(u, "shared")
        BY <3>1, NewIsNew
      <3> QED BY <3>2 DEF Admitted, OfUser, OnSite
    <2>2. Len(Prune(global)) < GlobalLimit /\ Len(Prune(w)) < UserLimit
      BY <1>5, <1>6, SharedVerdictIs
    <2>3. /\ users' = [users EXCEPT ![u] = Append(Prune(@), 0)]
          /\ global' = Append(Prune(global), 0)
      BY <1>6 DEF CheckShared
    <2>4. /\ Faithful(Append(Prune(w), 0), S') /\ Append(Prune(w), 0) \in Seq(Age)
          /\ Cardinality(S') = Len(Prune(w)) + 1
          /\ Faithful(Append(Prune(global), 0), OnSite') /\ Append(Prune(global), 0) \in Seq(Age)
          /\ Cardinality(OnSite') = Len(Prune(global)) + 1
          /\ Len(Append(Prune(w), 0)) = Len(Prune(w)) + 1
          /\ Len(Append(Prune(global), 0)) = Len(Prune(global)) + 1
      <3>1. /\ S' = S \cup {New(u, "shared")} /\ New(u, "shared").age = 0
            /\ OnSite' = OnSite \cup {New(u, "shared")}
        BY <2>1 DEF Admitted
      <3> HIDE DEF w, S
      <3> QED BY <1>1, <2>1, <3>1, LogAdmits
    <2>5. /\ LimiterTypeOK' /\ users'[u] = Append(Prune(w), 0)
          /\ \A v \in User : v # u => users'[v] = users[v]
      <3> DEFINE a == Append(Prune(w), 0)
                 g == Append(Prune(global), 0)
      <3>1. a \in Seq(Age) /\ Len(a) <= UserLimit /\ g \in Seq(Age) /\ Len(g) <= GlobalLimit
        BY <1>4, <1>5, <2>2, <2>4
      <3>2. users' = [users EXCEPT ![u] = a] /\ global' = g
        BY <2>3
      <3> HIDE DEF a, g
      <3>3. /\ LimiterTypeOK' /\ users'[u] = a
            /\ \A v \in User : v # u => users'[v] = users[v]
        BY <1>2, <1>3, <3>1, <3>2 DEF LimiterTypeOK
      <3> QED BY <3>3 DEF a
    <2>6. /\ \A v \in User : OfUser(v, "user")' = OfUser(v, "user")
          /\ \A v \in User : v # u => OfUser(v, "shared")' = OfUser(v, "shared")
      BY <2>1 DEF Admitted
    <2>7. LogsFaithful'
      BY <1>1, <1>3, <2>3, <2>4, <2>5, <2>6 DEF LogsFaithful
    <2>8. Budget => Budget'
      <3>1. Cardinality(S') <= UserLimit /\ Cardinality(OnSite') <= GlobalLimit
        BY <1>4, <1>5, <2>2, <2>4
      <3> QED BY <2>6, <3>1 DEF Budget
    <2> QED BY <2>1, <2>5, <2>7, <2>8 DEF Limiter, Admitted
  <1>7. CASE SharedVerdict(u).scope # "pass"
    <2>1. UNCHANGED passed /\ global' = Prune(global)
      BY <1>7 DEF CheckShared
    <2>2. UNCHANGED users \/ users' = [users EXCEPT ![u] = Prune(@)]
      <3>1. SharedVerdict(u).scope \in {"global", "user"}
        BY <1>5, <1>7, SharedVerdictIs
      <3>2. CASE SharedVerdict(u).scope = "global"
        BY <3>2 DEF CheckShared
      <3>3. CASE SharedVerdict(u).scope = "user"
        BY <3>3 DEF CheckShared
      <3> QED BY <3>1, <3>2, <3>3
    <2>3. /\ LimiterTypeOK' /\ users'[u] \in {w, Prune(w)}
          /\ \A v \in User : v # u => users'[v] = users[v]
      BY <1>2, <1>3, <1>5, <2>1, <2>2 DEF LimiterTypeOK
    <2>4. /\ OnSite' = OnSite /\ \A v, m : OfUser(v, m)' = OfUser(v, m)
          /\ Numbered'
      BY <1>2, <2>1 DEF OnSite, OfUser, Numbered, JustNow
    <2>5. LogsFaithful'
      BY <1>1, <1>3, <1>5, <2>1, <2>3, <2>4 DEF LogsFaithful
    <2> QED BY <1>2, <2>1, <2>3, <2>4, <2>5 DEF Limiter, Budget
  <1> QED BY <1>6, <1>7

LEMMA Ticked ==
    ASSUME IInv, Tick
    PROVE  Limiter' /\ (Budget => Budget')
  <1>1. /\ Faithful(global, OnSite)
        /\ \A v \in User : /\ Faithful(users[v], OfUser(v, "shared"))
                           /\ Faithful(userTokens[v], OfUser(v, "user"))
    BY DEF IInv, LogsFaithful
  <1>2. passed \in SUBSET Passed /\ LimiterTypeOK
    BY DEF IInv, TypeOK
  <1>3. passed' = Aged(passed)
    BY DEF Tick, Aged, Plus
  <1>4. \A p \in passed' : p \in Passed /\ p.age # 0
    <2> SUFFICES ASSUME NEW p \in passed' PROVE p \in Passed /\ p.age # 0
      OBVIOUS
    <2>1. PICK q \in passed : q.age + 1 < Window /\ p = Plus(q)
      BY <1>3 DEF Aged
    <2> QED BY <1>2, <2>1, PlusIs
  <1>5. Numbered'
    BY <1>4 DEF Numbered
  <1>6. OnSite' = Aged(OnSite) /\ \A u, m : OfUser(u, m)' = Aged(OfUser(u, m))
    <2>1. OnSite' = Aged(OnSite)
      BY <1>2, <1>3, PlusIs DEF OnSite, Aged
    <2>2. ASSUME NEW u, NEW m PROVE OfUser(u, m)' = Aged(OfUser(u, m))
      BY <1>2, <1>3, PlusIs DEF OfUser, Aged
    <2> QED BY <2>1, <2>2
  <1>7. /\ global' = Older(global)
        /\ users' = [u \in User |-> Older(users[u])]
        /\ userTokens' = [u \in User |-> Older(userTokens[u])]
    BY DEF Tick, ClockTick
  <1>8. /\ Faithful(Older(global), Aged(OnSite))
        /\ \A v \in User : /\ Faithful(Older(users[v]), Aged(OfUser(v, "shared")))
                           /\ Faithful(Older(userTokens[v]), Aged(OfUser(v, "user")))
        /\ Len(Older(global)) = Len(global)
        /\ \A v \in User : /\ Len(Older(users[v])) = Len(users[v])
                           /\ Len(Older(userTokens[v])) = Len(userTokens[v])
    <2>1. OnSite \in SUBSET Passed /\ \A u, m : OfUser(u, m) \in SUBSET Passed
      BY <1>2 DEF OnSite, OfUser
    <2> QED BY <1>1, <2>1, OlderFaithful
  <1>9. LogsFaithful'
    BY <1>6, <1>7, <1>8 DEF LogsFaithful
  <1>10. LimiterTypeOK'
    <2>1. /\ Older(global) \in Seq(Age)
          /\ \A v \in User : Older(users[v]) \in Seq(Age) /\ Older(userTokens[v]) \in Seq(Age)
      BY <1>8 DEF Faithful
    <2>2. /\ Len(Older(global)) <= GlobalLimit
          /\ \A v \in User : /\ Len(Older(users[v])) <= UserLimit
                             /\ Len(Older(userTokens[v])) <= TokenLimit
      BY <1>2, <1>8 DEF LimiterTypeOK
    <2> QED BY <1>7, <2>1, <2>2 DEF LimiterTypeOK
  <1>11. Budget => Budget'
    <2> SUFFICES ASSUME Budget PROVE Budget'
      OBVIOUS
    <2>1. ASSUME NEW S, NEW w, Faithful(w, S), NEW n \in Nat, Cardinality(S) <= n
          PROVE  Cardinality(Aged(S)) <= n
      <3>1. IsFiniteSet(S) /\ IsFiniteSet(Aged(S)) /\ Cardinality(Aged(S)) <= Cardinality(S)
        BY <2>1, LogPruned, AgedFewer
      <3>2. Cardinality(S) \in Nat /\ Cardinality(Aged(S)) \in Nat
        BY <3>1, FS_CardinalityType
      <3> QED BY <2>1, <3>1, <3>2
    <2>2. GlobalLimit \in Nat /\ UserLimit \in Nat /\ TokenLimit \in Nat
      BY RateLimiterAssumption
    <2>3. Cardinality(Aged(OnSite)) <= GlobalLimit
      BY <1>1, <2>1, <2>2 DEF Budget
    <2>4. ASSUME NEW u \in User
          PROVE  /\ Cardinality(Aged(OfUser(u, "shared"))) <= UserLimit
                 /\ Cardinality(Aged(OfUser(u, "user"))) <= TokenLimit
      BY <1>1, <2>1, <2>2 DEF Budget
    <2> QED BY <1>6, <2>3, <2>4 DEF Budget
  <1>12. passed' \in SUBSET Passed
    BY <1>4
  <1> QED BY <1>5, <1>9, <1>10, <1>11, <1>12 DEF Limiter

-----------------------------------------------------------------------------
(* The handler. *)

LEMMA RetryAfterIs ==
    ASSUME NEW w \in Seq(Age)
    PROVE  RetryAfter(w) \in Nat
  <1>1. CASE w = << >>
    BY <1>1 DEF RetryAfter
  <1>2. CASE w # << >>
    <2> DEFINE left == (Window - w[1]) \div Second
    <2>1. w[1] \in Int /\ Window \in Int /\ Second \in Nat \ {0}
      <3>1. 1 \in 1 .. Len(w)
        BY <1>2
      <3> QED BY <3>1, EntriesAreAges, RateLimiterAssumption
    <2>2. left \in Int
      BY <2>1
    <2>3. RetryAfter(w) = IF left > 1 THEN left ELSE 1
      BY <1>2 DEF RetryAfter
    <2> HIDE DEF left
    <2> QED BY <2>2, <2>3
  <1> QED BY <1>1, <1>2

\* What a check of the limiter answers, whichever log decides.
LEMMA Verdicts ==
    ASSUME IInv, NEW u \in User, NEW v, v \in {SharedVerdict(u), TokenVerdict(u)}
    PROVE  v = [scope |-> v.scope, retry |-> v.retry] /\ v.retry \in Nat /\ v.scope \in {"pass", "global", "user"}
  <1>1. /\ Prune(global) \in Seq(Age) /\ Prune(users[u]) \in Seq(Age) /\ Prune(userTokens[u]) \in Seq(Age)
        /\ Len(Prune(global)) \in Nat /\ Len(Prune(users[u])) \in Nat
    BY LogPruned DEF IInv, LogsFaithful
  <1>2. CASE v = SharedVerdict(u)
    BY <1>1, <1>2, SharedVerdictIs, RetryAfterIs
  <1>3. CASE v = TokenVerdict(u)
    BY <1>1, <1>3, RetryAfterIs DEF TokenVerdict
  <1> QED BY <1>2, <1>3

Requests == req \in [Search -> Req] /\ LocalsFit

LEMMA RequestSet ==
    ASSUME Requests, NEW s \in Search, NEW r \in Req, req' = [req EXCEPT ![s] = r],
           r.pc # "idle" => r.user \in User,
           r.pc = "limit" => r.mode \in {"user", "shared"}
    PROVE  Requests'
  BY DEF Requests, LocalsFit, At

LEMMA NoReqIs == NoReq \in Req /\ NoReq.pc = "idle"
  BY DEF NoReq, Req, PC, Mode, Scope

LEMMA Finished ==
    ASSUME Requests, NEW s \in Search, Finish(s)
    PROVE  Requests'
  BY RequestSet, NoReqIs DEF Finish

LEMMA Moved ==
    ASSUME Requests, NEW s \in Search, ~At(s, "idle"), NEW pc \in PC \ {"limit"}, Goto(s, pc)
    PROVE  Requests'
  <1> DEFINE r == [req[s] EXCEPT !.pc = pc]
  <1>1. req[s] \in Req /\ req[s].user \in User
    BY DEF Requests, LocalsFit
  <1>2. r \in Req /\ r.pc = pc /\ r.user = req[s].user
    BY <1>1 DEF Req
  <1>3. req' = [req EXCEPT ![s] = r]
    BY DEF Goto
  <1> HIDE DEF r
  <1> QED BY <1>1, <1>2, <1>3, RequestSet

LEMMA Resolved ==
    ASSUME Requests, NEW s \in Search, At(s, "resolve"), NEW mode \in {"user", "shared"},
           req' = [req EXCEPT ![s].pc = "limit", ![s].mode = mode]
    PROVE  Requests'
  <1> DEFINE r == [req[s] EXCEPT !.pc = "limit", !.mode = mode]
  <1>1. req[s] \in Req /\ req[s].user \in User
    BY DEF Requests, LocalsFit, At
  <1>2. r \in Req /\ r.pc = "limit" /\ r.user = req[s].user /\ r.mode = mode
    BY <1>1 DEF Req, PC, Mode
  <1>3. req' = [req EXCEPT ![s] = r]
    BY DEF Requests
  <1> HIDE DEF r
  <1> QED BY <1>1, <1>2, <1>3, RequestSet

\* CheckLimit as one of two cases, the user's token and the site's.
LEMMA CheckLimitIs ==
    ASSUME IInv, NEW s \in Search, CheckLimit(s)
    PROVE  /\ Requests' /\ UNCHANGED ownToken
           /\ Limiter' /\ (Budget => Budget')
  <1> DEFINE u == req[s].user
             mode == req[s].mode
             verdict == IF mode = "user" THEN TokenVerdict(u) ELSE SharedVerdict(u)
  <1>1. Requests /\ At(s, "limit") /\ req[s] \in Req /\ u \in User /\ mode \in {"user", "shared"}
    BY DEF IInv, TypeOK, Requests, CheckLimit, LocalsFit, At
  <1>2. IF mode = "user" THEN CheckUserToken(u) ELSE CheckShared(u)
    BY DEF CheckLimit
  <1>3. IF verdict.scope = "pass"
        THEN Goto(s, "call") /\ Admits(u, mode)
        ELSE /\ req' = [req EXCEPT ![s].pc = "refused",
                                   ![s].scope = verdict.scope, ![s].retry = verdict.retry]
             /\ UNCHANGED passed
    BY DEF CheckLimit, Admits, New
  <1>4. verdict.retry \in Nat /\ verdict.scope \in {"pass", "global", "user"}
    BY <1>1, Verdicts
  <1> HIDE DEF verdict
  <1>5. Requests'
    <2>1. CASE verdict.scope = "pass"
      BY <1>1, <1>3, <2>1, Moved DEF At, PC
    <2>2. CASE verdict.scope # "pass"
      <3> DEFINE r == [req[s] EXCEPT !.pc = "refused", !.scope = verdict.scope, !.retry = verdict.retry]
      <3>1. req' = [req EXCEPT ![s] = r]
        BY <1>1, <1>3, <2>2 DEF Requests
      <3>2. r \in Req /\ r.pc = "refused" /\ r.user = u
        BY <1>1, <1>4, <2>2 DEF Req, PC, Scope
      <3> HIDE DEF r
      <3> QED BY <1>1, <3>1, <3>2, RequestSet
    <2> QED BY <2>1, <2>2
  <1>6. Limiter' /\ (Budget => Budget')
    <2>1. CASE mode = "user"
      <3>1. IF TokenVerdict(u).scope = "pass" THEN Admits(u, "user") ELSE UNCHANGED passed
        BY <1>3, <2>1 DEF verdict
      <3> QED BY <1>1, <1>2, <2>1, <3>1, TokenChecked
    <2>2. CASE mode = "shared"
      <3>1. IF SharedVerdict(u).scope = "pass" THEN Admits(u, "shared") ELSE UNCHANGED passed
        BY <1>3, <2>2 DEF verdict
      <3> QED BY <1>1, <1>2, <2>2, <3>1, SharedChecked
    <2> QED BY <1>1, <2>1, <2>2
  <1> QED BY <1>5, <1>6 DEF CheckLimit

LEMMA LimiterStays ==
    ASSUME IInv, UNCHANGED <<limiterVars, passed>>
    PROVE  Limiter' /\ (Budget => Budget')
  BY DEF IInv, TypeOK, Limiter, LimiterTypeOK, LogsFaithful, Numbered, JustNow, OnSite, OfUser,
         limiterVars, Budget

LEMMA NextInv == IInv /\ [Next]_vars => IInv' /\ (Budget => Budget')
  <1> SUFFICES ASSUME IInv, [Next]_vars PROVE IInv' /\ (Budget => Budget')
    OBVIOUS
  <1>0. Requests /\ ownToken \in SUBSET User
    BY DEF IInv, TypeOK, Requests
  <1>a. ASSUME Requests', ownToken' \in SUBSET User, Limiter', Budget => Budget'
        PROVE  IInv' /\ (Budget => Budget')
    BY <1>a DEF IInv, TypeOK, Requests, Limiter
  <1>b. ASSUME Requests', ownToken' \in SUBSET User, UNCHANGED <<limiterVars, passed>>
        PROVE  IInv' /\ (Budget => Budget')
    BY <1>a, <1>b, LimiterStays
  <1>1. ASSUME NEW s \in Search, NEW u \in User, StartSearch(s, u) PROVE IInv' /\ (Budget => Budget')
    <2> DEFINE r == [NoReq EXCEPT !.pc = "resolve", !.user = u]
    <2>1. r \in Req /\ r.pc = "resolve" /\ r.user = u
      BY DEF NoReq, Req, PC, Mode, Scope
    <2>2. req' = [req EXCEPT ![s] = r]
      BY <1>1 DEF StartSearch
    <2> HIDE DEF r
    <2>3. Requests'
      BY <1>0, <2>1, <2>2, RequestSet
    <2> QED BY <1>0, <1>1, <1>b, <2>3 DEF StartSearch
  <1>2. ASSUME NEW s \in Search, ResolveOwn(s) \/ ResolveShared(s) \/ ResolveFails(s)
        PROVE  IInv' /\ (Budget => Budget')
    <2>1. Requests'
      BY <1>0, <1>2, Resolved, Finished DEF ResolveOwn, ResolveShared, ResolveFails
    <2> QED BY <1>0, <1>2, <1>b, <2>1 DEF ResolveOwn, ResolveShared, ResolveFails
  <1>3. ASSUME NEW s \in Search, CheckLimit(s) PROVE IInv' /\ (Budget => Budget')
    BY <1>0, <1>3, <1>a, CheckLimitIs
  <1>4. ASSUME NEW s \in Search, CallGithub(s) PROVE IInv' /\ (Budget => Budget')
    <2>1. ~At(s, "idle") /\ "local" \in PC \ {"limit"}
      BY <1>4 DEF CallGithub, At, PC
    <2>2. Requests'
      BY <1>0, <1>4, <2>1, Moved, Finished DEF CallGithub
    <2> QED BY <1>0, <1>4, <1>b, <2>2 DEF CallGithub
  <1>5. ASSUME NEW s \in Search, Answer(s) \/ Abandon(s) PROVE IInv' /\ (Budget => Budget')
    <2>1. Requests'
      BY <1>0, <1>5, Finished DEF Answer, Abandon
    <2> QED BY <1>0, <1>5, <1>b, <2>1 DEF Answer, Abandon
  <1>6. ASSUME NEW u \in User, PutToken(u) \/ DeleteToken(u) PROVE IInv' /\ (Budget => Budget')
    <2>1. Requests' /\ ownToken' \in SUBSET User
      BY <1>0, <1>6 DEF PutToken, DeleteToken, Requests, LocalsFit, At
    <2> QED BY <1>6, <1>b, <2>1 DEF PutToken, DeleteToken
  <1>7. CASE Tick
    <2>1. Requests' /\ ownToken' \in SUBSET User
      BY <1>0, <1>7 DEF Tick, Requests, LocalsFit, At
    <2> QED BY <1>7, <1>a, <2>1, Ticked
  <1>8. CASE UNCHANGED vars
    <2>1. Requests' /\ ownToken' \in SUBSET User
      BY <1>0, <1>8 DEF vars, Requests, LocalsFit, At
    <2> QED BY <1>8, <1>b, <2>1 DEF vars
  <1> QED BY <1>1, <1>2, <1>3, <1>4, <1>5, <1>6, <1>7, <1>8 DEF Next

LEMMA Reachable == Spec => []IInv
  <1>1. IInv /\ [Next]_vars => IInv'
    BY NextInv
  <1> QED BY InitInv, <1>1, PTL DEF Spec

\* What limiter, requests and the record of the searches let through look like.
THEOREM TypeCorrect == Spec => []TypeOK
  <1>1. IInv => TypeOK
    BY DEF IInv
  <1> QED BY Reachable, <1>1, PTL

\* In no window, wherever it begins, do more searches get through than the limits
\* allow: rate_limit.rs counts what it kept of a log, and what it kept is all of the
\* searches of the window.
THEOREM BudgetKept == Spec => []Budget
  <1>1. Init => Budget
    <2> SUFFICES ASSUME Init PROVE Budget
      OBVIOUS
    <2>1. OnSite = {} /\ \A u, m : OfUser(u, m) = {}
      BY DEF Init, OnSite, OfUser
    <2> QED BY <2>1, FS_EmptySet, RateLimiterAssumption DEF Budget
  <1>2. IInv /\ Budget /\ [Next]_vars => Budget'
    BY NextInv
  <1> QED BY Reachable, <1>1, <1>2, PTL DEF Spec

-----------------------------------------------------------------------------
(* Refusals. *)

\* A refusal blames one log, which is full, and tells how long its first entry stays.
Blames(s, w) ==
    /\ Faithful(w, Blamed(s)) /\ Len(Prune(w)) >= Allowed(s)
    /\ req'[s].retry = RetryAfter(Prune(w))

LEMMA OnlyCheckRefuses ==
    ASSUME IInv, [Next]_vars, NEW s \in Search, Refused(s)
    PROVE  CheckLimit(s)
  <1>1. At(s, "limit") /\ req'[s].pc = "refused" /\ req \in [Search -> Req]
    BY DEF Refused, IInv, TypeOK
  <1>2. req'[s] # req[s]
    BY <1>1 DEF At
  <1>3. ASSUME NEW t \in Search, t # s, NEW r, req' = [req EXCEPT ![t] = r] PROVE FALSE
    BY <1>1, <1>2, <1>3
  <1>4. ASSUME NEW t \in Search, Finish(t) PROVE FALSE
    <2>1. CASE t = s
      BY <1>1, <1>4, <2>1, NoReqIs DEF Finish
    <2> QED BY <1>3, <1>4, <2>1 DEF Finish
  <1>5. ASSUME NEW t \in Search, NEW u \in User, StartSearch(t, u) PROVE FALSE
    <2>1. t # s
      BY <1>1, <1>5 DEF StartSearch, At
    <2> QED BY <1>3, <1>5, <2>1 DEF StartSearch
  <1>6. ASSUME NEW t \in Search, t # s, UNCHANGED req[s] PROVE FALSE
    BY <1>2, <1>6
  <1>7. ASSUME NEW t \in Search, ResolveOwn(t) \/ ResolveShared(t) \/ ResolveFails(t) PROVE FALSE
    <2>1. t # s
      BY <1>1, <1>4, <1>7 DEF ResolveOwn, ResolveShared, ResolveFails, At
    <2>2. Finish(t) \/ UNCHANGED req[s]
      BY <1>1, <1>7, <2>1 DEF ResolveOwn, ResolveShared, ResolveFails
    <2> QED BY <1>2, <1>4, <2>2
  <1>8. ASSUME NEW t \in Search, t # s, CheckLimit(t) PROVE FALSE
    <2>1. UNCHANGED req[s]
      BY <1>1, <1>8 DEF CheckLimit, Goto
    <2> QED BY <1>2, <2>1
  <1>9. ASSUME NEW t \in Search, CallGithub(t) \/ Answer(t) \/ Abandon(t) PROVE FALSE
    <2>1. Finish(t) \/ (At(t, "call") /\ Goto(t, "local"))
      BY <1>9 DEF CallGithub, Answer, Abandon
    <2>2. ~(At(t, "call") /\ Goto(t, "local"))
      BY <1>1, <1>2 DEF At, Goto
    <2> QED BY <1>4, <2>1, <2>2
  <1>10. UNCHANGED req => FALSE
    BY <1>2
  <1> QED BY <1>5, <1>7, <1>8, <1>9, <1>10 DEF Next, PutToken, DeleteToken, Tick, vars

LEMMA RefusalBlames ==
    ASSUME IInv, [Next]_vars, NEW s \in Search, Refused(s)
    PROVE  \E w : Blames(s, w)
  <1> DEFINE u == req[s].user
             mode == req[s].mode
             verdict == IF mode = "user" THEN TokenVerdict(u) ELSE SharedVerdict(u)
  <1>1. CheckLimit(s)
    BY OnlyCheckRefuses
  <1>2. /\ req \in [Search -> Req] /\ At(s, "limit") /\ req'[s].pc = "refused"
        /\ u \in User /\ mode \in {"user", "shared"}
    BY DEF Refused, IInv, TypeOK, LocalsFit, At
  <1>3. verdict.scope # "pass"
    <2> SUFFICES ASSUME verdict.scope = "pass" PROVE FALSE
      OBVIOUS
    <2>1. Goto(s, "call")
      BY <1>1 DEF CheckLimit
    <2>2. req'[s].pc = "call"
      BY <1>2, <2>1 DEF Goto, Req
    <2> QED BY <1>2, <2>2
  <1>4. req'[s].scope = verdict.scope /\ req'[s].retry = verdict.retry
    <2>1. req' = [req EXCEPT ![s].pc = "refused",
                             ![s].scope = verdict.scope, ![s].retry = verdict.retry]
      BY <1>1, <1>3 DEF CheckLimit
    <2> HIDE DEF verdict
    <2> QED BY <1>2, <2>1 DEF Req
  <1>5. /\ Faithful(global, OnSite)
        /\ Faithful(users[u], OfUser(u, "shared")) /\ Faithful(userTokens[u], OfUser(u, "user"))
    BY <1>2 DEF IInv, LogsFaithful
  <1>6. CASE mode = "user"
    <2>1. verdict = TokenVerdict(u)
      BY <1>6
    <2> HIDE DEF verdict
    <2>2. /\ Len(Prune(userTokens[u])) >= TokenLimit
          /\ verdict.scope = "user" /\ verdict.retry = RetryAfter(Prune(userTokens[u]))
      BY <1>3, <2>1 DEF TokenVerdict
    <2>3. Blamed(s) = OfUser(u, "user") /\ Allowed(s) = TokenLimit
      BY <1>4, <1>6, <2>2 DEF Blamed, Allowed
    <2>4. Blames(s, userTokens[u])
      BY <1>4, <1>5, <2>2, <2>3 DEF Blames
    <2> QED BY <2>4
  <1>7. CASE mode = "shared"
    <2>1. verdict = SharedVerdict(u)
      BY <1>7
    <2>2. Len(Prune(global)) \in Nat /\ Len(Prune(users[u])) \in Nat
      BY <1>5, LogPruned
    <2> HIDE DEF verdict
    <2>3. CASE /\ Len(Prune(global)) >= GlobalLimit
               /\ verdict = [scope |-> "global", retry |-> RetryAfter(Prune(global))]
      <3>1. Blamed(s) = OnSite /\ Allowed(s) = GlobalLimit
        BY <1>4, <2>3 DEF Blamed, Allowed
      <3>2. Blames(s, global)
        BY <1>4, <1>5, <2>3, <3>1 DEF Blames
      <3> QED BY <3>2
    <2>4. CASE /\ Len(Prune(users[u])) >= UserLimit
               /\ verdict = [scope |-> "user", retry |-> RetryAfter(Prune(users[u]))]
      <3>1. Blamed(s) = OfUser(u, "shared") /\ Allowed(s) = UserLimit
        BY <1>4, <1>7, <2>4 DEF Blamed, Allowed
      <3>2. Blames(s, users[u])
        BY <1>4, <1>5, <2>4, <3>1 DEF Blames
      <3> QED BY <3>2
    <2> QED BY <1>3, <2>1, <2>2, <2>3, <2>4, SharedVerdictIs
  <1> QED BY <1>2, <1>6, <1>7

\* What is refused is over the limit that the refusal names.
THEOREM RefusalsFair == Spec => FairRefusal
  <1>1. IInv /\ [Next]_vars => [\A s \in Search : Refused(s) => Cardinality(Blamed(s)) >= Allowed(s)]_vars
    <2> SUFFICES ASSUME IInv, [Next]_vars, NEW s \in Search, Refused(s)
                 PROVE  Cardinality(Blamed(s)) >= Allowed(s)
      OBVIOUS
    <2>1. PICK w : Blames(s, w)
      BY RefusalBlames
    <2> QED BY <2>1, LogPruned DEF Blames
  <1> QED BY Reachable, <1>1, PTL DEF Spec, FairRefusal

LEMMA Division ==
    ASSUME NEW a \in Nat, NEW b \in Nat \ {0}
    PROVE  (a \div b) \in Nat /\ (a \div b) * b <= a /\ a < ((a \div b) + 1) * b
  BY SMT

\* The wait that a refusal announces is the wait until its oldest search leaves the
\* window, to the second below.
THEOREM WaitsHonest == Spec => RetryHonest
  <1>1. ASSUME IInv, [Next]_vars, NEW s \in Search, Refused(s), Blamed(s) # {}
        PROVE  /\ Wait(s) < (req'[s].retry + 1) * Second
               /\ req'[s].retry * Second <= Wait(s) \/ req'[s].retry = 1
    <2>1. PICK w : Blames(s, w)
      BY <1>1, RefusalBlames
    <2> DEFINE v == Prune(w)
               d == Window - v[1]
               q == d \div Second
    <2>2. /\ v # << >> /\ v[1] \in Nat /\ v[1] < Window
          /\ Max({0} \cup {p.age : p \in Blamed(s)}) = v[1]
      <3>1. Faithful(v, Blamed(s)) /\ AllLive(v)
        BY <2>1, PruneFaithful DEF Blames
      <3> HIDE DEF v
      <3> QED BY <1>1, <3>1, FirstIsOldest
    <2>3. Wait(s) = d
      BY <2>2 DEF Wait
    <2>4. req'[s].retry = IF q > 1 THEN q ELSE 1
      BY <2>1, <2>2 DEF Blames, RetryAfter
    <2> HIDE DEF v
    <2>5. d \in Nat /\ d > 0 /\ Second \in Nat \ {0}
      BY <2>2, RateLimiterAssumption
    <2> HIDE DEF d
    <2>6. q \in Nat /\ q * Second <= d /\ d < (q + 1) * Second
      BY <2>5, Division
    <2> HIDE DEF q
    <2>7. CASE q > 1
      BY <2>3, <2>4, <2>6, <2>7
    <2>8. CASE ~(q > 1)
      <3>1. req'[s].retry = 1
        BY <2>4, <2>8
      <3>2. q + 1 <= 2 /\ (q + 1) * Second <= 2 * Second
        BY <2>5, <2>6, <2>8
      <3> QED BY <2>3, <2>5, <2>6, <3>1, <3>2
    <2> QED BY <2>7, <2>8
  <1>2. IInv /\ [Next]_vars =>
            [\A s \in Search : Refused(s) /\ Blamed(s) # {} =>
                /\ Wait(s) < (req'[s].retry + 1) * Second
                /\ req'[s].retry * Second <= Wait(s) \/ req'[s].retry = 1]_vars
    BY <1>1
  <1> QED BY Reachable, <1>2, PTL DEF Spec, RetryHonest
=============================================================================
