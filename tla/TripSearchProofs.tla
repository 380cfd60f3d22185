---------------------------- MODULE TripSearchProofs ----------------------------
(***************************************************************************)
(* Theorems about a search and what it is made of: the field its places are   *)
(* chosen in (AddressField), the list it is answered with (Scoring,            *)
(* TripSearch), the history it is recorded in (TripHistory) and the            *)
(* disruptions it is ranked with (RealtimeCache).  Each is a component of its    *)
(* own, with its own specification, over its own variables.                     *)
(***************************************************************************)
EXTENDS TripSearch, AddressField, TripHistory, RealtimeCache,
        FiniteSetTheorems, WellFoundedInduction, TLAPS

-----------------------------------------------------------------------------
(* The lists of Ordering.                                                    *)

\* A set of naturals that is not empty has a least member.
LEMMA LeastMember ==
  ASSUME NEW S, S \subseteq Nat, S # {}
  PROVE  \E d \in S : \A e \in S : d <= e
<1>1. PICK d \in S : \A e \in S : ~ (<<e, d>> \in OpToRel(<, Nat))
  BY NatLessThanWellFounded, WFMin
<1>2. \A e \in Nat : <<e, d>> \in OpToRel(<, Nat) <=> e < d
  BY DEF OpToRel
<1>3. \A e \in S : ~(e < d) /\ e \in Nat /\ d \in Nat
  BY <1>1, <1>2
<1> QED
  BY <1>3

\* R is a strict total order on S.
Orders(R, S) ==
  /\ \A x \in S : <<x, x>> \notin R
  /\ \A x, y \in S : x # y => <<x, y>> \in R \/ <<y, x>> \in R
  /\ \A x, y, z \in S : <<x, y>> \in R /\ <<y, z>> \in R => <<x, z>> \in R

Enumerates(f, S, R) ==
  /\ f \in [1 .. Cardinality(S) -> S]
  /\ \A i, j \in DOMAIN f : i < j => <<f[i], f[j]>> \in R

\* A finite set that is ordered and not empty has a last member.
LEMMA LastExists ==
  ASSUME NEW S, IsFiniteSet(S), NEW R, Orders(R, S), S # {}
  PROVE  \E m \in S : \A x \in S \ {m} : <<x, m>> \in R
<1> DEFINE Bad(T) == T \subseteq S /\ T # {} /\ ~\E m \in T : \A x \in T \ {m} : <<x, m>> \in R
           Sizes == {n \in Nat : \E T \in SUBSET S : Bad(T) /\ Cardinality(T) = n}
<1>1. SUFFICES ASSUME Bad(S) PROVE FALSE
  OBVIOUS
<1>2. \A T \in SUBSET S : IsFiniteSet(T) /\ Cardinality(T) \in Nat
  BY FS_Subset, FS_CardinalityType
<1>3. Sizes # {} /\ Sizes \subseteq Nat
  BY <1>1, <1>2
<1>4. PICK n \in Sizes : \A k \in Sizes : n <= k
  <2> HIDE DEF Sizes
  <2> QED
    BY <1>3, LeastMember
<1>5. PICK T \in SUBSET S : Bad(T) /\ Cardinality(T) = n
  OBVIOUS
<1>6. PICK a \in T : TRUE
  BY <1>5
<1> DEFINE U == T \ {a}
<1>7. U \in SUBSET S /\ Cardinality(U) = n - 1 /\ n \in Nat
  BY <1>2, <1>3, <1>5, FS_RemoveElement
<1>8. ~Bad(U)
  <2>1. Bad(U) => n - 1 \in Sizes
    BY <1>2, <1>7
  <2> QED
    BY <2>1, <1>4, <1>7
<1>9. U # {}
  BY <1>5
<1>10. PICK m \in U : \A x \in U \ {m} : <<x, m>> \in R
  BY <1>8, <1>9
<1>11. CASE <<a, m>> \in R
  BY <1>5, <1>10, <1>11
<1>12. CASE <<m, a>> \in R
  <2>1. \A x \in T \ {a} : <<x, a>> \in R
    BY <1>10, <1>12 DEF Orders
  <2> QED
    BY <1>5, <2>1
<1> QED
  BY <1>11, <1>12 DEF Orders

\* A finite set that is ordered can be gone through in that order.
LEMMA OrderExists ==
  ASSUME NEW S, IsFiniteSet(S), NEW R, Orders(R, S)
  PROVE  \E f : Enumerates(f, S, R)
<1> DEFINE Bad(T) == T \subseteq S /\ ~\E f : Enumerates(f, T, R)
           Sizes == {n \in Nat : \E T \in SUBSET S : Bad(T) /\ Cardinality(T) = n}
<1>1. SUFFICES ASSUME Bad(S) PROVE FALSE
  OBVIOUS
<1>2. \A T \in SUBSET S : IsFiniteSet(T) /\ Cardinality(T) \in Nat
  BY FS_Subset, FS_CardinalityType
<1>3. Sizes # {} /\ Sizes \subseteq Nat
  BY <1>1, <1>2
<1>4. PICK n \in Sizes : \A k \in Sizes : n <= k
  <2> HIDE DEF Sizes
  <2> QED
    BY <1>3, LeastMember
<1>5. PICK T \in SUBSET S : Bad(T) /\ Cardinality(T) = n
  OBVIOUS
<1>6. T # {}
  <2>1. SUFFICES ASSUME T = {} PROVE FALSE
    OBVIOUS
  <2>2. Cardinality(T) = 0
    BY <2>1, FS_EmptySet
  <2>3. Enumerates([i \in 1 .. 0 |-> i], T, R)
    BY <2>1, <2>2 DEF Enumerates
  <2> QED
    BY <1>5, <2>3
<1>7. Orders(R, T)
  BY DEF Orders
<1>8. PICK m \in T : \A x \in T \ {m} : <<x, m>> \in R
  BY <1>2, <1>6, <1>7, LastExists
<1> DEFINE U == T \ {m}
<1>9. U \in SUBSET S /\ Cardinality(U) = n - 1 /\ n \in Nat /\ n - 1 \in Nat
  BY <1>2, <1>3, <1>5, <1>6, FS_RemoveElement, FS_EmptySet
<1>10. ~Bad(U)
  <2>1. Bad(U) => n - 1 \in Sizes
    BY <1>2, <1>9
  <2> QED
    BY <2>1, <1>4, <1>9
<1>11. PICK f : Enumerates(f, U, R)
  BY <1>9, <1>10
<1> DEFINE g == [i \in 1 .. n |-> IF i = n THEN m ELSE f[i]]
<1>12. f \in [1 .. n - 1 -> U] /\ \A i, j \in 1 .. n - 1 : i < j => <<f[i], f[j]>> \in R
  BY <1>9, <1>11 DEF Enumerates
<1>13. \A i \in 1 .. n : i # n => i \in 1 .. n - 1 /\ f[i] \in U
  BY <1>9, <1>12
<1>14. g \in [1 .. n -> T]
  BY <1>13
<1>15. ASSUME NEW i \in 1 .. n, NEW j \in 1 .. n, i < j PROVE <<g[i], g[j]>> \in R
  <2>1. i # n /\ g[i] = f[i]
    BY <1>9, <1>15
  <2>2. CASE j = n
    BY <1>8, <1>13, <2>1, <2>2
  <2>3. CASE j # n
    BY <1>12, <1>13, <1>15, <2>1, <2>3
  <2> QED
    BY <2>2, <2>3
<1>16. Enumerates(g, T, R)
  <2> HIDE DEF g
  <2>1. DOMAIN g = 1 .. n
    BY <1>14
  <2> QED
    BY <1>5, <1>14, <1>15, <2>1 DEF Enumerates
<1> QED
  BY <1>5, <1>16

\* InOrder is well defined: it goes through the whole set, in order.
LEMMA InOrderFacts ==
  ASSUME NEW S, IsFiniteSet(S), NEW R, Orders(R, S)
  PROVE  /\ Enumerates(InOrder(S, R), S, R)
         /\ \A x \in S : \E i \in 1 .. Cardinality(S) : InOrder(S, R)[i] = x
<1> DEFINE n == Cardinality(S)
           f == InOrder(S, R)
<1>1. Enumerates(f, S, R)
  BY OrderExists DEF Enumerates, InOrder
<1>2. n \in Nat /\ IsFiniteSet(1 .. n) /\ Cardinality(1 .. n) = n
  BY FS_CardinalityType, FS_Interval
<1>3. f \in [1 .. n -> S]
  BY <1>1 DEF Enumerates
<1> HIDE DEF f
<1>4. \A i, j \in 1 .. n : i < j => <<f[i], f[j]>> \in R
  BY <1>1, <1>3 DEF Enumerates
<1>5. \A i, j \in 1 .. n : f[i] = f[j] => i = j
  <2>1. \A i, j \in 1 .. n : i < j => f[i] # f[j]
    <3> TAKE i, j \in 1 .. n
    <3> HAVE i < j
    <3>1. f[i] \in S /\ <<f[i], f[j]>> \in R
      BY <1>3, <1>4
    <3> QED
      BY <3>1 DEF Orders
  <2> QED
    BY <1>2, <2>1
<1>6. f \in Injection(1 .. n, S)
  BY <1>3, <1>5 DEF Injection, IsInjective
<1>7. f \in Surjection(1 .. n, S)
  BY <1>2, <1>6, FS_Injection
<1>8. \A x \in S : \E i \in 1 .. n : f[i] = x
  BY <1>7 DEF Surjection
<1> QED
  BY <1>1, <1>8 DEF f

\* A finite set of numbers from the least to the greatest.
LEMMA AscendingFacts ==
  ASSUME NEW S \in SUBSET Int, IsFiniteSet(S)
  PROVE  LET f == Ascending(S) IN
         /\ Cardinality(S) \in Nat /\ f \in [1 .. Cardinality(S) -> S]
         /\ \A i, j \in 1 .. Cardinality(S) : i < j => f[i] < f[j]
         /\ \A x \in S : \E i \in 1 .. Cardinality(S) : f[i] = x
<1> DEFINE R == {p \in S \X S : p[1] < p[2]}
<1>1. \A x, y \in S : <<x, y>> \in R <=> x < y
  OBVIOUS
<1> HIDE DEF R
<1>2. Orders(R, S)
  BY <1>1 DEF Orders
<1>3. Ascending(S) = InOrder(S, R)
  BY DEF Ascending, R
<1>4. /\ Enumerates(Ascending(S), S, R)
      /\ \A x \in S : \E i \in 1 .. Cardinality(S) : Ascending(S)[i] = x
  BY <1>2, <1>3, InOrderFacts
<1>5. Cardinality(S) \in Nat
  BY FS_CardinalityType
<1> QED
  BY <1>1, <1>4, <1>5 DEF Enumerates

\* The same from the greatest to the least.
LEMMA DescendingFacts ==
  ASSUME NEW S \in SUBSET Int, IsFiniteSet(S)
  PROVE  LET f == Descending(S) IN
         /\ Cardinality(S) \in Nat /\ f \in [1 .. Cardinality(S) -> S]
         /\ \A i, j \in 1 .. Cardinality(S) : i < j => f[i] > f[j]
         /\ \A x \in S : \E i \in 1 .. Cardinality(S) : f[i] = x
<1> DEFINE R == {p \in S \X S : p[1] > p[2]}
<1>1. \A x, y \in S : <<x, y>> \in R <=> x > y
  OBVIOUS
<1> HIDE DEF R
<1>2. Orders(R, S)
  BY <1>1 DEF Orders
<1>3. Descending(S) = InOrder(S, R)
  BY DEF Descending, R
<1>4. /\ Enumerates(Descending(S), S, R)
      /\ \A x \in S : \E i \in 1 .. Cardinality(S) : Descending(S)[i] = x
  BY <1>2, <1>3, InOrderFacts
<1>5. Cardinality(S) \in Nat
  BY FS_CardinalityType
<1> QED
  BY <1>1, <1>4, <1>5 DEF Enumerates

\* A stable sort keeps every position once, by measure.
LEMMA StableOrderFacts ==
  ASSUME NEW n \in Nat, NEW measure \in [1 .. n -> Int]
  PROVE  LET f == StableOrder(measure) IN
         /\ f \in [1 .. n -> 1 .. n]
         /\ \A i, j \in 1 .. n : i < j => measure[f[i]] <= measure[f[j]]
         /\ \A i, j \in 1 .. n : i # j => f[i] # f[j]
         /\ \A k \in 1 .. n : \E i \in 1 .. n : f[i] = k
<1> DEFINE D == DOMAIN measure
           R == {p \in D \X D :
                   measure[p[1]] < measure[p[2]] \/ (measure[p[1]] = measure[p[2]] /\ p[1] < p[2])}
           f == StableOrder(measure)
<1>1. \A x, y \in D :
        <<x, y>> \in R <=> measure[x] < measure[y] \/ (measure[x] = measure[y] /\ x < y)
  OBVIOUS
<1>2. f = InOrder(D, R)
  BY DEF StableOrder
<1>3. D = 1 .. n /\ IsFiniteSet(D) /\ Cardinality(D) = n
  BY FS_Interval
<1> HIDE DEF R, f, D
<1>4. Orders(R, D)
  <2>1. \A x \in D : x \in Int /\ measure[x] \in Int
    BY <1>3
  <2>2. \A x \in D : <<x, x>> \notin R
    BY <1>1, <2>1
  <2>3. \A x, y \in D : x # y => <<x, y>> \in R \/ <<y, x>> \in R
    BY <1>1, <2>1
  <2>4. ASSUME NEW x \in D, NEW y \in D, NEW z \in D, <<x, y>> \in R, <<y, z>> \in R
        PROVE  <<x, z>> \in R
    <3>1. measure[x] < measure[y] \/ (measure[x] = measure[y] /\ x < y)
      BY <1>1, <2>4
    <3>2. measure[y] < measure[z] \/ (measure[y] = measure[z] /\ y < z)
      BY <1>1, <2>4
    <3>3. measure[x] < measure[z] \/ (measure[x] = measure[z] /\ x < z)
      BY <2>1, <3>1, <3>2
    <3> QED
      BY <1>1, <3>3
  <2> QED
    BY <2>2, <2>3, <2>4, Zenon DEF Orders
<1>5. Enumerates(f, D, R) /\ \A k \in D : \E i \in 1 .. n : f[i] = k
  <2>1. IsFiniteSet(D)
    BY <1>3
  <2>2. Enumerates(InOrder(D, R), D, R)
    BY <1>4, <2>1, InOrderFacts
  <2>3. \A k \in D : \E i \in 1 .. Cardinality(D) : InOrder(D, R)[i] = k
    BY <1>4, <2>1, InOrderFacts
  <2> QED
    BY <1>2, <1>3, <2>2, <2>3
<1>6. f \in [1 .. n -> 1 .. n] /\ \A i, j \in 1 .. n : i < j => <<f[i], f[j]>> \in R
  BY <1>3, <1>5 DEF Enumerates
<1>7. \A i, j \in 1 .. n : i < j => measure[f[i]] <= measure[f[j]] /\ f[i] # f[j]
  <2> TAKE i, j \in 1 .. n
  <2> HAVE i < j
  <2>1. f[i] \in 1 .. n /\ f[j] \in 1 .. n /\ <<f[i], f[j]>> \in R
    BY <1>6
  <2>2. measure[f[i]] \in Int /\ measure[f[j]] \in Int
    BY <2>1
  <2>3. measure[f[i]] < measure[f[j]] \/ (measure[f[i]] = measure[f[j]] /\ f[i] < f[j])
    BY <1>1, <1>3, <2>1
  <2> QED
    BY <2>1, <2>2, <2>3
<1>8. \A i, j \in 1 .. n : i # j => f[i] # f[j]
  BY <1>7
<1> QED
  BY <1>3, <1>5, <1>6, <1>7, <1>8 DEF f

\* What is kept of a list: as many elements as positions, each at its place in the order
\* of the positions.
LEMMA KeptFacts ==
  ASSUME NEW T, NEW list \in Seq(T), NEW K \in SUBSET (DOMAIN list)
  PROVE  LET n == Cardinality(K)
             f == Ascending(K)
         IN /\ n \in Nat /\ f \in [1 .. n -> K]
            /\ \A i, j \in 1 .. n : i < j => f[i] < f[j]
            /\ \A x \in K : \E i \in 1 .. n : f[i] = x
            /\ Kept(list, K) \in Seq(T) /\ Len(Kept(list, K)) = n
            /\ \A i \in 1 .. n : Kept(list, K)[i] = list[f[i]]
<1> DEFINE n == Cardinality(K)
           f == Ascending(K)
<1>1. DOMAIN list = 1 .. Len(list) /\ Len(list) \in Nat
  OBVIOUS
<1>2. IsFiniteSet(K) /\ K \in SUBSET Int
  <2>1. IsFiniteSet(1 .. Len(list))
    BY <1>1, FS_Interval
  <2> QED
    BY <1>1, <2>1, FS_Subset
<1>3. /\ n \in Nat /\ f \in [1 .. n -> K]
      /\ \A i, j \in 1 .. n : i < j => f[i] < f[j]
      /\ \A x \in K : \E i \in 1 .. n : f[i] = x
  BY <1>2, AscendingFacts
<1> HIDE DEF n, f
<1>4. Kept(list, K) = [i \in 1 .. n |-> list[f[i]]]
  BY <1>3 DEF Kept, Taken, f
<1>5. \A i \in 1 .. n : list[f[i]] \in T
  BY <1>1, <1>3
<1> QED
  BY <1>3, <1>4, <1>5 DEF n, f

\* What is left of a list that is cut to a length.
LEMMA FirstOnesFacts ==
  ASSUME NEW T, NEW list \in Seq(T), NEW max \in Nat
  PROVE  LET short == FirstOnes(list, max) IN
         /\ short \in Seq(T) /\ Len(short) <= max /\ Len(short) <= Len(list)
         /\ \A i \in 1 .. Len(short) : short[i] = list[i]
         /\ Len(short) = max \/ Len(short) = Len(list)
BY DEF FirstOnes

\* What a loop that looks each element up among those it has seen finds: the position where
\* that element comes first.
LEMMA SeenFirst ==
  ASSUME NEW n \in Nat, NEW measure, NEW i \in 1 .. n
  PROVE  \E h \in 1 .. i : measure[h] = measure[i] /\ \A j \in 1 .. h - 1 : measure[j] # measure[h]
<1> DEFINE Same == {h \in 1 .. i : measure[h] = measure[i]}
<1>1. Same \subseteq Nat /\ Same # {}
  OBVIOUS
<1>2. PICK h \in Same : \A e \in Same : h <= e
  <2> HIDE DEF Same
  <2> QED
    BY <1>1, LeastMember
<1>3. \A j \in 1 .. h - 1 : j \in 1 .. i /\ ~(h <= j)
  BY <1>2
<1> QED
  BY <1>2, <1>3
-----------------------------------------------------------------------------
(* The list that a search answers with.                                      *)

\* A route is made of what RoutesAssumption says, and its preferred segments can be counted.
LEMMA RouteFacts ==
  ASSUME NEW r \in DOMAIN Routes
  PROVE  /\ Routes[r].minutes \in Nat /\ Routes[r].transfers \in Nat /\ Routes[r].walk \in Nat
         /\ \A profile : PreferredSegments(r, profile) \in Nat
<1>1. /\ Routes[r].minutes \in Nat /\ Routes[r].transfers \in Nat /\ Routes[r].walk \in Nat
      /\ Routes[r].modes \in Seq({"walking", "bus", "tram", "metro", "train"})
  BY RoutesAssumption
<1>2. ASSUME NEW profile PROVE PreferredSegments(r, profile) \in Nat
  <2> DEFINE S == {i \in DOMAIN Routes[r].modes : Routes[r].modes[i] \in profile.preferred}
  <2>1. DOMAIN Routes[r].modes = 1 .. Len(Routes[r].modes) /\ Len(Routes[r].modes) \in Nat
    BY <1>1
  <2>2. IsFiniteSet(1 .. Len(Routes[r].modes)) /\ S \in SUBSET (1 .. Len(Routes[r].modes))
    BY <2>1, FS_Interval
  <2>3. Cardinality(S) \in Nat
    BY <2>2, FS_Subset, FS_CardinalityType
  <2> QED
    BY <2>3 DEF PreferredSegments
<1> QED
  BY <1>1, <1>2

\* computeScore: a score is an integer, so that scores can be compared.
LEMMA ScoreType ==
  ASSUME NEW a \in Result, NEW profile, NEW weather
  PROVE  Score(a, profile, weather) \in Int
BY RouteFacts DEF Score, Result

\* What is better on one criterion that counts, and no worse on the others, scores less.
LEMMA BetterScores ==
  ASSUME NEW a \in Result, NEW b \in Result, NEW profile, NEW weather,
         Better(a, b, profile, weather)
  PROVE  Score(a, profile, weather) < Score(b, profile, weather)
<1> DEFINE x == Routes[a.route]
           y == Routes[b.route]
           p == PreferredSegments(a.route, profile)
           q == PreferredSegments(b.route, profile)
           T == IF "transfers" \in profile.limits THEN 12 ELSE 2
           W == (IF "walking" \in profile.limits THEN 5 ELSE 0)
                + (IF weather = "rain" THEN 8 ELSE 0)
           c == IF a.disrupted THEN 15 ELSE 0
           d == IF b.disrupted THEN 15 ELSE 0
<1>1. /\ x.minutes \in Nat /\ x.transfers \in Nat /\ x.walk \in Nat /\ p \in Nat
      /\ y.minutes \in Nat /\ y.transfers \in Nat /\ y.walk \in Nat /\ q \in Nat
      /\ a.disrupted \in BOOLEAN /\ b.disrupted \in BOOLEAN
  BY RouteFacts DEF Result
<1>2. /\ x.minutes <= y.minutes /\ x.transfers <= y.transfers /\ x.walk <= y.walk
      /\ p >= q /\ (a.disrupted => b.disrupted)
      /\ \/ x.minutes < y.minutes \/ x.transfers < y.transfers \/ p > q
         \/ b.disrupted /\ ~a.disrupted
         \/ x.walk < y.walk /\ ("walking" \in profile.limits \/ weather = "rain")
  BY DEF Better, NoWorse
<1>3. /\ Score(a, profile, weather) = x.minutes + x.transfers * T + x.walk * W - 3 * p + c
      /\ Score(b, profile, weather) = y.minutes + y.transfers * T + y.walk * W - 3 * q + d
  BY DEF Score
<1>4. T \in {2, 12} /\ W \in {0, 5, 8, 13} /\ c \in {0, 15} /\ d \in {0, 15} /\ c <= d
      /\ ("walking" \in profile.limits \/ weather = "rain" => W # 0)
      /\ (b.disrupted /\ ~a.disrupted => c < d)
  BY <1>1, <1>2
<1> HIDE DEF x, y, p, q, T, W, c, d
<1>5. /\ x.transfers * T \in Nat /\ y.transfers * T \in Nat /\ x.transfers * T <= y.transfers * T
      /\ x.transfers < y.transfers => x.transfers * T < y.transfers * T
  BY <1>1, <1>2, <1>4
<1>6. /\ x.walk * W \in Nat /\ y.walk * W \in Nat /\ x.walk * W <= y.walk * W
      /\ x.walk < y.walk /\ W # 0 => x.walk * W < y.walk * W
  BY <1>1, <1>2, <1>4
<1> DEFINE tx == x.transfers * T
           ty == y.transfers * T
           wx == x.walk * W
           wy == y.walk * W
<1>7. /\ tx \in Nat /\ ty \in Nat /\ tx <= ty /\ (x.transfers < y.transfers => tx < ty)
      /\ wx \in Nat /\ wy \in Nat /\ wx <= wy
      /\ x.walk < y.walk /\ ("walking" \in profile.limits \/ weather = "rain") => wx < wy
      /\ Score(a, profile, weather) = x.minutes + tx + wx - 3 * p + c
      /\ Score(b, profile, weather) = y.minutes + ty + wy - 3 * q + d
  BY <1>3, <1>4, <1>5, <1>6
<1> HIDE DEF tx, ty, wx, wy
<1>8. c \in Int /\ d \in Int
  BY <1>4
<1> QED
  BY <1>1, <1>2, <1>4, <1>7, <1>8

\* groupByRoute: each route once, at its next departure, with all of its departures.
LEMMA StartsFacts ==
  ASSUME NEW group \in Seq(Itinerary), group # <<>>
  PROVE  /\ Starts(group) \in Seq(Nat) /\ Starts(group) # <<>>
         /\ \A i \in DOMAIN group : group[i].start \in ToSet(Starts(group))
                                    /\ Starts(group)[1] <= group[i].start
         /\ \E i \in DOMAIN group : Starts(group)[1] = group[i].start
<1> DEFINE n == Len(group)
           start == [i \in DOMAIN group |-> group[i].start]
           f == StableOrder(start)
<1>1. n \in Nat /\ n >= 1 /\ DOMAIN group = 1 .. n /\ \A i \in 1 .. n : group[i].start \in Nat
  <2>1. n \in Nat /\ n >= 1 /\ DOMAIN group = 1 .. n
    OBVIOUS
  <2>2. \A i \in 1 .. n : group[i] \in Itinerary
    OBVIOUS
  <2> QED
    BY <2>1, <2>2 DEF Itinerary
<1>2. start \in [1 .. n -> Nat] /\ start \in [1 .. n -> Int]
  BY <1>1
<1>3. /\ f \in [1 .. n -> 1 .. n]
      /\ \A i, j \in 1 .. n : i < j => start[f[i]] <= start[f[j]]
      /\ \A k \in 1 .. n : \E i \in 1 .. n : f[i] = k
  <2> HIDE DEF start
  <2> QED
    BY <1>1, <1>2, StableOrderFacts
<1>4. Starts(group) = [i \in 1 .. n |-> start[f[i]]]
  BY <1>3 DEF Starts, Taken
<1>5. \A i \in 1 .. n : start[i] = group[i].start
  BY <1>1
<1> HIDE DEF f, start
<1>6. \A i \in 1 .. n : Starts(group)[i] = start[f[i]] /\ f[i] \in 1 .. n /\ start[f[i]] \in Nat
  BY <1>2, <1>3, <1>4
<1>7. Starts(group) \in [1 .. n -> Nat]
  BY <1>4, <1>6
<1>8. Starts(group) \in Seq(Nat) /\ DOMAIN Starts(group) = 1 .. n /\ Starts(group) # <<>>
  <2>1. Starts(group) \in Seq(Nat) /\ DOMAIN Starts(group) = 1 .. n
    BY <1>1, <1>7
  <2> QED
    BY <1>1, <2>1
<1>9. ASSUME NEW k \in 1 .. n
      PROVE  group[k].start \in ToSet(Starts(group)) /\ Starts(group)[1] <= group[k].start
  <2>1. PICK i \in 1 .. n : f[i] = k
    BY <1>3
  <2>2. Starts(group)[i] = group[k].start
    BY <1>5, <1>6, <2>1
  <2>3. Starts(group)[1] <= Starts(group)[i]
    <3>1. CASE i = 1
      BY <1>6, <3>1
    <3>2. CASE i # 1
      <4>1. 1 \in 1 .. n /\ 1 < i
        BY <1>1, <3>2
      <4> QED
        BY <1>3, <1>6, <4>1
    <3> QED
      BY <3>1, <3>2
  <2> QED
    BY <1>8, <2>2, <2>3 DEF ToSet
<1>10. f[1] \in DOMAIN group /\ Starts(group)[1] = group[f[1]].start
  BY <1>1, <1>5, <1>6
<1> QED
  BY <1>1, <1>8, <1>9, <1>10

\* groupByRoute: one result for each route that OTP found, with all of its departures.
LEMMA GroupFacts ==
  ASSUME NEW plan \in Seq(Itinerary)
  PROVE  LET grouped == GroupByRoute(plan) IN
         /\ grouped \in Seq(Result)
         /\ \A k \in DOMAIN grouped :
              /\ ~grouped[k].disrupted
              /\ \E i \in DOMAIN plan : plan[i].route = grouped[k].route
         /\ ShowsPlan(grouped, plan, {})
<1> DEFINE n == Len(plan)
           route == [i \in 1 .. n |-> plan[i].route]
           first == {i \in DOMAIN plan : \A j \in 1 .. i - 1 : plan[j].route # plan[i].route}
           here(r) == {i \in DOMAIN plan : plan[i].route = r}
           group(r) == Kept(plan, here(r))
           heads == Kept(plan, first)
           at == Ascending(first)
           d == Cardinality(first)
           grouped == GroupByRoute(plan)
           routes == {plan[i].route : i \in DOMAIN plan}
<1>1. /\ n \in Nat /\ DOMAIN plan = 1 .. n /\ \A i \in 1 .. n : plan[i] \in Itinerary
  OBVIOUS
<1>2. first \in SUBSET (DOMAIN plan)
  OBVIOUS
<1>3. \A i \in first : i \in 1 .. n /\ \A j \in 1 .. i - 1 : plan[j].route # plan[i].route
  BY <1>1
<1>4. \A r : \A i \in here(r) : i \in 1 .. n /\ plan[i].route = r
  BY <1>1
\* Each route comes first somewhere, and once.
<1>5. ASSUME NEW i \in 1 .. n PROVE \E h \in first : plan[h].route = plan[i].route
  <2>1. PICK h \in 1 .. i : route[h] = route[i] /\ \A j \in 1 .. h - 1 : route[j] # route[h]
    <3> HIDE DEF route, n
    <3> QED
      BY ONLY <1>1, i \in 1 .. n, SeenFirst
  <2>2. h \in 1 .. n /\ \A j \in 1 .. h - 1 : j \in 1 .. n
    BY <1>1
  <2>3. route[h] = plan[h].route /\ route[i] = plan[i].route
        /\ \A j \in 1 .. h - 1 : route[j] = plan[j].route
    BY <2>2
  <2> HIDE DEF route
  <2>4. h \in first
    BY <1>1, <2>1, <2>2, <2>3
  <2> QED
    BY <2>1, <2>3, <2>4
<1>6. \A h, i \in first : plan[h].route = plan[i].route => h = i
  <2> SUFFICES ASSUME NEW h \in first, NEW i \in first, plan[h].route = plan[i].route, h # i
               PROVE  FALSE
    OBVIOUS
  <2>1. h \in 1 .. i - 1 \/ i \in 1 .. h - 1
    BY <1>1, <1>3
  <2> QED
    BY <1>3, <2>1
<1> HIDE DEF first
<1>7. /\ d \in Nat /\ at \in [1 .. d -> first]
      /\ \A x \in first : \E i \in 1 .. d : at[i] = x
      /\ heads \in Seq(Itinerary) /\ Len(heads) = d
      /\ \A i \in 1 .. d : heads[i] = plan[at[i]]
  BY <1>2, KeptFacts
<1> HIDE DEF at, d, heads
<1>8. d = Cardinality(routes)
  <2> DEFINE of == [i \in first |-> plan[i].route]
  <2>1. IsFiniteSet(first)
    <3>1. IsFiniteSet(1 .. n)
      BY <1>1, FS_Interval
    <3> QED
      BY <1>1, <1>2, <3>1, FS_Subset
  <2>2. of \in [first -> routes]
    BY <1>1, <1>2
  <2>3. \A h, i \in first : of[h] = of[i] => h = i
    BY <1>6
  <2>4. \A r \in routes : \E h \in first : of[h] = r
    BY <1>1, <1>5
  <2> HIDE DEF of, routes
  <2>5. of \in Bijection(first, routes)
    BY <2>2, <2>3, <2>4 DEF Bijection, Injection, Surjection, IsInjective
  <2>6. ExistsBijection(first, routes)
    BY <2>5 DEF ExistsBijection
  <2> QED
    BY <2>1, <2>6, FS_Bijection DEF d
\* The itineraries of a route.
<1>9. ASSUME NEW r \in routes
      PROVE  /\ group(r) \in Seq(Itinerary) /\ group(r) # <<>> /\ group(r)[1].route = r
             /\ \A i \in here(r) : \E j \in DOMAIN group(r) : group(r)[j] = plan[i]
             /\ \A j \in DOMAIN group(r) : \E i \in here(r) : group(r)[j] = plan[i]
  <2> DEFINE c == Cardinality(here(r))
             f == Ascending(here(r))
  <2>1. here(r) \in SUBSET (DOMAIN plan)
    OBVIOUS
  <2>2. PICK i0 \in here(r) : TRUE
    OBVIOUS
  <2> HIDE DEF here
  <2>3. /\ c \in Nat /\ f \in [1 .. c -> here(r)]
        /\ \A x \in here(r) : \E i \in 1 .. c : f[i] = x
        /\ group(r) \in Seq(Itinerary) /\ Len(group(r)) = c
        /\ \A i \in 1 .. c : group(r)[i] = plan[f[i]]
    BY <2>1, KeptFacts
  <2> HIDE DEF c, f, group
  <2>4. 1 \in 1 .. c
    BY <2>2, <2>3
  <2>5. group(r) # <<>> /\ DOMAIN group(r) = 1 .. c
    BY <2>3, <2>4
  <2>6. group(r)[1].route = r
    <3>1. f[1] \in here(r) /\ group(r)[1] = plan[f[1]]
      BY <2>3, <2>4
    <3>2. plan[f[1]].route = r
      BY <1>4, <3>1
    <3> QED
      BY <3>1, <3>2
  <2>7. \A j \in DOMAIN group(r) : \E i \in here(r) : group(r)[j] = plan[i]
    BY <2>3, <2>5
  <2> QED
    BY <2>3, <2>5, <2>6, <2>7
<1> DEFINE result(r) == Group(group(r))
<1>10. ASSUME NEW r \in routes
       PROVE  /\ result(r) \in Result /\ result(r).route = r /\ ~result(r).disrupted
              /\ Departure(result(r)) \in ToSet(plan)
              /\ \A i \in 1 .. n : plan[i].route = r =>
                   /\ result(r).start <= plan[i].start
                   /\ result(r).next = <<>> \/ plan[i].start \in ToSet(result(r).next)
  <2> DEFINE g == group(r)
  <2>1. /\ g \in Seq(Itinerary) /\ g # <<>> /\ g[1].route = r
        /\ \A i \in here(r) : \E j \in DOMAIN g : g[j] = plan[i]
        /\ \A j \in DOMAIN g : \E i \in here(r) : g[j] = plan[i]
    BY <1>9
  <2> HIDE DEF g
  <2>2. /\ Starts(g) \in Seq(Nat) /\ Starts(g) # <<>>
        /\ \A i \in DOMAIN g : g[i].start \in ToSet(Starts(g)) /\ Starts(g)[1] <= g[i].start
        /\ \E j \in DOMAIN g : Starts(g)[1] = g[j].start
    BY <2>1, StartsFacts
  <2>3. Starts(g)[1] \in Nat
    BY <2>2
  <2>4. result(r) = [route |-> r, start |-> Starts(g)[1], disrupted |-> FALSE,
                     next |-> IF Len(g) = 1 THEN <<>> ELSE Starts(g)]
    BY <2>1 DEF Group, g
  <2> HIDE DEF result
  <2>5. r \in DOMAIN Routes
    BY <1>1 DEF Itinerary
  <2>6. result(r) \in Result
    BY <2>2, <2>3, <2>4, <2>5 DEF Result
  <2>7. ASSUME NEW i \in 1 .. n, plan[i].route = r
        PROVE  /\ result(r).start <= plan[i].start
               /\ result(r).next = <<>> \/ plan[i].start \in ToSet(result(r).next)
    <3>1. PICK j \in DOMAIN g : g[j] = plan[i]
      BY <1>1, <2>1, <2>7
    <3> QED
      BY <2>2, <2>4, <3>1
  <2>8. Departure(result(r)) \in ToSet(plan)
    <3>1. PICK i \in here(r) : plan[i].start = Starts(g)[1]
      BY <2>1, <2>2
    <3>2. plan[i] \in Itinerary /\ i \in DOMAIN plan /\ plan[i].route = r
      BY <1>1
    <3>3. plan[i] = [route |-> r, start |-> Starts(g)[1]]
      BY <3>1, <3>2 DEF Itinerary
    <3>4. Departure(result(r)) = plan[i]
      BY <2>4, <3>3 DEF Departure
    <3> QED
      BY <3>2, <3>4 DEF ToSet
  <2> QED
    BY <2>4, <2>6, <2>7, <2>8
<1> HIDE DEF result, group
<1>11. \A k \in 1 .. d :
         heads[k].route \in routes /\ \E i \in DOMAIN plan : plan[i].route = heads[k].route
  BY <1>1, <1>2, <1>7
<1>12. grouped = [k \in 1 .. d |-> result(heads[k].route)]
  <2>1. DOMAIN heads = 1 .. d
    BY <1>7
  <2> QED
    BY <2>1 DEF GroupByRoute, result, group, heads, first
<1> HIDE DEF grouped, routes
<1>13. \A k \in 1 .. d : grouped[k] = result(heads[k].route) /\ grouped[k] \in Result
                         /\ grouped[k].route = heads[k].route /\ ~grouped[k].disrupted
  BY <1>10, <1>11, <1>12
<1>14. grouped \in Seq(Result) /\ DOMAIN grouped = 1 .. d /\ Len(grouped) = d
  <2>1. grouped \in [1 .. d -> Result]
    BY <1>12, <1>13
  <2> QED
    BY <1>7, <2>1
<1>15. ASSUME NEW i \in DOMAIN plan
       PROVE  \E k \in DOMAIN grouped :
                /\ grouped[k].route = plan[i].route
                /\ grouped[k].start <= plan[i].start
                /\ grouped[k].next = <<>> \/ plan[i].start \in ToSet(grouped[k].next)
                /\ Departure(grouped[k]) \in ToSet(plan)
                /\ grouped[k].disrupted = (Departure(grouped[k]) \in {})
  <2>1. PICK h \in first : plan[h].route = plan[i].route
    BY <1>1, <1>5
  <2>2. PICK k \in 1 .. d : at[k] = h
    BY <1>7
  <2>3. heads[k].route = plan[i].route
    BY <1>7, <2>1, <2>2
  <2>4. grouped[k].disrupted = FALSE /\ grouped[k].route = plan[i].route
        /\ grouped[k] = result(plan[i].route) /\ plan[i].route \in routes
    BY <1>11, <1>13, <2>3 DEF Result
  <2>5. /\ grouped[k].start <= plan[i].start
        /\ grouped[k].next = <<>> \/ plan[i].start \in ToSet(grouped[k].next)
        /\ Departure(grouped[k]) \in ToSet(plan)
    BY <1>1, <1>10, <2>4
  <2>6. grouped[k].disrupted = (Departure(grouped[k]) \in {}) /\ k \in DOMAIN grouped
    <3>1. (Departure(grouped[k]) \in {}) = FALSE
      OBVIOUS
    <3>2. grouped[k].disrupted = FALSE /\ k \in DOMAIN grouped
      BY <1>14, <2>4
    <3> QED
      BY <3>1, <3>2, Zenon
  <2> QED
    BY <2>4, <2>5, <2>6, Zenon
<1>16. ShowsPlan(grouped, plan, {})
  BY <1>8, <1>14, <1>15 DEF ShowsPlan, routes
<1> QED
  BY <1>11, <1>13, <1>14, <1>16 DEF grouped

\* rank: the same results, marked as the disruptions of the moment have it, the lower score
\* first.
LEMMA RankFacts ==
  ASSUME NEW grouped \in Seq(Result), NEW profile, NEW weather, NEW struck
  PROVE  LET list == Rank(grouped, profile, weather, struck)
             mark(k) == [grouped[k] EXCEPT !.disrupted = (Departure(grouped[k]) \in struck)]
         IN /\ list \in Seq(Result) /\ Len(list) = Len(grouped)
            /\ \A i \in DOMAIN list : \E k \in DOMAIN grouped : list[i] = mark(k)
            /\ \A k \in DOMAIN grouped : \E i \in DOMAIN list : list[i] = mark(k)
            /\ \A i, j \in DOMAIN list : j < i =>
                 Score(list[j], profile, weather) <= Score(list[i], profile, weather)
<1> DEFINE n == Len(grouped)
           mark(k) == [grouped[k] EXCEPT !.disrupted = (Departure(grouped[k]) \in struck)]
           marked == [k \in DOMAIN grouped |-> mark(k)]
           score == [k \in DOMAIN marked |-> Score(marked[k], profile, weather)]
           f == StableOrder(score)
           list == Rank(grouped, profile, weather, struck)
<1>1. n \in Nat /\ DOMAIN grouped = 1 .. n /\ \A k \in 1 .. n : grouped[k] \in Result
  OBVIOUS
<1>2. \A k \in 1 .. n : mark(k) \in Result
  <2> SUFFICES ASSUME NEW k \in 1 .. n PROVE mark(k) \in Result
    OBVIOUS
  <2>1. grouped[k] \in Result
    BY <1>1
  <2>2. (Departure(grouped[k]) \in struck) \in BOOLEAN
    OBVIOUS
  <2> QED
    BY <2>1, <2>2 DEF Result
<1>3. DOMAIN marked = 1 .. n /\ \A k \in 1 .. n : marked[k] = mark(k)
  BY <1>1
<1> HIDE DEF mark, marked
<1>4. /\ score \in [1 .. n -> Int]
      /\ \A k \in 1 .. n : score[k] = Score(mark(k), profile, weather)
  <2>1. \A k \in 1 .. n : Score(mark(k), profile, weather) \in Int
    BY <1>2, ScoreType
  <2> QED
    BY <1>3, <2>1
<1> HIDE DEF score
<1>5. /\ f \in [1 .. n -> 1 .. n]
      /\ \A i, j \in 1 .. n : i < j => score[f[i]] <= score[f[j]]
      /\ \A k \in 1 .. n : \E i \in 1 .. n : f[i] = k
  BY <1>1, <1>4, StableOrderFacts
<1>6. list = [i \in 1 .. n |-> marked[f[i]]]
  <2>1. list = Taken(marked, f)
    BY DEF Rank, f, score, marked, mark
  <2> QED
    BY <1>5, <2>1 DEF Taken
<1> HIDE DEF f, list
<1>7. \A i \in 1 .. n : f[i] \in 1 .. n /\ list[i] = mark(f[i]) /\ list[i] \in Result
  BY <1>2, <1>3, <1>5, <1>6
<1>8. list \in Seq(Result) /\ DOMAIN list = 1 .. n /\ Len(list) = n
  <2>1. list \in [1 .. n -> Result]
    BY <1>6, <1>7
  <2> QED
    BY <1>1, <2>1
<1>9. \A i \in 1 .. n : \E k \in 1 .. n : list[i] = mark(k)
  BY <1>7
<1>10. \A k \in 1 .. n : \E i \in 1 .. n : list[i] = mark(k)
  BY <1>5, <1>7
<1>11. \A i, j \in 1 .. n : j < i =>
          Score(list[j], profile, weather) <= Score(list[i], profile, weather)
  <2> SUFFICES ASSUME NEW i \in 1 .. n, NEW j \in 1 .. n, j < i
               PROVE  Score(list[j], profile, weather) <= Score(list[i], profile, weather)
    OBVIOUS
  <2>1. score[f[j]] <= score[f[i]] /\ f[i] \in 1 .. n /\ f[j] \in 1 .. n
    BY <1>5
  <2>2. /\ score[f[i]] = Score(list[i], profile, weather)
        /\ score[f[j]] = Score(list[j], profile, weather)
    BY <1>4, <1>7, <2>1
  <2> QED
    BY <2>1, <2>2
<1> QED
  BY <1>1, <1>8, <1>9, <1>10, <1>11 DEF list, mark

\* The first of the results at which a measure is the least.
LEMMA FirstBestFacts ==
  ASSUME NEW n \in Nat, n > 0, NEW measure \in [1 .. n -> Nat]
  PROVE  /\ FirstBest(measure) \in 1 .. n
         /\ \A j \in 1 .. n : measure[FirstBest(measure)] <= measure[j]
<1> DEFINE range == {measure[i] : i \in 1 .. n}
<1>1. /\ range \subseteq Nat /\ range # {}
      /\ \A i \in 1 .. n : measure[i] \in Nat /\ measure[i] \in range
  <2>1. 1 \in 1 .. n
    OBVIOUS
  <2> QED
    BY <2>1
<1>2. PICK m \in range : \A v \in range : m <= v
  <2> HIDE DEF range
  <2> QED
    BY <1>1, LeastMember
<1> DEFINE least == {i \in 1 .. n : measure[i] = m}
<1>3. least \subseteq Nat /\ least # {}
  OBVIOUS
<1>4. PICK h \in least : \A i \in least : h <= i
  <2> HIDE DEF least, range
  <2> QED
    BY <1>3, LeastMember
<1> HIDE DEF range
<1>5. h \in 1 .. n /\ measure[h] = m /\ \A j \in 1 .. n : measure[h] <= measure[j]
  BY <1>1, <1>2, <1>4
<1>6. \A j \in 1 .. h - 1 : measure[h] < measure[j]
  <2> SUFFICES ASSUME NEW j \in 1 .. h - 1 PROVE measure[h] < measure[j]
    OBVIOUS
  <2>1. j \in 1 .. n /\ measure[j] # m
    BY <1>4, <1>5
  <2> QED
    BY <1>1, <1>5, <2>1
<1>7. \E i \in DOMAIN measure : /\ \A j \in DOMAIN measure : measure[i] <= measure[j]
                                /\ \A j \in 1 .. i - 1 : measure[i] < measure[j]
  BY <1>5, <1>6
<1> QED
  BY <1>7 DEF FirstBest

\* computeItineraryBadges: at most two badges, and "fastest" is.
BadgesTrue(list, limits) ==
  LET badges == Badges(list, limits) IN
    /\ Cardinality(DOMAIN badges) <= 2
    /\ \A k \in DOMAIN badges : badges[k] = "fastest" =>
         \A i \in DOMAIN list : Minutes(list)[k] <= Minutes(list)[i]

\* computeItineraryBadges, of any list and for any limits.
LEMMA BadgesFacts ==
  ASSUME NEW list \in Seq(Result), NEW limits
  PROVE  BadgesTrue(list, limits)
<1> DEFINE n == Len(list)
           badges == Badges(list, limits)
<1>1. ASSUME NEW a, NEW b PROVE Cardinality({a} \cup {b}) <= 2
  <2>1. IsFiniteSet({a}) /\ Cardinality({a}) = 1
    BY FS_Singleton
  <2> DEFINE size == Cardinality({a} \cup {b})
  <2>2. size = IF b \in {a} THEN 1 ELSE 1 + 1
    BY <2>1, FS_AddElement
  <2> HIDE DEF size
  <2>3. size <= 2
    BY ONLY <2>2
  <2> QED
    BY <2>3, Zenon DEF size
<1>2. CASE list = <<>>
  <2>1. badges = <<>>
    BY <1>2 DEF Badges
  <2>2. DOMAIN badges = {}
    BY <2>1
  <2> HIDE DEF badges
  <2>3. Cardinality(DOMAIN badges) = 0
    BY <2>2, FS_EmptySet
  <2> QED
    BY <2>2, <2>3 DEF BadgesTrue, badges
<1>3. CASE list # <<>> /\ limits = {}
  <2> DEFINE best == FirstBest(Minutes(list))
  <2>1. n \in Nat /\ n > 0 /\ DOMAIN list = 1 .. n /\ \A i \in 1 .. n : list[i] \in Result
    BY <1>3
  <2>2. Minutes(list) \in [1 .. n -> Nat]
    BY <2>1, RouteFacts DEF Minutes, Result
  <2>3. \A i \in 1 .. n : Minutes(list)[best] <= Minutes(list)[i]
    <3> HIDE DEF n
    <3> QED
      BY <2>1, <2>2, FirstBestFacts
  <2> HIDE DEF best
  <2>4. badges = [k \in {best} |-> "fastest"]
    BY <1>3 DEF Badges, best
  <2> HIDE DEF badges
  <2>5. DOMAIN badges = {best}
    BY <2>4
  <2>6. Cardinality(DOMAIN badges) <= 2
    <3>1. {best} = {best} \cup {best}
      OBVIOUS
    <3> QED
      BY <1>1, <2>5, <3>1
  <2> QED
    BY <2>1, <2>3, <2>5, <2>6 DEF BadgesTrue, badges
<1>4. CASE list # <<>> /\ limits # {}
  <2> DEFINE target == IF "transfers" \in limits THEN FirstBest(Transfers(list))
                       ELSE IF "walking" \in limits THEN FirstBest(Walk(list)) ELSE 1
  <2>1. badges = [i \in {1, target} |->
                    IF i = 1 THEN "suits"
                    ELSE IF "transfers" \in limits THEN "fewest" ELSE "least walk"]
    BY <1>4 DEF Badges
  <2> HIDE DEF badges, target
  <2>2. /\ DOMAIN badges = {1} \cup {target}
        /\ \A k \in DOMAIN badges : badges[k] \in {"suits", "fewest", "least walk"}
    BY <2>1
  <2>3. Cardinality(DOMAIN badges) <= 2
    BY <1>1, <2>2
  <2> QED
    BY <2>2, <2>3 DEF BadgesTrue, badges
<1> QED
  BY <1>2, <1>3, <1>4

\* A list that is ranked shows the plan, and puts nothing after what is worse in every way.
LEMMA RankedShows ==
  ASSUME NEW plan \in Seq(Itinerary), NEW profile, NEW weather, NEW struck
  PROVE  LET list == Rank(GroupByRoute(plan), profile, weather, struck) IN
         /\ list \in Seq(Result)
         /\ ShowsPlan(list, plan, struck)
         /\ \A i \in DOMAIN list :
              /\ \E j \in DOMAIN plan : list[i].route = plan[j].route
              /\ \A j \in 1 .. i - 1 : ~Better(list[i], list[j], profile, weather)
<1> DEFINE grouped == GroupByRoute(plan)
           list == Rank(grouped, profile, weather, struck)
           mark(k) == [grouped[k] EXCEPT !.disrupted = (Departure(grouped[k]) \in struck)]
<1>1. /\ grouped \in Seq(Result)
      /\ \A k \in DOMAIN grouped : \E i \in DOMAIN plan : plan[i].route = grouped[k].route
      /\ ShowsPlan(grouped, plan, {})
  BY GroupFacts
<1> HIDE DEF grouped
<1>2. /\ list \in Seq(Result) /\ Len(list) = Len(grouped)
      /\ \A i \in DOMAIN list : \E k \in DOMAIN grouped : list[i] = mark(k)
      /\ \A k \in DOMAIN grouped : \E i \in DOMAIN list : list[i] = mark(k)
      /\ \A i, j \in DOMAIN list : j < i =>
           Score(list[j], profile, weather) <= Score(list[i], profile, weather)
  BY <1>1, RankFacts
<1>3. \A k \in DOMAIN grouped :
        /\ mark(k).route = grouped[k].route /\ mark(k).start = grouped[k].start
        /\ mark(k).next = grouped[k].next
        /\ mark(k).disrupted = (Departure(grouped[k]) \in struck)
  <2> SUFFICES ASSUME NEW k \in DOMAIN grouped
      PROVE  /\ mark(k).route = grouped[k].route /\ mark(k).start = grouped[k].start
             /\ mark(k).next = grouped[k].next
             /\ mark(k).disrupted = (Departure(grouped[k]) \in struck)
    OBVIOUS
  <2>1. grouped[k] \in Result
    BY <1>1
  <2> QED
    BY <2>1 DEF Result
<1> HIDE DEF list, mark
<1>4. DOMAIN list = 1 .. Len(list) /\ Len(list) \in Nat /\ \A i \in DOMAIN list : list[i] \in Result
  BY <1>2
<1>5. ASSUME NEW i \in DOMAIN list
      PROVE  /\ \E j \in DOMAIN plan : list[i].route = plan[j].route
             /\ \A j \in 1 .. i - 1 : ~Better(list[i], list[j], profile, weather)
  <2>1. \E j \in DOMAIN plan : list[i].route = plan[j].route
    BY <1>1, <1>2, <1>3
  <2>2. ASSUME NEW j \in 1 .. i - 1, Better(list[i], list[j], profile, weather) PROVE FALSE
    <3>1. j \in DOMAIN list /\ j < i
      BY <1>4, <2>2
    <3>2. Score(list[i], profile, weather) < Score(list[j], profile, weather)
      BY <1>4, <2>2, <3>1, BetterScores
    <3>3. Score(list[j], profile, weather) <= Score(list[i], profile, weather)
      BY <1>2, <3>1
    <3>4. Score(list[i], profile, weather) \in Int /\ Score(list[j], profile, weather) \in Int
      BY <1>4, <3>1, ScoreType
    <3> QED
      BY <3>2, <3>3, <3>4
  <2> QED
    BY <2>1, <2>2
<1>6. ASSUME NEW i \in DOMAIN plan
      PROVE  \E m \in DOMAIN list :
               /\ list[m].route = plan[i].route
               /\ list[m].start <= plan[i].start
               /\ list[m].next = <<>> \/ plan[i].start \in ToSet(list[m].next)
               /\ Departure(list[m]) \in ToSet(plan)
               /\ list[m].disrupted = (Departure(list[m]) \in struck)
  <2>1. PICK k \in DOMAIN grouped :
          /\ grouped[k].route = plan[i].route
          /\ grouped[k].start <= plan[i].start
          /\ grouped[k].next = <<>> \/ plan[i].start \in ToSet(grouped[k].next)
          /\ Departure(grouped[k]) \in ToSet(plan)
    BY <1>1 DEF ShowsPlan
  <2>2. PICK m \in DOMAIN list : list[m] = mark(k)
    BY <1>2
  <2>3. /\ list[m].route = plan[i].route /\ list[m].start = grouped[k].start
        /\ list[m].next = grouped[k].next
        /\ list[m].disrupted = (Departure(grouped[k]) \in struck)
    BY <1>3, <2>1, <2>2
  <2>4. Departure(list[m]) = Departure(grouped[k])
    BY <2>1, <2>3 DEF Departure
  <2> QED
    BY <2>1, <2>3, <2>4
<1>7. ShowsPlan(list, plan, struck)
  <2>1. Len(list) = Cardinality({plan[i].route : i \in DOMAIN plan})
    BY <1>1, <1>2 DEF ShowsPlan
  <2> QED
    BY <1>6, <2>1 DEF ShowsPlan
<1> QED
  BY <1>2, <1>5, <1>7 DEF list, grouped

\* What OTP is taken to find fits the modes that it was asked for.
LEMMA FindsFacts ==
  ASSUME NEW plan \in Plans, NEW modes
  PROVE  /\ Finds(plan, modes) \in Seq(Itinerary)
         /\ \A i \in DOMAIN Finds(plan, modes) : RouteFits(Finds(plan, modes)[i].route, modes)
<1> DEFINE K == {i \in DOMAIN plan : RouteFits(plan[i].route, modes)}
           n == Cardinality(K)
           f == Ascending(K)
           itineraries == Kept(plan, K)
<1>1. plan \in Seq(Itinerary) /\ K \in SUBSET (DOMAIN plan)
  BY PlansAssumption
<1>2. \A i \in K : RouteFits(plan[i].route, modes)
  OBVIOUS
<1> HIDE DEF K
<1>3. /\ n \in Nat /\ f \in [1 .. n -> K]
      /\ itineraries \in Seq(Itinerary) /\ Len(itineraries) = n
      /\ \A i \in 1 .. n : itineraries[i] = plan[f[i]]
  BY <1>1, KeptFacts
<1> HIDE DEF n, f, itineraries
<1>4. \A i \in DOMAIN itineraries : RouteFits(itineraries[i].route, modes)
  BY <1>2, <1>3
<1> QED
  BY <1>3, <1>4 DEF Finds, itineraries, K

-----------------------------------------------------------------------------
(* The searches under way.                                                   *)

\* What AnswersFit says of one answer.
AnswerFits(t, struck, weather) ==
  /\ ShowsPlan(t.listed, t.plan, IF t.fallback = "walk-only" THEN {} ELSE struck)
  /\ \A i \in DOMAIN t.listed :
       /\ t.fallback = "walk-only" \/ RouteFits(t.listed[i].route, t.modes)
       /\ \A j \in 1 .. i - 1 : ~Better(t.listed[i], t.listed[j], t.profile, weather)
  /\ BadgesTrue(t.listed, t.profile.limits)

PlanFits(t) == \A i \in DOMAIN t.plan : RouteFits(t.plan[i].route, t.modes)

\* A search that goes on has not fallen back on the walk, and the plan of one that waits
\* for the weather fits the modes asked for.
Prepared(t) ==
  /\ t.stage \in {"planning", "later", "walk", "ranking"} => t.fallback # "walk-only"
  /\ t.stage = "ranking" => PlanFits(t)

SearchInv == TypeOK /\ \A s \in Searches : search[s] # None => Prepared(search[s])

\* A search that is ranked answers with a list that is right at that moment.
LEMMA RankedFits ==
  ASSUME NEW t \in Request, t.fallback # "walk-only", PlanFits(t), NEW weather
  PROVE  /\ Ranked(t, weather) \in Request /\ Ranked(t, weather).stage = "answered"
         /\ AnswerFits(Ranked(t, weather), disrupted, weather)
<1> DEFINE list == Rank(GroupByRoute(t.plan), t.profile, weather, disrupted)
           u == Ranked(t, weather)
<1>1. t.plan \in Seq(Itinerary)
  BY DEF Request
<1>2. /\ list \in Seq(Result)
      /\ ShowsPlan(list, t.plan, disrupted)
      /\ \A i \in DOMAIN list :
           /\ \E j \in DOMAIN t.plan : list[i].route = t.plan[j].route
           /\ \A j \in 1 .. i - 1 : ~Better(list[i], list[j], t.profile, weather)
  BY <1>1, RankedShows
<1>3. u = [t EXCEPT !.stage = "answered", !.listed = list]
  BY DEF Ranked, Answer
<1> HIDE DEF list, u
<1>4. /\ u \in Request /\ u.stage = "answered" /\ u.listed = list /\ u.plan = t.plan
      /\ u.fallback = t.fallback /\ u.modes = t.modes /\ u.profile = t.profile
  BY <1>2, <1>3 DEF Request, Stages
<1>5. BadgesTrue(list, u.profile.limits)
  BY <1>2, BadgesFacts
<1>6. \A i \in DOMAIN list : RouteFits(list[i].route, t.modes)
  BY <1>2 DEF PlanFits
<1> QED
  BY <1>2, <1>4, <1>5, <1>6 DEF AnswerFits, u

Answered(s) == search[s] # None /\ ~At(s, "answered") /\ At(s, "answered")'

\* A step of one search.
LEMMA OneSearch ==
  ASSUME SearchInv, NEW s \in Searches, NEW u \in Request \cup {None},
         search' = [search EXCEPT ![s] = u],
         u # None => Prepared(u),
         u # None /\ search[s] # None /\ u.stage = "answered" /\ search[s].stage # "answered" =>
           AnswerFits(u, disrupted, sky),
         pending' \in BOOLEAN, UNCHANGED <<sky, disrupted>>
  PROVE  SearchInv' /\ \A q \in Searches : Answered(q) => AnswerFits(search'[q], disrupted, sky')
<1>1. search' \in [Searches -> Request \cup {None}] /\ search'[s] = u
      /\ \A q \in Searches : q # s => search'[q] = search[q]
  BY DEF SearchInv, TypeOK
<1>2. SearchInv'
  BY <1>1 DEF SearchInv, TypeOK, Prepared, PlanFits
<1>3. ASSUME NEW q \in Searches, Answered(q) PROVE AnswerFits(search'[q], disrupted, sky')
  <2>1. q = s
    BY <1>1, <1>3 DEF Answered, At
  <2> QED
    BY <1>1, <1>3, <2>1 DEF Answered, At
<1> QED
  BY <1>2, <1>3

\* The weather is known, or is waited for.
LEMMA EnrichFits ==
  ASSUME SearchInv, NEW s \in Searches, NEW t \in Request, t.fallback # "walk-only", PlanFits(t),
         Enrich(s, t), UNCHANGED <<sky, disrupted>>
  PROVE  SearchInv' /\ \A q \in Searches : Answered(q) => AnswerFits(search'[q], disrupted, sky')
<1>1. CASE sky # None
  <2> DEFINE u == Ranked(t, sky)
  <2>1. u \in Request /\ u.stage = "answered" /\ AnswerFits(u, disrupted, sky)
    BY RankedFits
  <2>2. search' = [search EXCEPT ![s] = u] /\ pending' \in BOOLEAN
    BY <1>1 DEF Enrich, SearchInv, TypeOK
  <2> HIDE DEF u
  <2> QED
    BY <2>1, <2>2, OneSearch DEF Prepared
<1>2. CASE sky = None
  <2> DEFINE u == [t EXCEPT !.stage = "ranking"]
  <2>1. /\ u \in Request /\ u.stage = "ranking" /\ u.fallback = t.fallback
        /\ u.plan = t.plan /\ u.modes = t.modes
    BY DEF Request, Stages
  <2>2. search' = [search EXCEPT ![s] = u] /\ pending' \in BOOLEAN
    BY <1>2 DEF Enrich
  <2> HIDE DEF u
  <2>3. Prepared(u)
    BY <2>1 DEF Prepared, PlanFits
  <2> QED
    BY <2>1, <2>2, <2>3, OneSearch
<1> QED
  BY <1>1, <1>2

\* The walk that is answered in the end shows the plan it was made of.
LEMMA WalkFits ==
  ASSUME SearchInv, NEW s \in Searches, NEW onFoot \in BOOLEAN, PlannedWalk(s, onFoot)
  PROVE  SearchInv' /\ \A q \in Searches : Answered(q) => AnswerFits(search'[q], disrupted, sky')
<1> DEFINE plan == IF onFoot THEN <<[route |-> WalkOnly, start |-> 0]>> ELSE <<>>
           fallback == IF onFoot THEN "walk-only" ELSE None
           list == GroupByRoute(plan)
           u == [search[s] EXCEPT !.plan = plan, !.fallback = fallback,
                                  !.stage = "answered", !.listed = list]
<1>0. /\ search[s] \in Request /\ search[s].stage = "walk"
      /\ search \in [Searches -> Request \cup {None}]
      /\ pending' \in BOOLEAN /\ UNCHANGED <<sky, disrupted>>
  BY PlansAssumption DEF SearchInv, TypeOK, PlannedWalk, At
<1>1. plan \in Seq(Itinerary) /\ Len(plan) \in {0, 1} /\ (~onFoot => plan = <<>>)
      /\ fallback \in {None, "walk-only"} /\ (onFoot => fallback = "walk-only")
      /\ (~onFoot => fallback # "walk-only")
  <2>1. None # "walk-only"
    BY PlansAssumption
  <2>2. [route |-> WalkOnly, start |-> 0] \in Itinerary
    BY PlansAssumption DEF Itinerary
  <2>3. CASE onFoot
    BY <2>2, <2>3
  <2>4. CASE ~onFoot
    BY <2>1, <2>4
  <2> QED
    BY <2>3, <2>4
<1> HIDE DEF plan, fallback
<1>2. list \in Seq(Result) /\ ShowsPlan(list, plan, {})
  BY <1>1, GroupFacts
<1> HIDE DEF list
<1>3. Len(list) \in Nat /\ Len(list) <= 1 /\ DOMAIN list = 1 .. Len(list)
  <2>1. DOMAIN plan \subseteq {1}
    BY <1>1
  <2>2. {plan[i].route : i \in DOMAIN plan} \in SUBSET {plan[1].route}
    BY <2>1
  <2>3. Cardinality({plan[i].route : i \in DOMAIN plan}) <= 1
    <3>1. IsFiniteSet({plan[1].route}) /\ Cardinality({plan[1].route}) = 1
      BY FS_Singleton
    <3> QED
      BY ONLY <2>2, <3>1, FS_Subset
  <2> QED
    BY <1>2, <2>3 DEF ShowsPlan
<1>4. /\ u \in Request /\ u.stage = "answered" /\ u.listed = list /\ u.plan = plan
      /\ u.fallback = fallback
  BY <1>0, <1>1, <1>2 DEF Request, Stages
<1>5. search' = [search EXCEPT ![s] = u]
  BY <1>0 DEF PlannedWalk, Answer, plan, list, fallback
<1> HIDE DEF u
<1>6. AnswerFits(u, disrupted, sky)
  <2>1. ShowsPlan(list, plan, IF fallback = "walk-only" THEN {} ELSE disrupted)
    <3>1. CASE onFoot
      BY <1>1, <1>2, <3>1
    <3>2. CASE ~onFoot
      <4>1. DOMAIN plan = {}
        BY <1>1, <3>2
      <4> QED
        BY <1>2, <4>1 DEF ShowsPlan
    <3> QED
      BY <3>1, <3>2
  <2>2. \A i \in DOMAIN list : fallback = "walk-only" /\ \A j \in 1 .. i - 1 : FALSE
    <3>1. CASE onFoot
      BY <1>1, <1>3, <3>1
    <3>2. CASE ~onFoot
      <4>1. {plan[i].route : i \in DOMAIN plan} = {}
        BY <1>1, <3>2
      <4>2. Len(list) = 0
        BY <1>2, <4>1, FS_EmptySet DEF ShowsPlan
      <4> QED
        BY <1>3, <4>2
    <3> QED
      BY <3>1, <3>2
  <2>3. BadgesTrue(list, u.profile.limits)
    BY <1>2, BadgesFacts
  <2> QED
    BY <1>4, <2>1, <2>2, <2>3 DEF AnswerFits
<1> QED
  BY <1>0, <1>4, <1>5, <1>6, OneSearch DEF Prepared

\* The weather answers: every search that waited for it is ranked, and rightly.
LEMMA WaitingFits ==
  ASSUME SearchInv, NEW weather \in {None, "rain", "dry"}, WeatherAnswers(weather)
  PROVE  SearchInv' /\ \A q \in Searches : Answered(q) => AnswerFits(search'[q], disrupted, sky')
<1>1. /\ \A q \in Waiting : q \in Searches /\ search[q] \in Request /\ search[q].stage = "ranking"
                            /\ search[q].fallback # "walk-only" /\ PlanFits(search[q])
      /\ sky' = weather /\ pending' = FALSE /\ UNCHANGED disrupted
      /\ search \in [Searches -> Request \cup {None}]
  BY DEF SearchInv, TypeOK, Prepared, Waiting, At, WeatherAnswers
<1>2. \A q \in Waiting : /\ Ranked(search[q], weather) \in Request
                         /\ Ranked(search[q], weather).stage = "answered"
                         /\ AnswerFits(Ranked(search[q], weather), disrupted, weather)
  BY <1>1, RankedFits
<1>3. \A q \in Searches :
        search'[q] = IF q \in Waiting THEN Ranked(search[q], weather) ELSE search[q]
  BY DEF WeatherAnswers, RankWaiting
<1>4. search' \in [Searches -> Request \cup {None}]
  <2>1. \A q \in Searches :
          (IF q \in Waiting THEN Ranked(search[q], weather) ELSE search[q]) \in Request \cup {None}
    BY <1>1, <1>2
  <2> QED
    BY <2>1 DEF WeatherAnswers, RankWaiting
<1>5. SearchInv'
  <2>1. TypeOK'
    BY <1>1, <1>4 DEF SearchInv, TypeOK
  <2>2. \A q \in Searches : search'[q] # None => Prepared(search'[q])
    BY <1>2, <1>3 DEF SearchInv, Prepared, PlanFits
  <2> QED
    BY <2>1, <2>2 DEF SearchInv, Prepared, PlanFits
<1>6. ASSUME NEW q \in Searches, Answered(q) PROVE AnswerFits(search'[q], disrupted, sky')
  <2>1. q \in Waiting
    BY <1>3, <1>6 DEF Answered, At
  <2> QED
    BY <1>1, <1>2, <1>3, <2>1
<1> QED
  BY <1>5, <1>6

\* Searches that fail answer nothing.
LEMMA FailFits ==
  ASSUME SearchInv, NEW S \in SUBSET {s \in Searches : search[s] # None}, search' = Fail(S),
         sky' = sky, disrupted' = disrupted, pending' \in BOOLEAN
  PROVE  SearchInv' /\ \A q \in Searches : Answered(q) => AnswerFits(search'[q], disrupted, sky')
<1>0. search \in [Searches -> Request \cup {None}]
  BY DEF SearchInv, TypeOK
<1>1. \A s \in S : /\ s \in Searches /\ search[s] \in Request
                   /\ [search[s] EXCEPT !.stage = "failed"] \in Request
                   /\ [search[s] EXCEPT !.stage = "failed"].stage = "failed"
  BY <1>0 DEF Request, Stages
<1>2. \A s \in Searches :
        search'[s] = IF s \in S THEN [search[s] EXCEPT !.stage = "failed"] ELSE search[s]
  BY DEF Fail
<1>3. search' \in [Searches -> Request \cup {None}]
  <2>1. \A s \in Searches :
          (IF s \in S THEN [search[s] EXCEPT !.stage = "failed"] ELSE search[s])
            \in Request \cup {None}
    BY <1>0, <1>1
  <2> QED
    BY <2>1 DEF Fail
<1>4. SearchInv'
  <2>1. TypeOK'
    BY <1>3 DEF SearchInv, TypeOK
  <2>2. \A s \in Searches : search'[s] # None => Prepared(search'[s])
    <3> SUFFICES ASSUME NEW s \in Searches, search'[s] # None PROVE Prepared(search'[s])
      OBVIOUS
    <3>1. CASE s \in S
      BY <1>1, <1>2, <3>1 DEF Prepared
    <3>2. CASE s \notin S
      BY <1>2, <3>2 DEF SearchInv
    <3> QED
      BY <3>1, <3>2
  <2> QED
    BY <2>1, <2>2 DEF SearchInv, Prepared, PlanFits
<1>5. \A q \in Searches : ~Answered(q)
  <2> SUFFICES ASSUME NEW q \in Searches, Answered(q) PROVE FALSE
    OBVIOUS
  <2>1. CASE q \in S
    BY <1>1, <1>2, <2>1 DEF Answered, At
  <2>2. CASE q \notin S
    BY <1>2, <2>2 DEF Answered, At
  <2> QED
    BY <2>1, <2>2
<1> QED
  BY <1>4, <1>5

\* One step of the searches, and what it answers.
LEMMA NextSearch ==
  SearchInv /\ [Next]_vars =>
    SearchInv' /\ \A q \in Searches : Answered(q) => AnswerFits(search'[q], disrupted, sky')
<1> DEFINE Goal == /\ SearchInv'
                   /\ \A q \in Searches : Answered(q) => AnswerFits(search'[q], disrupted, sky')
<1> SUFFICES ASSUME SearchInv, [Next]_vars PROVE Goal
  OBVIOUS
<1>0. /\ TypeOK /\ search \in [Searches -> Request \cup {None}]
      /\ None \notin Request
      /\ pending \in BOOLEAN /\ sky \in {None, "rain", "dry"} /\ disrupted \subseteq Disruptable
      /\ \A s \in Searches : search[s] # None => search[s] \in Request /\ Prepared(search[s])
  BY PlansAssumption DEF SearchInv, TypeOK
<1>1. ASSUME NEW s \in Searches, NEW account \in BOOLEAN, NEW modes \in ModeSets,
             Ask(s, account, modes)
      PROVE  Goal
  <2> DEFINE u == [stage |-> "planning", account |-> account, recorded |-> ~account,
                   modes |-> modes,
                   profile |-> NoPreference, plan |-> <<>>, listed |-> <<>>, fallback |-> None]
  <2>1. u \in Request /\ u.stage = "planning" /\ u.fallback = None
    BY PlansAssumption DEF Request, Stages
  <2>2. search' = [search EXCEPT ![s] = u] /\ UNCHANGED <<sky, pending, disrupted>>
    BY <1>1 DEF Ask
  <2> HIDE DEF u
  <2>3. Prepared(u)
    BY <2>1, PlansAssumption DEF Prepared
  <2> QED
    BY <1>0, <2>1, <2>2, <2>3, OneSearch
<1>2. ASSUME NEW s \in Searches, Record(s) PROVE Goal
  <2> DEFINE u == [search[s] EXCEPT !.recorded = TRUE]
  <2>1. /\ u \in Request /\ u.stage = search[s].stage /\ u.fallback = search[s].fallback
        /\ u.plan = search[s].plan /\ u.modes = search[s].modes
    BY <1>0, <1>2 DEF Record, Request
  <2>2. search' = [search EXCEPT ![s] = u] /\ UNCHANGED <<sky, pending, disrupted>>
    BY <1>0, <1>2 DEF Record
  <2> HIDE DEF u
  <2>3. Prepared(u)
    BY <1>0, <1>2, <2>1 DEF Prepared, PlanFits, Record
  <2> QED
    BY <1>0, <2>1, <2>2, <2>3, OneSearch
<1>3. ASSUME NEW s \in Searches, PlanFails(s) PROVE Goal
  <2>1. {s} \in SUBSET {q \in Searches : search[q] # None}
    BY <1>3 DEF PlanFails, At
  <2> QED
    BY <1>0, <1>3, <2>1, FailFits DEF PlanFails
<1>4. ASSUME NEW s \in Searches, Deliver(s) PROVE Goal
  BY <1>0, <1>4, OneSearch DEF Deliver
<1>5. ASSUME NEW s \in Searches, NEW plan \in Plans, NEW profile \in Profiles,
             Planned(s, plan, profile)
      PROVE  Goal
  <2> DEFINE itineraries == Finds(plan, search[s].modes)
             t == [search[s] EXCEPT !.profile = profile, !.plan = itineraries]
  <2>0. search[s] \in Request /\ search[s].stage = "planning" /\ search[s].fallback # "walk-only"
    BY <1>0, <1>5 DEF Planned, At, Prepared
  <2>1. /\ itineraries \in Seq(Itinerary)
        /\ \A i \in DOMAIN itineraries : RouteFits(itineraries[i].route, search[s].modes)
    BY FindsFacts
  <2>2. /\ IF itineraries # <<>> THEN Enrich(s, t)
           ELSE search' = [search EXCEPT ![s] = [t EXCEPT !.stage = "later"]] /\ UNCHANGED pending
        /\ UNCHANGED <<sky, disrupted>>
    BY <1>5 DEF Planned
  <2> HIDE DEF itineraries
  <2>3. /\ t \in Request /\ t.fallback = search[s].fallback /\ PlanFits(t)
    BY <2>0, <2>1 DEF Request, PlanFits
  <2> HIDE DEF t
  <2>4. CASE itineraries # <<>>
    BY <2>0, <2>2, <2>3, <2>4, EnrichFits
  <2>5. CASE itineraries = <<>>
    <3> DEFINE u == [t EXCEPT !.stage = "later"]
    <3>1. u \in Request /\ u.stage = "later" /\ u.fallback = t.fallback
      BY <2>3 DEF Request, Stages
    <3>2. search' = [search EXCEPT ![s] = u] /\ UNCHANGED <<pending, sky, disrupted>>
      BY <2>2, <2>5
    <3> HIDE DEF u
    <3> QED
      BY <1>0, <2>0, <2>3, <3>1, <3>2, OneSearch DEF Prepared
  <2> QED
    BY <2>4, <2>5
<1>6. ASSUME NEW s \in Searches, NEW plan \in Plans, PlannedLater(s, plan) PROVE Goal
  <2> DEFINE itineraries == Finds(plan, search[s].modes)
             t == [search[s] EXCEPT !.plan = itineraries, !.fallback = "later-departure"]
  <2>0. search[s] \in Request /\ search[s].stage = "later" /\ search[s].fallback # "walk-only"
    BY <1>0, <1>6 DEF PlannedLater, At, Prepared
  <2>1. /\ itineraries \in Seq(Itinerary)
        /\ \A i \in DOMAIN itineraries : RouteFits(itineraries[i].route, search[s].modes)
    BY FindsFacts
  <2>2. /\ IF itineraries # <<>> THEN Enrich(s, t)
           ELSE search' = [search EXCEPT ![s].stage = "walk"] /\ UNCHANGED pending
        /\ UNCHANGED <<sky, disrupted>>
    BY <1>6 DEF PlannedLater, FindsLater
  <2> HIDE DEF itineraries
  <2>3. t \in Request /\ t.fallback = "later-departure" /\ PlanFits(t)
    BY <2>0, <2>1 DEF Request, PlanFits
  <2> HIDE DEF t
  <2>4. CASE itineraries # <<>>
    BY <2>2, <2>3, <2>4, EnrichFits
  <2>5. CASE itineraries = <<>>
    <3> DEFINE u == [search[s] EXCEPT !.stage = "walk"]
    <3>1. u \in Request /\ u.stage = "walk" /\ u.fallback = search[s].fallback
      BY <2>0 DEF Request, Stages
    <3>2. search' = [search EXCEPT ![s] = u] /\ UNCHANGED <<pending, sky, disrupted>>
      BY <1>0, <2>2, <2>5
    <3> HIDE DEF u
    <3> QED
      BY <1>0, <2>0, <3>1, <3>2, OneSearch DEF Prepared
  <2> QED
    BY <2>4, <2>5
<1>7. ASSUME NEW s \in Searches, NEW onFoot \in BOOLEAN, PlannedWalk(s, onFoot) PROVE Goal
  BY <1>7, WalkFits
<1>8. ASSUME NEW weather \in {None, "rain", "dry"}, WeatherAnswers(weather) PROVE Goal
  BY <1>8, WaitingFits
<1>9. CASE WeatherUnreadable
  <2>1. Waiting \in SUBSET {q \in Searches : search[q] # None}
    BY DEF Waiting, At
  <2> QED
    BY <1>9, <2>1, FailFits DEF WeatherUnreadable
<1>10. ASSUME UNCHANGED search, sky' \in {None, "rain", "dry"}, pending' \in BOOLEAN,
              disrupted' \subseteq Disruptable
       PROVE  Goal
  BY <1>0, <1>10 DEF SearchInv, TypeOK, Prepared, PlanFits, Answered, At
<1>11. WeatherExpires \/ (\E struck \in SUBSET Disruptable : Disruptions(struck)) \/ UNCHANGED vars => Goal
  BY <1>0, <1>10 DEF WeatherExpires, Disruptions, vars
<1> HIDE DEF Goal
<1> QED
  BY <1>1, <1>2, <1>3, <1>4, <1>5, <1>6, <1>7, <1>8, <1>9, <1>11 DEF Next, Handle, WeatherEnds

\* No search is under way at first.
LEMMA InitSearch == Init => SearchInv
  BY DEF Init, SearchInv, TypeOK, Prepared

\* What each search has found, in its stage, fits what it was asked with, whichever of the
\* searches that share a request to the weather service ranked the others.
THEOREM SearchInvariance == Spec => []SearchInv
  BY InitSearch, NextSearch, PTL DEF Spec

\* Every reachable state of the searches, of the cached weather and of the disruptions is
\* well typed: no stage takes a search out of what TripsService makes of it.
THEOREM SearchTyped == Spec => []TypeOK
  BY SearchInvariance, PTL DEF SearchInv

\* Whatever OTP finds and whatever the weather and the disruptions become while it does,
\* an answer shows each route found once, at its next departure, puts none after one that
\* is worse in every way, and its badges are true (groupByRoute, rank,
\* computeItineraryBadges).
THEOREM AnswersShown == Spec => AnswersFit
<1>1. SearchInv /\ [Next]_vars =>
        [\A s \in Searches :
           LET t == search'[s] IN
           (search[s] # None /\ ~At(s, "answered") /\ At(s, "answered")') =>
             /\ ShowsPlan(t.listed, t.plan, IF t.fallback = "walk-only" THEN {} ELSE disrupted)
             /\ \A i \in DOMAIN t.listed :
                  /\ t.fallback = "walk-only" \/ RouteFits(t.listed[i].route, t.modes)
                  /\ \A j \in 1 .. i - 1 : ~Better(t.listed[i], t.listed[j], t.profile, sky')
             /\ LET badges == Badges(t.listed, t.profile.limits) IN
                  /\ Cardinality(DOMAIN badges) <= 2
                  /\ \A k \in DOMAIN badges : badges[k] = "fastest" =>
                       \A i \in DOMAIN t.listed : Minutes(t.listed)[k] <= Minutes(t.listed)[i]]_vars
  BY NextSearch DEF Answered, AnswerFits, BadgesTrue
<1> QED
  BY <1>1, SearchInvariance, PTL DEF Spec, AnswersFit
-----------------------------------------------------------------------------
(* The origin field that the places of a search are chosen in.               *)

\* The places of the trips are places that are known.
LEMMA AddressesFacts ==
  ASSUME NEW history \in Seq(PlaceTrips)
  PROVE  Addresses(history) \in Seq(Known)
<1> DEFINE n == 2 * Len(history)
           all == [i \in 1 .. n |-> history[(i + 1) \div 2][2 - (i % 2)]]
<1>1. Len(history) \in Nat /\ \A k \in 1 .. Len(history) : history[k] \in Known \X Known
  BY DEF PlaceTrips
<1>2. ASSUME NEW i \in 1 .. n PROVE all[i] \in Known
  <2>1. (i + 1) \div 2 \in 1 .. Len(history) /\ 2 - (i % 2) \in {1, 2}
    BY <1>1
  <2> QED
    BY <1>1, <2>1
<1>3. n \in Nat /\ all \in [1 .. n -> Known]
  BY <1>1, <1>2
<1>4. all \in Seq(Known)
  <2> HIDE DEF all, n
  <2> QED
    BY <1>3
<1> QED
  BY <1>4 DEF Addresses

\* What is in a list comes first somewhere.
LEMMA SeenAt ==
  ASSUME NEW list \in Seq(Known), NEW p \in Range(list)
  PROVE  \E h \in DOMAIN list : list[h] = p /\ \A j \in 1 .. h - 1 : list[j] # list[h]
<1> DEFINE n == Len(list)
           fn == [q \in 1 .. n |-> list[q]]
<1>1. n \in Nat /\ DOMAIN list = 1 .. n
  OBVIOUS
<1>2. PICK i \in 1 .. n : list[i] = p
  BY <1>1 DEF Range
<1>3. PICK h \in 1 .. i : fn[h] = fn[i] /\ \A j \in 1 .. h - 1 : fn[j] # fn[h]
  <2> HIDE DEF fn, n
  <2> QED
    BY ONLY <1>1, i \in 1 .. n, SeenFirst
<1>4. h \in 1 .. n /\ \A j \in 1 .. h - 1 : j \in 1 .. n
  BY <1>1
<1>5. fn[h] = list[h] /\ fn[i] = list[i] /\ \A j \in 1 .. h - 1 : fn[j] = list[j]
  BY <1>4
<1> QED
  BY <1>1, <1>2, <1>3, <1>4, <1>5

\* Where a place comes first in a list.
FirstAt(all, p) == CHOOSE i \in DOMAIN all : all[i] = p /\ \A j \in 1 .. i - 1 : all[j] # p

\* The recent addresses: each once, in the order in which the history has them, none that
\* is shown elsewhere, and no other left out but for lack of room.
LEMMA RecentAddressesFacts ==
  ASSUME NEW history \in Seq(PlaceTrips), NEW excluded
  PROVE  LET all == Addresses(history)
             recent == DeriveRecentAddresses(history, excluded)
         IN /\ recent \in Seq(Known)
            /\ \A i \in DOMAIN recent : recent[i] \notin excluded
            /\ \A i, j \in DOMAIN recent : i < j =>
                 FirstAt(all, recent[i]) < FirstAt(all, recent[j]) /\ recent[i] # recent[j]
            /\ \A p \in Range(all) \ (excluded \cup Range(recent)) :
                 Len(recent) = MaxAddresses
                 /\ \A q \in Range(recent) : FirstAt(all, q) < FirstAt(all, p)
<1> DEFINE all == Addresses(history)
           new == {i \in DOMAIN all :
                     all[i] \notin excluded /\ \A j \in 1 .. i - 1 : all[j] # all[i]}
           kept == Kept(all, new)
           at == Ascending(new)
           d == Cardinality(new)
           recent == FirstOnes(kept, MaxAddresses)
           first(p) == FirstAt(all, p)
<1>1. all \in Seq(Known) /\ DOMAIN all \subseteq Nat
  BY AddressesFacts
<1>2. DeriveRecentAddresses(history, excluded) = recent
  BY DEF DeriveRecentAddresses
<1>3. \A p \in new : p \in DOMAIN all /\ p \in Nat /\ all[p] \notin excluded
                     /\ \A j \in 1 .. p - 1 : all[j] # all[p]
  BY <1>1
<1> HIDE DEF all
<1>4. \A p \in new : first(all[p]) = p
  <2> SUFFICES ASSUME NEW p \in new PROVE first(all[p]) = p
    OBVIOUS
  <2>1. first(all[p]) \in DOMAIN all /\ all[first(all[p])] = all[p]
        /\ \A j \in 1 .. first(all[p]) - 1 : all[j] # all[p]
    BY <1>3 DEF FirstAt
  <2> DEFINE q == first(all[p])
  <2>2. q \in Nat /\ q >= 1 /\ p \in Nat /\ p >= 1
    BY <1>1, <1>3, <2>1
  <2> HIDE DEF q
  <2>3. ~(q < p) /\ ~(p < q)
    BY <1>3, <2>1, <2>2 DEF q
  <2> QED
    BY <2>2, <2>3 DEF q
<1>5. new \in SUBSET (DOMAIN all)
  OBVIOUS
<1> HIDE DEF new, first
<1>6. /\ d \in Nat /\ at \in [1 .. d -> new]
      /\ \A i, j \in 1 .. d : i < j => at[i] < at[j]
      /\ kept \in Seq(Known) /\ Len(kept) = d
      /\ \A i \in 1 .. d : kept[i] = all[at[i]]
  BY <1>1, <1>5, KeptFacts
<1>onto. \A p \in new : \E i \in 1 .. d : at[i] = p
  BY <1>1, <1>5, KeptFacts
<1> HIDE DEF kept, at, d
<1>7. /\ recent \in Seq(Known) /\ Len(recent) <= d
      /\ \A i \in 1 .. Len(recent) : recent[i] = kept[i]
  BY <1>6, FirstOnesFacts, FieldAssumption
<1>full. Len(recent) = MaxAddresses \/ Len(recent) = d
  BY <1>6, FirstOnesFacts, FieldAssumption
<1> HIDE DEF recent
<1>8. \A i \in DOMAIN recent :
        i \in 1 .. d /\ recent[i] = all[at[i]] /\ at[i] \in new /\ at[i] \in Nat
  BY <1>3, <1>6, <1>7
<1>9. \A i \in DOMAIN recent : recent[i] \notin excluded /\ first(recent[i]) = at[i]
  BY <1>3, <1>4, <1>8
<1>10. \A i, j \in DOMAIN recent : i < j =>
         first(recent[i]) < first(recent[j]) /\ recent[i] # recent[j]
  BY <1>6, <1>8, <1>9
<1>11. ASSUME NEW p \in Range(all), p \notin excluded, p \notin Range(recent)
       PROVE  Len(recent) = MaxAddresses /\ \A q \in Range(recent) : first(q) < first(p)
  <2>1. PICK h \in DOMAIN all : all[h] = p /\ \A j \in 1 .. h - 1 : all[j] # all[h]
    BY <1>1, <1>11, SeenAt
  <2>2. h \in new
    BY <1>11, <2>1 DEF new
  <2>3. PICK i \in 1 .. d : at[i] = h
    BY <1>onto, <2>2
  <2>4. DOMAIN recent = 1 .. Len(recent) /\ Len(recent) \in Nat /\ kept[i] = p
    BY <1>6, <1>7, <2>1, <2>3
  <2>5. ~(i <= Len(recent))
    <3>1. \A k \in DOMAIN recent : recent[k] # p
      BY <1>11 DEF Range
    <3> QED
      BY <1>7, <2>3, <2>4, <3>1
  <2>6. Len(recent) = MaxAddresses /\ first(p) = h
    <3>1. ~(Len(recent) = d)
      BY <1>6, <2>3, <2>5
    <3> QED
      BY <1>4, <1>full, <2>1, <2>2, <3>1
  <2>7. ASSUME NEW q \in Range(recent) PROVE first(q) < first(p)
    <3>1. PICK j \in DOMAIN recent : recent[j] = q
      BY DEF Range
    <3>2. j \in 1 .. d /\ j < i /\ first(q) = at[j]
      BY <1>6, <1>8, <1>9, <2>3, <2>4, <2>5, <3>1
    <3> QED
      BY <1>6, <2>3, <2>6, <3>2
  <2> QED
    BY <2>6, <2>7
<1> QED
  BY <1>2, <1>7, <1>9, <1>10, <1>11 DEF first, all

\* The list is of the query it was found for, and the search that may replace it is
\* for the text in the field.
LiveAsks == \A r \in asks : r.live => r.text = value

FieldInv ==
  /\ FieldTypeOK
  /\ found.n > 0 => found.of \in Queries
  /\ LiveAsks

Recents == DeriveRecentAddresses(shortcuts.history, Elsewhere)

\* A list of what a shortcut holds, if it holds anything.
Entry(p) == IF p = Null THEN <<>> ELSE <<p>>

\* The entries under an empty field: the position, home, work and recent places, no place
\* twice but one that is both home and work.
LEMMA QuickEntriesFacts ==
  ASSUME FieldInv
  PROVE  /\ QuickEntries \in Seq(Known \cup {Here})
         /\ QuickEntriesFit
<1> DEFINE home == Entry(shortcuts.home)
           work == Entry(shortcuts.work)
           all == Addresses(shortcuts.history)
           first(p) == FirstAt(all, p)
<1>1. /\ shortcuts.history \in Seq(PlaceTrips)
      /\ shortcuts.home \in Known \cup {Null} /\ shortcuts.work \in Known \cup {Null}
      /\ Here \notin Known
  BY FieldAssumption DEF FieldInv, FieldTypeOK
<1>2. /\ Recents \in Seq(Known)
      /\ \A i \in DOMAIN Recents : Recents[i] \notin Elsewhere
      /\ \A i, j \in DOMAIN Recents : i < j =>
           first(Recents[i]) < first(Recents[j]) /\ Recents[i] # Recents[j]
      /\ \A p \in Range(all) \ (Elsewhere \cup Range(Recents)) :
           Len(Recents) = MaxAddresses /\ \A q \in Range(Recents) : first(q) < first(p)
  BY <1>1, RecentAddressesFacts DEF Recents
<1>3. QuickEntries = <<Here>> \o home \o work \o Recents
  BY DEF QuickEntries, Recents, Entry
<1>4. /\ home \in Seq(Known) /\ Len(home) <= 1 /\ \A i \in DOMAIN home : home[i] = shortcuts.home
      /\ work \in Seq(Known) /\ Len(work) <= 1 /\ \A i \in DOMAIN work : work[i] = shortcuts.work
  BY <1>1 DEF Entry
<1> HIDE DEF home, work, first
<1> DEFINE list == <<Here>> \o home \o work \o Recents
           h == Len(home)
           w == Len(home) + Len(work)
<1>5. /\ list \in Seq(Known \cup {Here}) /\ Len(list) = 1 + w + Len(Recents) /\ list[1] = Here
      /\ \A i \in 2 .. 1 + h : list[i] = home[i - 1]
      /\ \A i \in 2 + h .. 1 + w : list[i] = work[i - 1 - h]
      /\ \A i \in 2 + w .. Len(list) : list[i] = Recents[i - 1 - w]
  BY <1>2, <1>4
<1>6. /\ h \in {0, 1} /\ w \in {h, h + 1} /\ Len(Recents) \in Nat
      /\ DOMAIN Recents = 1 .. Len(Recents) /\ DOMAIN home = 1 .. h /\ DOMAIN work = 1 .. w - h
      /\ DOMAIN list = 1 .. Len(list)
  BY <1>2, <1>4, <1>5
<1> HIDE DEF list, h, w
<1>7. /\ \A i \in 2 .. 1 + h : list[i] = shortcuts.home /\ list[i] \in Known
      /\ \A i \in 2 + h .. 1 + w : list[i] = shortcuts.work /\ list[i] \in Known
      /\ \A i \in 2 + w .. Len(list) :
           i - 1 - w \in DOMAIN Recents /\ list[i] = Recents[i - 1 - w] /\ list[i] \in Known
  <2>1. \A i \in 2 .. 1 + h : i - 1 \in DOMAIN home
    BY <1>6
  <2>2. \A i \in 2 + h .. 1 + w : i - 1 - h \in DOMAIN work
    BY <1>6
  <2>3. \A i \in 2 + w .. Len(list) : i - 1 - w \in DOMAIN Recents
    BY <1>5, <1>6
  <2> QED
    BY <1>2, <1>4, <1>5, <2>1, <2>2, <2>3
<1>8. ASSUME NEW i \in DOMAIN list, NEW j \in DOMAIN list, i < j, list[i] = list[j]
      PROVE  list[i] = shortcuts.home /\ shortcuts.home = shortcuts.work
  <2>1. list[j] \in Known /\ i # 1
    BY <1>1, <1>5, <1>6, <1>7, <1>8
  <2>2. CASE i \in 2 .. 1 + h
    <3>1. j \notin 2 + w .. Len(list)
      BY <1>2, <1>7, <1>8, <2>2 DEF Elsewhere
    <3>2. j \in 2 + h .. 1 + w
      BY <1>5, <1>6, <1>8, <2>2, <3>1
    <3> QED
      BY <1>7, <1>8, <2>2, <3>2
  <2>3. CASE i \in 2 + h .. 1 + w
    <3>1. j \in 2 + w .. Len(list)
      BY <1>5, <1>6, <1>8, <2>3
    <3> QED
      BY <1>2, <1>7, <1>8, <2>3, <3>1 DEF Elsewhere
  <2>4. CASE i \in 2 + w .. Len(list)
    <3>1. j \in 2 + w .. Len(list) /\ i - 1 - w < j - 1 - w
      BY <1>5, <1>6, <1>8, <2>4
    <3> QED
      BY <1>2, <1>7, <1>8, <2>4, <3>1
  <2> QED
    BY <1>5, <1>6, <2>1, <2>2, <2>3, <2>4
<1>9. Range(Recents) \cap Elsewhere = {}
  BY <1>2 DEF Range
<1> HIDE DEF all
<1>10. list = QuickEntries
  BY <1>3 DEF list
<1>11. /\ \A i, j \in DOMAIN Recents : i < j => first(Recents[i]) < first(Recents[j])
       /\ \A p \in Range(all) \ (Elsewhere \cup Range(Recents)) :
            Len(Recents) = MaxAddresses /\ \A q \in Range(Recents) : first(q) < first(p)
  BY <1>2
<1> QED
  BY <1>5, <1>8, <1>9, <1>10, <1>11 DEF QuickEntriesFit, Recents, FirstAt, first, all

\* What the list shows is in it, and can fill in the field.
LEMMA ItemFacts ==
  ASSUME FieldInv
  PROVE  /\ ActiveItems \in Seq(Known \cup {Here} \cup Found)
         /\ \A i \in DOMAIN ActiveItems :
              Item(i) = ActiveItems[i] /\ Item(i) \in Range(ActiveItems)
<1>1. CASE ShowSuggestions
  <2> DEFINE list == [i \in 1 .. found.n |-> <<found.of, i>>]
  <2>1. found.n \in Nat /\ found.n <= MaxFound /\ found.of \in Queries /\ MaxFound \in Nat
    BY <1>1, FieldAssumption DEF FieldInv, FieldTypeOK, ShowSuggestions
  <2>2. \A i \in 1 .. found.n : list[i] \in Known \cup {Here} \cup Found
    BY <2>1 DEF Found
  <2>3. list \in Seq(Known \cup {Here} \cup Found)
    <3>1. list \in [1 .. found.n -> Known \cup {Here} \cup Found]
      BY <2>2
    <3> HIDE DEF list
    <3> QED
      BY <2>1, <3>1
  <2>4. ActiveItems = list /\ \A i \in 1 .. found.n : Item(i) = list[i]
    BY <1>1 DEF ActiveItems, Item
  <2> QED
    BY <2>3, <2>4 DEF Range
<1>2. CASE ~ShowSuggestions /\ ShowQuickEntries
  <2>1. ActiveItems = QuickEntries /\ \A i : Item(i) = QuickEntries[i]
    BY <1>2 DEF ActiveItems, Item
  <2> QED
    BY <2>1, QuickEntriesFacts DEF Range
<1>3. CASE ~ShowSuggestions /\ ~ShowQuickEntries
  <2>1. ActiveItems = <<>>
    BY <1>3 DEF ActiveItems
  <2> QED
    BY <2>1
<1> QED
  BY <1>1, <1>2, <1>3

\* The part of the invariant that the text in the field is about.
Asking ==
  /\ value \in Texts \cup Found \cup Known \cup {Here}
  /\ \A r \in asks : r \in [text : Queries, sent : BOOLEAN, live : BOOLEAN]
  /\ LiveAsks

\* Whatever the field takes, the search that lives is for it.
LEMMA SetAsking ==
  ASSUME Asking, NEW v \in Texts \cup Found \cup Known \cup {Here}, Set(v)
  PROVE  Asking' /\ value' = v
<1> DEFINE left == {[r EXCEPT !.live = FALSE] : r \in {q \in asks : q.sent}}
           new == [text |-> v, sent |-> FALSE, live |-> TRUE]
<1>1. /\ value' = v
      /\ asks' = left \cup (IF v \in Queries THEN {new} ELSE {})
  BY DEF Set
<1>2. \A r \in left : r \in [text : Queries, sent : BOOLEAN, live : BOOLEAN] /\ ~r.live
  BY DEF Asking
<1>3. \A r \in asks' : r \in left \/ (v \in Queries /\ r = new)
  BY <1>1
<1>4. /\ v \in Queries => new \in [text : Queries, sent : BOOLEAN, live : BOOLEAN]
      /\ new.text = v
  OBVIOUS
<1> HIDE DEF left, new
<1> QED
  BY <1>1, <1>2, <1>3, <1>4 DEF Asking, LiveAsks, Texts, Found

\* The position is taken, or not: the search that lives is for what the field then holds.
LEMMA PositionAsking ==
  ASSUME FieldInv, NEW status \in {"watching", "denied", "error"}, SettlePosition(status)
  PROVE  /\ Asking' /\ value' \in {value, Here}
         /\ geo' \in [wants : BOOLEAN, status : {"idle", "watching", "denied", "error"}]
<1>1. Asking
  BY DEF FieldInv, FieldTypeOK, Asking
<1>2. geo' \in [wants : BOOLEAN, status : {"idle", "watching", "denied", "error"}]
  BY DEF SettlePosition
<1>3. CASE status = "watching"
  BY <1>1, <1>2, <1>3, SetAsking DEF SettlePosition
<1>4. CASE status # "watching"
  BY <1>1, <1>2, <1>4 DEF SettlePosition, Asking, LiveAsks, Texts, Found
<1> QED
  BY <1>3, <1>4

\* Whatever is picked, the field holds it, or the position, or what it held.
LEMMA PickFacts ==
  ASSUME FieldInv, NEW i \in DOMAIN ActiveItems, Pick(i)
  PROVE  FieldInv' /\ value' \in {value, Here} \cup Range(ActiveItems)
<1>1. /\ Item(i) \in Known \cup {Here} \cup Found
      /\ Item(i) \in Range(ActiveItems)
  BY ItemFacts
<1>2. Asking /\ geo \in [wants : BOOLEAN, status : {"idle", "watching", "denied", "error"}]
  BY DEF FieldInv, FieldTypeOK, Asking
<1>3. UNCHANGED <<found, ui, shortcuts>>
  BY DEF Pick
<1>4. CASE Item(i) # Here
  <2>1. Set(Item(i)) /\ UNCHANGED geo
    BY <1>4 DEF Pick
  <2>2. Asking' /\ value' = Item(i)
    BY <1>1, <1>2, <2>1, SetAsking
  <2> QED
    BY <1>1, <1>3, <2>1, <2>2
       DEF FieldInv, FieldTypeOK, Asking, Texts, Found, PlaceTrips
<1>5. CASE Item(i) = Here
  <2>1. AskPosition
    BY <1>5 DEF Pick
  <2>2. /\ Asking' /\ value' \in {value, Here}
        /\ geo' \in [wants : BOOLEAN, status : {"idle", "watching", "denied", "error"}]
    <3>1. CASE geo.status = "idle"
      <4>1. UNCHANGED <<value, asks>> /\ geo' = [geo EXCEPT !.wants = TRUE]
        BY <2>1, <3>1 DEF AskPosition
      <4> QED
        BY <1>2, <4>1 DEF Asking, LiveAsks, Texts, Found
    <3>2. CASE geo.status # "idle"
      BY <1>2, <2>1, <3>2, PositionAsking DEF AskPosition
    <3> QED
      BY <3>1, <3>2
  <2> QED
    BY <1>3, <2>2
       DEF FieldInv, FieldTypeOK, Asking, Texts, Found, PlaceTrips
<1> QED
  BY <1>4, <1>5

\* The field is empty at first, and searches for nothing.
LEMMA InitField == FieldInit => FieldInv
<1> SUFFICES ASSUME FieldInit PROVE FieldInv
  OBVIOUS
<1>1. FieldTypeOK
  BY FieldAssumption DEF FieldInit, FieldTypeOK, Texts
<1> QED
  BY <1>1 DEF FieldInit, FieldInv, LiveAsks

Filled == value' # value => value' \in Texts \cup {Here} \cup Range(ActiveItems)

Matched == found' # found => Unresolved /\ found'.of = value

\* One step of the field, and what it says of the value and the list.
LEMMA NextField == FieldInv /\ [FieldNext]_fieldVars => FieldInv' /\ Filled /\ Matched
<1> SUFFICES ASSUME FieldInv, [FieldNext]_fieldVars PROVE FieldInv' /\ Filled /\ Matched
  OBVIOUS
<1> USE DEF Texts, Found, PlaceTrips
<1>0. /\ FieldTypeOK /\ Asking
      /\ MaxFound \in Nat /\ MaxTrips \in Nat
  BY FieldAssumption DEF FieldInv, FieldTypeOK, Asking
<1>1. ASSUME NEW r \in asks, Debounced(r) PROVE FieldInv' /\ Filled /\ Matched
  <2> DEFINE new == [r EXCEPT !.sent = TRUE]
  <2>1. /\ new \in [text : Queries, sent : BOOLEAN, live : BOOLEAN]
        /\ new.live = r.live /\ new.text = r.text
    BY <1>0, <1>1 DEF Asking
  <2>2. Asking'
    <3>1. UNCHANGED value /\ \A q \in asks' : q \in asks \/ q = new
      BY <1>1 DEF Debounced
    <3> HIDE DEF new
    <3> QED
      BY <1>0, <1>1, <2>1, <3>1 DEF Asking, LiveAsks
  <2> QED
    BY <1>0, <1>1, <2>2 DEF FieldInv, FieldTypeOK, Asking, Debounced, Filled, Matched
<1>2. ASSUME NEW r \in asks, NEW n \in 0 .. MaxFound, Answers(r, n)
      PROVE  FieldInv' /\ Filled /\ Matched
  <2>1. r \in [text : Queries, sent : BOOLEAN, live : BOOLEAN] /\ (r.live => r.text = value)
    BY <1>0, <1>2 DEF Asking, LiveAsks
  <2>2. Asking' /\ UNCHANGED <<value, ui, shortcuts, geo>>
    BY <1>0, <1>2 DEF Answers, Asking, LiveAsks
  <2>3. /\ found' \in [of : Queries \cup {Null}, n : 0 .. MaxFound]
        /\ found'.n > 0 => found'.of \in Queries
        /\ Matched
    BY <1>0, <1>2, <2>1
       DEF Answers, Accept, FieldInv, FieldTypeOK, Matched, Unresolved
  <2> QED
    BY <1>0, <2>2, <2>3 DEF FieldInv, FieldTypeOK, Asking, Filled
<1>3. ASSUME NEW v \in Texts, Type(v) PROVE FieldInv' /\ Filled /\ Matched
  <2>1. Asking' /\ value' = v
    BY <1>0, <1>3, SetAsking DEF Type
  <2> QED
    BY <1>0, <1>3, <2>1 DEF FieldInv, FieldTypeOK, Asking, Type, Filled, Matched
<1>4. ASSUME NEW next \in [focused : BOOLEAN, on : {"out", "input", "entry"},
                           active : (Nat \ {0}) \cup {Null}, filters : BOOLEAN],
             Ui(next)
      PROVE  FieldInv' /\ Filled /\ Matched
  BY <1>0, <1>4 DEF FieldInv, FieldTypeOK, LiveAsks, Ui, Filled, Matched
<1>5. ui \in [focused : BOOLEAN, on : {"out", "input", "entry"},
              active : (Nat \ {0}) \cup {Null}, filters : BOOLEAN]
  BY <1>0 DEF FieldTypeOK
<1>6. ASSUME NEW on \in {"input", "entry"}, Focus(on) PROVE FieldInv' /\ Filled /\ Matched
  BY <1>4, <1>5, <1>6 DEF Focus
<1>7. ASSUME Blur \/ Escape \/ OpenFilters \/ CloseFilters
      PROVE  FieldInv' /\ Filled /\ Matched
  BY <1>4, <1>5, <1>7 DEF Blur, Escape, OpenFilters, CloseFilters
<1>8. ASSUME ArrowDown \/ ArrowUp PROVE FieldInv' /\ Filled /\ Matched
  <2>1. Len(ActiveItems) \in Nat \ {0}
    BY <1>8, ItemFacts DEF ArrowDown, ArrowUp, Keys
  <2> QED
    BY <1>4, <1>5, <1>8, <2>1 DEF ArrowDown, ArrowUp
<1>9. ASSUME NEW i \in DOMAIN ActiveItems, Pick(i) PROVE FieldInv' /\ Filled /\ Matched
  BY <1>9, PickFacts DEF Filled, Matched, Pick
<1>10. CASE Enter
  <2>1. SafeActiveIndex \in DOMAIN ActiveItems
    BY <1>5, <1>10, ItemFacts DEF Enter, SafeActiveIndex
  <2> QED
    BY <1>9, <1>10, <2>1 DEF Enter
<1>11. ASSUME NEW i \in 1 .. Len(ActiveItems), Click(i)
       PROVE  FieldInv' /\ Filled /\ Matched
  BY <1>9, <1>11 DEF Click
<1>12. ASSUME NEW s \in {"watching", "denied", "error"}, GpsAnswers(s)
       PROVE  FieldInv' /\ Filled /\ Matched
  <2>1. /\ Asking' /\ value' \in {value, Here}
        /\ geo' \in [wants : BOOLEAN, status : {"idle", "watching", "denied", "error"}]
    BY <1>12, PositionAsking DEF GpsAnswers
  <2> QED
    BY <1>0, <1>12, <2>1 DEF FieldInv, FieldTypeOK, Asking, GpsAnswers, Filled, Matched
<1>13. ASSUME NEW next \in [home : Known \cup {Null}, work : Known \cup {Null},
                            history : Seq(PlaceTrips), other : Known \cup {Null}],
              Shortcuts(next)
       PROVE  FieldInv' /\ Filled /\ Matched
  BY <1>0, <1>13 DEF FieldInv, FieldTypeOK, LiveAsks, Shortcuts, Filled, Matched
<1>14. shortcuts \in [home : Known \cup {Null}, work : Known \cup {Null},
                      history : Seq(PlaceTrips), other : Known \cup {Null}]
  BY <1>0 DEF FieldTypeOK
<1>15. ASSUME NEW home \in Known \cup {Null}, NEW work \in Known \cup {Null},
              ProfileArrives(home, work)
       PROVE  FieldInv' /\ Filled /\ Matched
  BY <1>13, <1>14, <1>15 DEF ProfileArrives
<1>16. ASSUME NEW h \in Histories, HistoryArrives(h) PROVE FieldInv' /\ Filled /\ Matched
  <2>1. h \in Seq(PlaceTrips)
    BY <1>16 DEF Histories
  <2> QED
    BY <1>13, <1>14, <1>16, <2>1 DEF HistoryArrives
<1>17. ASSUME NEW p \in Known \cup {Null}, OtherChanges(p) PROVE FieldInv' /\ Filled /\ Matched
  BY <1>13, <1>14, <1>17 DEF OtherChanges
<1>18. CASE UNCHANGED fieldVars
  BY <1>0, <1>18 DEF FieldInv, FieldTypeOK, LiveAsks, fieldVars, Filled, Matched
<1> QED
  BY <1>1, <1>2, <1>3, <1>6, <1>7, <1>8, <1>10, <1>11, <1>12, <1>15, <1>16, <1>17, <1>18
     DEF FieldNext

\* The search that may still replace the list is for the text in the field, through every
\* order of keys, clicks and answers.
THEOREM FieldInvariance == FieldSpec => []FieldInv
<1>1. FieldInit => FieldInv
  BY InitField
<1> QED
  BY <1>1, NextField, PTL DEF FieldSpec

\* The types of the field hold: an answer of the geocoder, an entry that is picked or a
\* position only ever fill in a value the field knows.
THEOREM FieldTyped == FieldSpec => []FieldTypeOK
<1>1. FieldInv => FieldTypeOK
  BY DEF FieldInv
<1> QED
  BY <1>1, FieldInvariance, PTL

\* The quick entries repeat no place but one that is both home and work, and the recent
\* addresses are the latest that are shown nowhere else, whatever history and profile.
THEOREM FieldEntriesFit == FieldSpec => []QuickEntriesFit
  BY QuickEntriesFacts, FieldInvariance, PTL

\* Only the answer to the text in the field replaces the list, however many answers to
\* earlier texts arrive after it (the "cancelled" of useAddressSuggestions).
THEOREM FieldAnswersMatch == FieldSpec => AnswersMatchText
<1>1. FieldInv /\ [FieldNext]_fieldVars =>
        [found' # found => Unresolved /\ found'.of = value]_fieldVars
  BY NextField DEF Matched
<1> QED
  BY <1>1, FieldInvariance, PTL DEF FieldSpec, AnswersMatchText

\* What fills the field in was in the list at that moment, although the list changes under
\* the highlight (safeActiveIndex).
THEOREM FieldPicksShown == FieldSpec => PickedWasShown
<1>1. FieldInv /\ [FieldNext]_fieldVars =>
        [(value' # value /\ value' \notin Texts \cup {Here}) =>
           value' \in Range(ActiveItems)]_fieldVars
  BY NextField DEF Filled
<1> QED
  BY <1>1, FieldInvariance, PTL DEF FieldSpec, PickedWasShown
-----------------------------------------------------------------------------
(* The history that searches are recorded in.                               *)

\* A function over 1 .. n is a sequence.
LEMMA FunctionsAreSeqs ==
  ASSUME NEW T, NEW n \in Nat, NEW f \in [1 .. n -> T]
  PROVE  f \in Seq(T)
OBVIOUS

\* The window a read asked for never reaches past today's.
SinceInOrder == \A k \in Reads : read[k] # Absent => read[k].since <= RetentionCutoff

HistoryInv == HistoryTypeOK /\ SinceInOrder

\* What findRecent answers, of some rows: the latest of each trip, latest first, and none
\* of the window is left out but for a later one of the same trip or for lack of room.
LEMMA RecentFacts ==
  ASSUME HistoryInv, NEW K \in SUBSET (DOMAIN rows), NEW since
  PROVE  LET shown == Recent(K, since) IN
         /\ shown \in Seq(1 .. MaxRows)
         /\ \A m, n \in DOMAIN shown : m < n =>
              shown[m] > shown[n] /\ rows[shown[m]].trip # rows[shown[n]].trip
         /\ \A i \in K : rows[i].day >= since =>
              \/ i \in ToSet(shown)
              \/ \E j \in ToSet(shown) : j > i /\ rows[j].trip = rows[i].trip
              \/ Len(shown) = MaxEntries /\ \A j \in ToSet(shown) : j > i
<1> DEFINE W == {i \in K : rows[i].day >= since}
           c == Cardinality(W)
           list == Descending(W)
           first == {j \in DOMAIN list :
                      \A h \in 1 .. j - 1 : rows[list[h]].trip # rows[list[j]].trip}
           d == Cardinality(first)
           at == Ascending(first)
           distinct == Kept(list, first)
           shown == FirstOnes(distinct, MaxEntries)
<1>1. /\ MaxEntries \in Nat /\ MaxRows \in Nat
      /\ DOMAIN rows = 1 .. Len(rows) /\ Len(rows) \in Nat /\ Len(rows) <= MaxRows
  BY HistoryAssumption DEF HistoryInv, HistoryTypeOK
<1>2. W \in SUBSET Int /\ W \subseteq 1 .. MaxRows /\ IsFiniteSet(W)
  <2>1. IsFiniteSet(1 .. Len(rows))
    BY <1>1, FS_Interval
  <2> QED
    BY <1>1, <2>1, FS_Subset
<1>3. /\ c \in Nat /\ list \in [1 .. c -> W]
      /\ \A i, j \in 1 .. c : i < j => list[i] > list[j]
      /\ \A x \in W : \E i \in 1 .. c : list[i] = x
  <2> HIDE DEF W
  <2> QED
    BY <1>2, DescendingFacts
<1>4. Recent(K, since) = shown
  BY DEF Recent, Distinct
<1> HIDE DEF W, c, list
<1>5. /\ list \in Seq(W) /\ first \in SUBSET (DOMAIN list)
      /\ first \subseteq 1 .. c /\ DOMAIN list = 1 .. c
  BY <1>3
<1> HIDE DEF first
<1>6. /\ d \in Nat /\ at \in [1 .. d -> first]
      /\ \A i, j \in 1 .. d : i < j => at[i] < at[j]
      /\ \A x \in first : \E i \in 1 .. d : at[i] = x
      /\ distinct \in Seq(W) /\ Len(distinct) = d
      /\ \A i \in 1 .. d : distinct[i] = list[at[i]]
  BY <1>5, KeptFacts
<1> HIDE DEF d, at, distinct
<1> DEFINE n == Len(shown)
<1>7. /\ shown \in Seq(W) /\ n <= MaxEntries /\ n <= d
      /\ \A i \in 1 .. n : shown[i] = distinct[i]
      /\ n = MaxEntries \/ n = d
  BY <1>1, <1>6, FirstOnesFacts
<1> HIDE DEF shown
<1>8. n \in Nat /\ DOMAIN shown = 1 .. n
  BY <1>7
<1>8a. Len(shown) = n
  OBVIOUS
<1> HIDE DEF n
<1>8b. \A i \in 1 .. n : i \in 1 .. d /\ shown[i] = list[at[i]]
  <2>1. \A i \in 1 .. n : i \in 1 .. d
    BY <1>6, <1>7, <1>8
  <2> QED
    BY <1>6, <1>7, <2>1
<1>9. \A k \in 1 .. d :
        at[k] \in first /\ at[k] \in 1 .. c /\ list[at[k]] \in W /\ list[at[k]] \in Int
  BY <1>2, <1>3, <1>5, <1>6
<1>10. ASSUME NEW k \in 1 .. n, NEW m \in 1 .. n, k < m
       PROVE  shown[k] > shown[m] /\ rows[shown[k]].trip # rows[shown[m]].trip
  <2>1. k \in 1 .. d /\ m \in 1 .. d
    BY <1>8b
  <2>2. at[k] < at[m]
    BY <1>6, <1>10, <2>1
  <2>3. list[at[k]] > list[at[m]]
    BY <1>3, <1>9, <2>1, <2>2
  <2>4. rows[list[at[k]]].trip # rows[list[at[m]]].trip
    <3>1. at[m] \in first /\ at[k] \in 1 .. at[m] - 1
      BY <1>3, <1>9, <2>1, <2>2
    <3> QED
      BY <3>1 DEF first
  <2> QED
    BY <1>8b, <2>3, <2>4
<1>11. ASSUME NEW i \in K, rows[i].day >= since
       PROVE  \/ i \in ToSet(shown)
              \/ \E j \in ToSet(shown) : j > i /\ rows[j].trip = rows[i].trip
              \/ n = MaxEntries /\ \A j \in ToSet(shown) : j > i
  <2>1. i \in W /\ i \in Int
    BY <1>1, <1>11 DEF W
  <2>2. PICK p \in 1 .. c : list[p] = i
    BY <1>3, <2>1
  <2> DEFINE trip == [q \in 1 .. c |-> rows[list[q]].trip]
  <2>3. PICK h \in 1 .. p : trip[h] = trip[p] /\ \A j \in 1 .. h - 1 : trip[j] # trip[h]
    <3>1. c \in Nat
      BY <1>3
    <3> HIDE DEF trip
    <3> QED
      BY ONLY <3>1, p \in 1 .. c, SeenFirst
  <2>4. /\ h \in 1 .. c /\ rows[list[h]].trip = rows[i].trip
        /\ \A j \in 1 .. h - 1 : rows[list[j]].trip # rows[list[h]].trip
    <3>1. h \in 1 .. c /\ \A j \in 1 .. h - 1 : j \in 1 .. c
      BY <1>3
    <3>2. trip[h] = rows[list[h]].trip /\ trip[p] = rows[i].trip
      BY <2>2, <3>1
    <3> QED
      BY <2>3, <3>1, <3>2
  <2>5. h \in first
    BY <1>5, <2>4 DEF first
  <2>6. PICK k \in 1 .. d : at[k] = h
    BY <1>6, <2>5
  <2>7. list[h] = i \/ list[h] > i
    BY <1>3, <2>2, <2>4
  <2>8. CASE k <= n
    <3>1. k \in 1 .. n /\ shown[k] = list[h]
      <4>1. k \in 1 .. n
        BY <1>6, <1>8, <2>8
      <4> QED
        BY <1>8b, <2>6, <4>1
    <3>2. list[h] \in ToSet(shown)
      BY <1>8, <3>1 DEF ToSet
    <3> QED
      BY <2>4, <2>7, <3>2
  <2>9. CASE ~(k <= n)
    <3>1. n # d /\ n = MaxEntries
      <4>1. k \in Int /\ k <= d /\ d \in Int
        BY <1>6
      <4>2. n # d
        BY <2>9, <4>1
      <4> QED
        BY <1>7, <4>2
    <3>2. ASSUME NEW j \in ToSet(shown) PROVE j > i
      <4>1. PICK m \in 1 .. n : j = list[at[m]]
        BY <1>8, <1>8b DEF ToSet
      <4>2. m \in 1 .. d /\ m < k
        BY <1>6, <1>8, <1>8b, <2>9
      <4>3. at[m] < at[k] /\ at[m] \in 1 .. c /\ list[at[m]] \in Int /\ list[h] \in Int
        BY <1>6, <1>9, <2>6, <4>2
      <4>4. list[at[m]] > list[h]
        BY <1>3, <2>4, <2>6, <4>3
      <4> QED
        BY <2>1, <2>7, <4>1, <4>3, <4>4
    <3> QED
      BY <3>1, <3>2
  <2> QED
    BY <2>8, <2>9
<1>12. shown \in Seq(1 .. MaxRows)
  <2>1. \A i \in 1 .. n : shown[i] \in 1 .. MaxRows
    BY <1>2, <1>8b, <1>9
  <2>2. shown \in [1 .. n -> 1 .. MaxRows]
    BY <1>7, <1>8, <2>1
  <2> QED
    BY ONLY <1>8, <2>2, FunctionsAreSeqs
<1> QED
  BY <1>4, <1>8, <1>8a, <1>10, <1>11, <1>12

\* No row, and no read, at first.
LEMMA InitHistory == HistoryInit => HistoryInv
  BY HistoryAssumption DEF HistoryInit, HistoryTypeOK, HistoryInv, SinceInOrder

\* An answer to a read is made of rows, of the window it asked for.
LEMMA NextHistory == HistoryInv /\ [HistoryNext]_historyVars => HistoryInv'
<1> SUFFICES ASSUME HistoryInv, [HistoryNext]_historyVars PROVE HistoryInv'
  OBVIOUS
<1>0. /\ HistoryTypeOK /\ SinceInOrder
      /\ {Window, MaxEntries, MaxKey} \subseteq Nat \ {0} /\ {MaxRows, MaxDay} \subseteq Nat
  BY HistoryAssumption DEF HistoryInv
<1>0b. /\ rows \in Seq(Row \cup {Absent}) /\ Len(rows) <= MaxRows
       /\ key \in 1 .. MaxKey /\ today \in 0 .. MaxDay
       /\ read \in [Reads -> Read \cup {Absent}]
  BY <1>0 DEF HistoryTypeOK
<1>1. ASSUME NEW trip \in Trips, RecordTrip(trip) PROVE HistoryInv'
  <2>1. [trip |-> trip, day |-> today, key |-> key] \in Row
    BY <1>0b DEF Row
  <2>2. rows' \in Seq(Row \cup {Absent}) /\ Len(rows') <= MaxRows
    BY <1>0, <1>0b, <1>1, <2>1 DEF RecordTrip
  <2> QED
    BY <1>0, <1>0b, <1>1, <2>2
       DEF RecordTrip, HistoryInv, HistoryTypeOK, SinceInOrder, RetentionCutoff
<1>2. CASE NextDay
  <2>1. today' \in 0 .. MaxDay /\ today' = today + 1 /\ UNCHANGED <<rows, key, read>>
    BY <1>0, <1>0b, <1>2 DEF NextDay
  <2>2. \A k \in Reads : read[k] # Absent => read[k].since \in Int
    BY <1>0b DEF Read
  <2>3. SinceInOrder'
    BY <1>0, <1>0b, <2>1, <2>2 DEF SinceInOrder, RetentionCutoff
  <2> QED
    BY <1>0b, <2>1, <2>3 DEF HistoryInv, HistoryTypeOK
<1>3. CASE Purge
  <2>1. rows' \in Seq(Row \cup {Absent}) /\ Len(rows') = Len(rows)
    BY <1>0b, <1>3 DEF Purge
  <2> QED
    BY <1>0, <1>0b, <1>3, <2>1
       DEF Purge, HistoryInv, HistoryTypeOK, SinceInOrder, RetentionCutoff
<1>4. CASE RotateKey
  <2>1. key' \in 1 .. MaxKey /\ read' \in [Reads -> Read \cup {Absent}] /\ SinceInOrder'
    BY <1>0, <1>0b, <1>4 DEF RotateKey, SinceInOrder
  <2> QED
    BY <1>0b, <1>4, <2>1 DEF RotateKey, HistoryInv, HistoryTypeOK
<1>5. ASSUME NEW k \in Reads, NEW r \in Read \cup {Absent},
             read' = [read EXCEPT ![k] = r], UNCHANGED <<rows, key, today>>,
             r # Absent => r.since <= RetentionCutoff
      PROVE  HistoryInv'
  BY <1>0, <1>0b, <1>5
     DEF HistoryInv, HistoryTypeOK, SinceInOrder, RetentionCutoff
<1>6. ASSUME NEW k \in Reads, AskHistory(k) PROVE HistoryInv'
  <2> DEFINE r == [since |-> RetentionCutoff, before |-> Len(rows),
                   stage |-> "loading", shown |-> <<>>]
  <2>1. r \in Read /\ r.since <= RetentionCutoff
    BY <1>0, <1>0b DEF Read, RetentionCutoff
  <2> QED
    BY <1>5, <1>6, <2>1 DEF AskHistory
<1>7. ASSUME NEW k \in Reads, read[k] # Absent, NEW K \in SUBSET (DOMAIN rows), Show(k, K),
             UNCHANGED <<rows, key, today>>
      PROVE  HistoryInv'
  <2> DEFINE shown == Recent(K, read[k].since)
             r == [read[k] EXCEPT !.stage = "answered", !.shown = shown]
  <2>1. shown \in Seq(1 .. MaxRows)
    BY <1>7, RecentFacts
  <2> HIDE DEF shown
  <2>2. r \in Read /\ r.since = read[k].since
    BY <1>0b, <1>7, <2>1 DEF Read
  <2>3. read' = [read EXCEPT ![k] = r]
    BY <1>0b, <1>7, <2>2 DEF Show, shown
  <2>4. r.since <= RetentionCutoff
    BY <1>0, <1>7, <2>2 DEF SinceInOrder
  <2> HIDE DEF r
  <2> QED
    BY <1>5, <1>7, <2>2, <2>3, <2>4
<1>8. ASSUME NEW k \in Reads, Load(k) \/ LoadTolerant(k) PROVE HistoryInv'
  <2>1. Present \subseteq DOMAIN rows /\ Readable \subseteq DOMAIN rows
    BY DEF Present, Readable
  <2> QED
    BY <1>7, <1>8, <2>1 DEF Load, LoadTolerant
<1>9. ASSUME NEW k \in Reads, LoadFails(k) PROVE HistoryInv'
  <2> DEFINE r == [read[k] EXCEPT !.stage = "tolerant"]
  <2>1. r \in Read /\ r.since = read[k].since /\ read' = [read EXCEPT ![k] = r]
    BY <1>0b, <1>9 DEF LoadFails, Read
  <2>2. r.since <= RetentionCutoff
    BY <1>0, <1>9, <2>1 DEF SinceInOrder, LoadFails
  <2> HIDE DEF r
  <2> QED
    BY <1>5, <1>9, <2>1, <2>2 DEF LoadFails
<1>10. ASSUME NEW k \in Reads, Leave(k) PROVE HistoryInv'
  BY <1>5, <1>10 DEF Leave
<1>11. CASE UNCHANGED historyVars
  BY <1>0, <1>0b, <1>11
     DEF historyVars, HistoryInv, HistoryTypeOK, SinceInOrder, RetentionCutoff
<1> QED
  BY <1>1, <1>2, <1>3, <1>4, <1>6, <1>8, <1>9, <1>10, <1>11 DEF HistoryNext

\* Reads are well formed, and the window that a read began with reaches no later than that
\* of today, through recordings, purges, days and changes of the key.
THEOREM HistoryInvariance == HistorySpec => []HistoryInv
<1>1. HistoryInit => HistoryInv
  BY InitHistory
<1> QED
  BY <1>1, NextHistory, PTL DEF HistorySpec

\* Every reachable state of the rows, of the key and of the reads is well typed.
THEOREM HistoryTyped == HistorySpec => []HistoryTypeOK
  BY HistoryInvariance, PTL DEF HistoryInv

\* Whatever rows cannot be decrypted, and whatever is recorded and purged while it goes on,
\* findRecent shows the latest readable row of each trip of the window, latest first, and
\* leaves out only what does not fit in the list.
THEOREM HistoryShown == HistorySpec => HistoryComplete
<1>1. ASSUME HistoryInv, [HistoryNext]_historyVars, NEW k \in Reads,
             read[k] # Absent, read'[k] # Absent, read[k].stage # "answered",
             read'[k].stage = "answered"
      PROVE  LET shown == read'[k].shown IN
             /\ \A m, n \in DOMAIN shown : m < n =>
                  shown[m] > shown[n] /\ rows[shown[m]].trip # rows[shown[n]].trip
             /\ \A i \in Readable :
                  i <= read[k].before /\ rows[i].day >= RetentionCutoff =>
                    \/ i \in ToSet(shown)
                    \/ \E j \in ToSet(shown) : j > i /\ rows[j].trip = rows[i].trip
                    \/ Len(shown) = MaxEntries /\ \A j \in ToSet(shown) : j > i
  <2>0. /\ read \in [Reads -> Read \cup {Absent}] /\ today \in Nat /\ Window \in Nat
        /\ rows \in Seq(Row \cup {Absent})
        /\ read[k] \in Read /\ read[k].since <= RetentionCutoff
    BY <1>1, HistoryAssumption DEF HistoryInv, HistoryTypeOK, SinceInOrder
  <2>1. ASSUME NEW l \in Reads, Load(l) \/ LoadTolerant(l)
        PROVE  /\ l = k
               /\ \E K \in SUBSET (DOMAIN rows) :
                    Readable \subseteq K /\ Show(k, K)
    <3>1. l = k
      BY <1>1, <2>0, <2>1 DEF Load, LoadTolerant, Show
    <3> QED
      BY <2>1, <3>1 DEF Load, LoadTolerant, Readable, Present
  <2>2. ASSUME NEW l \in Reads, AskHistory(l) \/ LoadFails(l) \/ Leave(l)
        PROVE  FALSE
    <3>1. l # k => read'[k] = read[k]
      BY <2>0, <2>2 DEF AskHistory, LoadFails, Leave
    <3>2. l = k => read'[k] = Absent \/ read'[k].stage = "tolerant"
      BY <1>1, <2>0, <2>2 DEF AskHistory, LoadFails, Leave, Read
    <3> QED
      BY <1>1, <3>1, <3>2
  <2>3. read' # read
    BY <1>1
  <2>4. PICK K \in SUBSET (DOMAIN rows) : Readable \subseteq K /\ Show(k, K)
    BY <1>1, <2>1, <2>2, <2>3
       DEF HistoryNext, historyVars, RecordTrip, NextDay, Purge,
           RotateKey
  <2>5. read'[k].shown = Recent(K, read[k].since)
    BY <2>0, <2>4 DEF Show, Read
  <2>6. \A i \in Readable : rows[i] \in Row
    BY <2>0 DEF Readable, Present
  <2>7. \A i \in Readable :
          i \in K /\ (rows[i].day >= RetentionCutoff => rows[i].day >= read[k].since)
    BY <2>0, <2>4, <2>6 DEF Row, Read, RetentionCutoff
  <2> DEFINE shown == Recent(K, read[k].since)
  <2>8. /\ \A m, n \in DOMAIN shown : m < n =>
             shown[m] > shown[n] /\ rows[shown[m]].trip # rows[shown[n]].trip
        /\ \A i \in K : rows[i].day >= read[k].since =>
             \/ i \in ToSet(shown)
             \/ \E j \in ToSet(shown) : j > i /\ rows[j].trip = rows[i].trip
             \/ Len(shown) = MaxEntries /\ \A j \in ToSet(shown) : j > i
    BY <1>1, RecentFacts
  <2> HIDE DEF shown
  <2>9. \A i \in Readable : rows[i].day >= RetentionCutoff =>
          i \in K /\ rows[i].day >= read[k].since
    BY <2>7
  <2>10. read'[k].shown = shown
    BY <2>5 DEF shown
  <2> QED
    BY <2>8, <2>9, <2>10, Zenon
<1>2. HistoryInv /\ [HistoryNext]_historyVars =>
        [\A k \in Reads :
           (read[k] # Absent /\ read'[k] # Absent /\ read[k].stage # "answered"
              /\ read'[k].stage = "answered") =>
           LET shown == read'[k].shown IN
             /\ \A m, n \in DOMAIN shown : m < n =>
                  shown[m] > shown[n] /\ rows[shown[m]].trip # rows[shown[n]].trip
             /\ \A i \in Readable :
                  i <= read[k].before /\ rows[i].day >= RetentionCutoff =>
                    \/ i \in ToSet(shown)
                    \/ \E j \in ToSet(shown) : j > i /\ rows[j].trip = rows[i].trip
                    \/ Len(shown) = MaxEntries /\ \A j \in ToSet(shown) : j > i]_historyVars
  BY <1>1
<1> QED
  BY <1>2, HistoryInvariance, PTL DEF HistorySpec, HistoryComplete
-----------------------------------------------------------------------------
(* The cache of disruptions that a search is ranked with.                    *)

\* A feed without URL is never published.
OnlyPublishedFeeds ==
  \A o \in Operators, f \in Feeds : f \notin Publishes[o] => published[o][f] = 0

\* The cache is never ahead of what is online.
CacheInOrder ==
  \A o \in Operators, f \in Feeds : perOperator[o][f] <= published[o][f]

\* What a cycle fetched lies between what it found and what is online.
FetchInOrder ==
  \A c \in Cycles, o \in Operators, f \in Feeds :
    LET r == refresh[c][o] IN
    /\ r.existing[f] <= published[o][f]
    /\ r.got[f] \in Version => r.existing[f] <= r.got[f] /\ r.got[f] <= published[o][f]

CacheInv == CacheTypeOK /\ OnlyPublishedFeeds /\ CacheInOrder /\ FetchInOrder

-----------------------------------------------------------------------------
USE CacheAssumption DEF Version

\* A fetch that is under way or has failed is not taken for a version.
LEMMA CacheMarks == /\ Pending \notin Version /\ Failed \notin Version /\ Pending # Failed
               /\ 0 \in Version /\ Version \subseteq Nat /\ Version \subseteq Outcome
               /\ Pending \in Outcome /\ Failed \in Outcome
               /\ Outcome \subseteq Version \cup {Pending, Failed}
  BY DEF Pending, Failed, Outcome

\* A refresh that is over is well typed and not under way.
LEMMA DoneIsIdle == Done \in Refresh /\ ~Done.busy
                    /\ \A f \in Feeds : Done.existing[f] = 0 /\ Done.got[f] = 0
  BY CacheMarks DEF Done, Refresh

\* What a step that changes one operator's part of one cycle does to "refresh".
LEMMA OnePart ==
  ASSUME refresh \in [Cycles -> [Operators -> Refresh]],
         NEW c \in Cycles, NEW o \in Operators, NEW x \in Refresh,
         refresh' = [refresh EXCEPT ![c][o] = x]
  PROVE  /\ refresh' \in [Cycles -> [Operators -> Refresh]]
         /\ refresh'[c][o] = x
         /\ \A d \in Cycles, p \in Operators :
              (d # c \/ p # o) => refresh'[d][p] = refresh[d][p]
  OBVIOUS

\* What recording the outcome of one fetch does to "refresh".
LEMMA OneFeed ==
  ASSUME refresh \in [Cycles -> [Operators -> Refresh]],
         NEW c \in Cycles, NEW o \in Operators, NEW f \in Feeds, NEW v \in Outcome,
         refresh' = [refresh EXCEPT ![c][o] = Settled(@, f, v)]
  PROVE  /\ refresh' \in [Cycles -> [Operators -> Refresh]]
         /\ refresh'[c][o].busy = refresh[c][o].busy
         /\ refresh'[c][o].existing = refresh[c][o].existing
         /\ refresh'[c][o].got[f] = v
         /\ \A g \in Feeds : g # f => refresh'[c][o].got[g] = refresh[c][o].got[g]
         /\ \A d \in Cycles, p \in Operators :
              (d # c \/ p # o) => refresh'[d][p] = refresh[d][p]
<1> DEFINE x == Settled(refresh[c][o], f, v)
<1>1. refresh[c][o] \in Refresh
  OBVIOUS
<1>2. refresh' = [refresh EXCEPT ![c][o] = x]
  OBVIOUS
<1>3. /\ x \in Refresh /\ x.got[f] = v
      /\ \A g \in Feeds : g # f => x.got[g] = refresh[c][o].got[g]
  BY <1>1 DEF Refresh, Settled
<1>4. x.busy = refresh[c][o].busy /\ x.existing = refresh[c][o].existing
  BY DEF Settled
<1> HIDE DEF x
<1>5. /\ refresh' \in [Cycles -> [Operators -> Refresh]] /\ refresh'[c][o] = x
      /\ \A d \in Cycles, p \in Operators :
           (d # c \/ p # o) => refresh'[d][p] = refresh[d][p]
  BY <1>2, <1>3, OnePart
<1> QED
  BY <1>3, <1>4, <1>5

\* The cache is empty at first, whatever is online.
LEMMA InitCache == CacheInit => CacheInv
<1> SUFFICES ASSUME CacheInit PROVE CacheInv
  OBVIOUS
<1>1. CacheTypeOK
  BY DoneIsIdle, CacheMarks DEF CacheInit, CacheTypeOK
<1>2. OnlyPublishedFeeds
  BY DEF CacheInit, OnlyPublishedFeeds
<1>3. CacheInOrder
  BY DEF CacheInit, CacheInOrder
<1>4. FetchInOrder
  BY DoneIsIdle DEF CacheInit, FetchInOrder
<1> QED
  BY <1>1, <1>2, <1>3, <1>4 DEF CacheInv

\* The merge keeps between what the cycle found and what is online.
LEMMA MergeInOrder ==
  ASSUME CacheInv, NEW c \in Cycles, NEW o \in Operators, Store(c, o)
  PROVE  /\ Merge(refresh[c][o]) \in [Feeds -> Version]
         /\ \A f \in Feeds : /\ refresh[c][o].existing[f] <= Merge(refresh[c][o])[f]
                             /\ Merge(refresh[c][o])[f] <= published[o][f]
<1> DEFINE r == refresh[c][o]
<1>1. r \in Refresh
  BY DEF CacheInv, CacheTypeOK
<1>2. ASSUME NEW f \in Feeds
      PROVE  LET m == IF r.got[f] = Failed THEN r.existing[f] ELSE r.got[f]
             IN m \in Version /\ r.existing[f] <= m /\ m <= published[o][f]
  <2>1. r.existing[f] \in Version /\ r.got[f] \in Outcome /\ r.got[f] # Pending
    BY <1>1 DEF Refresh, Store
  <2>2. r.got[f] # Failed => r.got[f] \in Version
    BY <2>1, CacheMarks
  <2> QED
    BY <2>1, <2>2, CacheMarks DEF CacheInv, FetchInOrder
<1> QED
  BY <1>2 DEF Merge

\* One step of the cache: the versions held and fetched stay behind those online.
LEMMA NextCache == CacheInv /\ [CacheNext]_cacheVars => CacheInv'
<1> SUFFICES ASSUME CacheInv, [CacheNext]_cacheVars PROVE CacheInv'
  OBVIOUS
<1>0. CacheTypeOK /\ OnlyPublishedFeeds /\ CacheInOrder /\ FetchInOrder
  BY DEF CacheInv
<1>1. ASSUME NEW o \in Operators, NEW f \in Feeds, Publish(o, f) PROVE CacheInv'
  <2>1. /\ published' \in [Operators -> [Feeds -> Version]]
        /\ \A p \in Operators, g \in Feeds : published[p][g] <= published'[p][g]
        /\ \A p \in Operators, g \in Feeds :
             g \notin Publishes[p] => published'[p][g] = published[p][g]
    BY <1>0, <1>1 DEF CacheTypeOK, Publish
  <2>2. CacheTypeOK'
    BY <1>0, <1>1, <2>1 DEF CacheTypeOK, Publish
  <2>3. OnlyPublishedFeeds'
    BY <1>0, <2>1 DEF OnlyPublishedFeeds
  <2>4. CacheInOrder'
    BY <1>0, <1>1, <2>1, CacheMarks DEF CacheTypeOK, Publish, CacheInOrder
  <2>5. FetchInOrder'
    <3> SUFFICES ASSUME NEW c \in Cycles, NEW p \in Operators, NEW g \in Feeds
                 PROVE  LET r == refresh[c][p] IN
                        /\ r.existing[g] <= published'[p][g]
                        /\ r.got[g] \in Version
                             => r.existing[g] <= r.got[g] /\ r.got[g] <= published'[p][g]
      BY <1>1 DEF Publish, FetchInOrder
    <3>1. refresh[c][p].existing[g] \in Nat /\ published[p][g] \in Nat
          /\ published'[p][g] \in Nat
      BY <1>0, <2>1, CacheMarks DEF CacheTypeOK, Refresh
    <3> QED
      BY <1>0, <2>1, <3>1, CacheMarks DEF FetchInOrder
  <2> QED
    BY <2>2, <2>3, <2>4, <2>5 DEF CacheInv
<1>2. ASSUME NEW c \in Cycles, StartCycle(c) PROVE CacheInv'
  <2> DEFINE begun(o) == [busy |-> TRUE, existing |-> perOperator[o],
                          got |-> [f \in Feeds |-> IF f \in Publishes[o] THEN Pending ELSE 0]]
  <2>1. \A o \in Operators : /\ refresh'[c][o] = begun(o)
                             /\ begun(o) \in Refresh
                             /\ begun(o).existing = perOperator[o]
    BY <1>0, <1>2, CacheMarks DEF CacheTypeOK, StartCycle, Refresh
  <2>2. \A d \in Cycles, o \in Operators : d # c => refresh'[d][o] = refresh[d][o]
    BY <1>0, <1>2 DEF CacheTypeOK, StartCycle
  <2>3. refresh' \in [Cycles -> [Operators -> Refresh]]
    BY <1>0, <1>2, <2>1 DEF CacheTypeOK, StartCycle
  <2>4. UNCHANGED <<published, perOperator, failures>>
    BY <1>2 DEF StartCycle
  <2>5. \A o \in Operators, f \in Feeds :
          /\ begun(o).existing[f] = perOperator[o][f]
          /\ begun(o).got[f] \in Version
               => begun(o).got[f] = 0 /\ published[o][f] = 0
    BY <1>0, CacheMarks DEF OnlyPublishedFeeds
  <2>6. \A o \in Operators, f \in Feeds : perOperator[o][f] \in Nat /\ published[o][f] \in Nat
    BY <1>0, CacheMarks DEF CacheTypeOK
  <2> HIDE DEF begun
  <2>7. FetchInOrder'
    <3> SUFFICES ASSUME NEW d \in Cycles, NEW o \in Operators, NEW f \in Feeds
                 PROVE  LET r == refresh'[d][o] IN
                        /\ r.existing[f] <= published[o][f]
                        /\ r.got[f] \in Version
                             => r.existing[f] <= r.got[f] /\ r.got[f] <= published[o][f]
      BY <2>4 DEF FetchInOrder
    <3>1. CASE d = c
      BY <1>0, <2>1, <2>5, <2>6, <3>1 DEF CacheInOrder
    <3>2. CASE d # c
      BY <1>0, <2>2, <3>2 DEF FetchInOrder
    <3> QED
      BY <3>1, <3>2
  <2> QED
    BY <1>0, <2>3, <2>4, <2>7 DEF CacheInv, CacheTypeOK, OnlyPublishedFeeds, CacheInOrder
<1>3. ASSUME NEW c \in Cycles, NEW o \in Operators, NEW f \in Feeds,
             Fetch(c, o, f) \/ FetchFails(c, o, f)
      PROVE  CacheInv'
  <2>1. PICK v \in Outcome :
          /\ refresh' = [refresh EXCEPT ![c][o] = Settled(@, f, v)]
          /\ v \in Version => v = published[o][f]
    BY <1>0, <1>3, CacheMarks DEF CacheTypeOK, Fetch, FetchFails
  <2>2. /\ UNCHANGED <<published, perOperator>>
        /\ failures' \in 0 .. MaxFailures
    BY <1>0, <1>3 DEF CacheTypeOK, Fetch, FetchFails, Failing
  <2>3. refresh \in [Cycles -> [Operators -> Refresh]]
    BY <1>0 DEF CacheTypeOK
  <2>1a. refresh' = [refresh EXCEPT ![c][o] = Settled(@, f, v)]
    BY <2>1
  <2>4. /\ refresh' \in [Cycles -> [Operators -> Refresh]]
        /\ refresh'[c][o].busy = refresh[c][o].busy
        /\ refresh'[c][o].existing = refresh[c][o].existing
        /\ refresh'[c][o].got[f] = v
        /\ \A g \in Feeds : g # f => refresh'[c][o].got[g] = refresh[c][o].got[g]
        /\ \A d \in Cycles, p \in Operators :
             (d # c \/ p # o) => refresh'[d][p] = refresh[d][p]
    BY ONLY <2>1a, <2>3, OneFeed, Zenon
  <2>5. published[o][f] \in Nat
    BY <1>0, CacheMarks DEF CacheTypeOK
  <2>6. FetchInOrder'
    <3> SUFFICES ASSUME NEW d \in Cycles, NEW p \in Operators, NEW g \in Feeds
                 PROVE  LET r == refresh'[d][p] IN
                        /\ r.existing[g] <= published[p][g]
                        /\ r.got[g] \in Version
                             => r.existing[g] <= r.got[g] /\ r.got[g] <= published[p][g]
      BY <2>2 DEF FetchInOrder
    <3>1. CASE d = c /\ p = o /\ g = f
      BY <1>0, <2>1, <2>4, <2>5, <3>1 DEF FetchInOrder
    <3>2. CASE d = c /\ p = o /\ g # f
      BY <1>0, <2>4, <3>2 DEF FetchInOrder
    <3>3. CASE d # c \/ p # o
      BY <1>0, <2>4, <3>3 DEF FetchInOrder
    <3> QED
      BY <3>1, <3>2, <3>3
  <2> QED
    BY <1>0, <2>2, <2>4, <2>6 DEF CacheInv, CacheTypeOK, OnlyPublishedFeeds, CacheInOrder
<1>4. ASSUME NEW c \in Cycles, NEW o \in Operators,
             refresh' = [refresh EXCEPT ![c][o] = Done], UNCHANGED published
      PROVE  refresh' \in [Cycles -> [Operators -> Refresh]] /\ FetchInOrder'
  <2>1. refresh \in [Cycles -> [Operators -> Refresh]]
    BY <1>0 DEF CacheTypeOK
  <2>2. /\ refresh' \in [Cycles -> [Operators -> Refresh]]
        /\ refresh'[c][o] = Done
        /\ \A d \in Cycles, p \in Operators :
             (d # c \/ p # o) => refresh'[d][p] = refresh[d][p]
    BY <1>4, <2>1, DoneIsIdle, OnePart
  <2>3. \A p \in Operators, g \in Feeds : published[p][g] \in Nat
    BY <1>0, CacheMarks DEF CacheTypeOK
  <2>4. FetchInOrder'
    <3> SUFFICES ASSUME NEW d \in Cycles, NEW p \in Operators, NEW g \in Feeds
                 PROVE  LET r == refresh'[d][p] IN
                        /\ r.existing[g] <= published[p][g]
                        /\ r.got[g] \in Version
                             => r.existing[g] <= r.got[g] /\ r.got[g] <= published[p][g]
      BY <1>4 DEF FetchInOrder
    <3>1. CASE d = c /\ p = o
      BY <2>2, <2>3, <3>1, DoneIsIdle
    <3>2. CASE d # c \/ p # o
      BY <1>0, <2>2, <3>2 DEF FetchInOrder
    <3> QED
      BY <3>1, <3>2
  <2> QED
    BY <2>2, <2>4
<1>5. ASSUME NEW c \in Cycles, NEW o \in Operators, NEW f \in Feeds, FetchThrows(c, o, f)
      PROVE  CacheInv'
  <2>1. /\ refresh' = [refresh EXCEPT ![c][o] = Done]
        /\ UNCHANGED <<published, perOperator>>
        /\ failures' \in 0 .. MaxFailures
    BY <1>0, <1>5 DEF CacheTypeOK, FetchThrows, Failing
  <2> QED
    BY <1>0, <1>4, <2>1 DEF CacheInv, CacheTypeOK, OnlyPublishedFeeds, CacheInOrder
<1>6. ASSUME NEW c \in Cycles, NEW o \in Operators, Store(c, o) PROVE CacheInv'
  <2> DEFINE merged == Merge(refresh[c][o])
  <2>1. merged \in [Feeds -> Version] /\ \A f \in Feeds : merged[f] <= published[o][f]
    BY <1>6, MergeInOrder
  <2>2. /\ refresh' = [refresh EXCEPT ![c][o] = Done]
        /\ perOperator' = [perOperator EXCEPT ![o] = merged]
        /\ UNCHANGED <<published, failures>>
    BY <1>6 DEF Store
  <2> HIDE DEF merged
  <2>3. CacheInOrder'
    BY <1>0, <2>1, <2>2 DEF CacheTypeOK, CacheInOrder
  <2>4. perOperator' \in [Operators -> [Feeds -> Version]]
    BY <1>0, <2>1, <2>2 DEF CacheTypeOK
  <2> QED
    BY <1>0, <1>4, <2>2, <2>3, <2>4 DEF CacheInv, CacheTypeOK, OnlyPublishedFeeds
<1>7. CASE UNCHANGED cacheVars
  BY <1>0, <1>7 DEF cacheVars, CacheInv, CacheTypeOK, OnlyPublishedFeeds, CacheInOrder, FetchInOrder
<1> QED
  BY <1>1, <1>2, <1>3, <1>5, <1>6, <1>7 DEF CacheNext

\* The inductive invariant: caches and fetches never run ahead of what is online.
THEOREM CacheInvariance == CacheSpec => []CacheInv
  BY InitCache, NextCache, PTL DEF CacheSpec

\* Every reachable state of the cache and its cycles is well typed.
THEOREM CacheTyped == CacheSpec => []CacheTypeOK
<1>1. CacheInv => CacheTypeOK
  BY DEF CacheInv
<1> QED
  BY <1>1, CacheInvariance, PTL

\* A cycle that ends leaves no feed older than it found it.
LEMMA NextLosesNoGround ==
  ASSUME CacheInv, [CacheNext]_cacheVars,
         NEW c \in Cycles, NEW o \in Operators, NEW f \in Feeds,
         Ends(c, o)
  PROVE  perOperator'[o][f] >= refresh[c][o].existing[f] \/ perOperator' = perOperator
<1>0. refresh \in [Cycles -> [Operators -> Refresh]]
      /\ perOperator \in [Operators -> [Feeds -> Version]]
  BY DEF CacheInv, CacheTypeOK
<1>1. ASSUME NEW d \in Cycles, NEW p \in Operators, Store(d, p) PROVE d = c /\ p = o
  <2>1. refresh' = [refresh EXCEPT ![d][p] = Done]
    BY <1>1 DEF Store
  <2>2. (c # d \/ o # p) => refresh'[c][o] = refresh[c][o]
    BY <1>0, <2>1, DoneIsIdle, OnePart
  <2> QED
    BY <2>2 DEF Ends
<1>2. CASE Store(c, o)
  <2> DEFINE merged == Merge(refresh[c][o])
  <2>1. /\ merged \in [Feeds -> Version]
        /\ refresh[c][o].existing[f] <= merged[f]
    BY <1>2, MergeInOrder
  <2>2. perOperator'[o] = merged
    BY <1>0, <1>2 DEF Store
  <2>3. merged[f] \in Nat /\ refresh[c][o].existing[f] \in Nat
    BY <1>0, <2>1, CacheMarks DEF Refresh
  <2> HIDE DEF merged
  <2> QED
    BY <2>1, <2>2, <2>3
<1>3. CASE ~\E d \in Cycles, p \in Operators : Store(d, p)
  BY <1>3 DEF CacheNext, Publish, StartCycle, Fetch, FetchFails, FetchThrows, cacheVars
<1> QED
  BY <1>1, <1>2, <1>3

\* However fetches fail and cycles overlap, no cycle leaves a feed older than it
\* found it.
THEOREM NoGroundLost == CacheSpec => RefreshLosesNoGround
<1>1. CacheInv /\ [CacheNext]_cacheVars
        => [\A c \in Cycles, o \in Operators, f \in Feeds :
              Ends(c, o) => perOperator'[o][f] >= refresh[c][o].existing[f]
                            \/ perOperator' = perOperator]_cacheVars
  BY NextLosesNoGround
<1> QED
  BY <1>1, CacheInvariance, PTL DEF CacheSpec, RefreshLosesNoGround

-----------------------------------------------------------------------------
(* Without overlap.                                                          *)

\* No two cycles work on one operator at once: every fetch settles within the minute.
NoOverlap ==
  \A c, d \in Cycles, o \in Operators : refresh[c][o].busy /\ refresh[d][o].busy => c = d

\* What a cycle found is still what the cache holds.
FoundIsHeld ==
  \A c \in Cycles, o \in Operators : refresh[c][o].busy => refresh[c][o].existing = perOperator[o]

\* No cycle has read the cache at first.
LEMMA InitFoundIsHeld == CacheInit => FoundIsHeld
BY DoneIsIdle DEF CacheInit, FoundIsHeld

\* Without overlap, what a cycle found is still what the cache holds.
LEMMA NextFoundIsHeld ==
  CacheInv /\ NoOverlap /\ FoundIsHeld /\ [CacheNext]_cacheVars => FoundIsHeld'
<1> SUFFICES ASSUME CacheInv, NoOverlap, FoundIsHeld, [CacheNext]_cacheVars,
                    NEW d \in Cycles, NEW p \in Operators, refresh'[d][p].busy
             PROVE  refresh'[d][p].existing = perOperator'[p]
  BY DEF FoundIsHeld
<1>0. /\ refresh \in [Cycles -> [Operators -> Refresh]]
      /\ perOperator \in [Operators -> [Feeds -> Version]]
  BY DEF CacheInv, CacheTypeOK
<1>1. refresh[d][p].busy => refresh[d][p].existing = perOperator[p]
  BY DEF FoundIsHeld
<1>2. ASSUME NEW c \in Cycles, StartCycle(c) PROVE refresh'[d][p].existing = perOperator'[p]
  <2>1. CASE d = c
    BY <1>0, <1>2, <2>1 DEF StartCycle
  <2>2. CASE d # c
    BY <1>0, <1>1, <1>2, <2>2 DEF StartCycle
  <2> QED
    BY <2>1, <2>2
<1>3. ASSUME NEW c \in Cycles, NEW o \in Operators, NEW f \in Feeds,
             Fetch(c, o, f) \/ FetchFails(c, o, f)
      PROVE  refresh'[d][p].existing = perOperator'[p]
  <2>1. PICK v \in Outcome : refresh' = [refresh EXCEPT ![c][o] = Settled(@, f, v)]
    <3>1. published[o][f] \in Outcome /\ Failed \in Outcome
      BY CacheMarks DEF CacheInv, CacheTypeOK
    <3>2. CASE Fetch(c, o, f)
      BY <3>1, <3>2 DEF Fetch
    <3>3. CASE FetchFails(c, o, f)
      BY <3>1, <3>3 DEF FetchFails
    <3> QED
      BY <1>3, <3>2, <3>3
  <2>2. /\ refresh'[c][o].busy = refresh[c][o].busy
        /\ refresh'[c][o].existing = refresh[c][o].existing
        /\ \A b \in Cycles, q \in Operators :
             (b # c \/ q # o) => refresh'[b][q] = refresh[b][q]
    BY ONLY <1>0, <2>1, OneFeed, Zenon
  <2>3. UNCHANGED perOperator
    BY <1>3 DEF Fetch, FetchFails
  <2>4. CASE d = c /\ p = o
    BY <1>1, <2>2, <2>3, <2>4
  <2>5. CASE d # c \/ p # o
    BY <1>1, <2>2, <2>3, <2>5
  <2> QED
    BY <2>4, <2>5
<1>4. ASSUME NEW c \in Cycles, NEW o \in Operators, refresh' = [refresh EXCEPT ![c][o] = Done]
      PROVE  (d # c \/ p # o) /\ refresh'[d][p] = refresh[d][p]
  <2>1. /\ refresh'[c][o] = Done
        /\ \A b \in Cycles, q \in Operators :
             (b # c \/ q # o) => refresh'[b][q] = refresh[b][q]
    BY <1>0, <1>4, DoneIsIdle, OnePart
  <2>2. d # c \/ p # o
    BY <2>1, DoneIsIdle
  <2> QED
    BY <2>1, <2>2
<1>5. ASSUME NEW c \in Cycles, NEW o \in Operators, NEW f \in Feeds, FetchThrows(c, o, f)
      PROVE  refresh'[d][p].existing = perOperator'[p]
  BY <1>1, <1>4, <1>5 DEF FetchThrows
<1>6. ASSUME NEW c \in Cycles, NEW o \in Operators, Store(c, o)
      PROVE  refresh'[d][p].existing = perOperator'[p]
  <2>1. (d # c \/ p # o) /\ refresh'[d][p] = refresh[d][p] /\ refresh[d][p].busy
    BY <1>4, <1>6 DEF Store
  <2>2. p # o
    BY <1>6, <2>1 DEF Store, NoOverlap
  <2>3. perOperator'[p] = perOperator[p]
    BY <1>0, <1>6, <2>2 DEF Store
  <2> QED
    BY <1>1, <2>1, <2>3
<1>7. CASE UNCHANGED <<perOperator, refresh>>
  BY <1>1, <1>7
<1> QED
  BY <1>2, <1>3, <1>5, <1>6, <1>7 DEF CacheNext, Publish, cacheVars

\* Without overlap, a cycle that ends keeps the version of a feed that failed.
LEMMA NextKeepsLatest ==
  ASSUME CacheInv, FoundIsHeld, [CacheNext]_cacheVars,
         NEW c \in Cycles, NEW o \in Operators, NEW f \in Feeds,
         Ends(c, o), refresh[c][o].got[f] = Failed
  PROVE  perOperator'[o][f] = perOperator[o][f]
<1>0. /\ refresh \in [Cycles -> [Operators -> Refresh]]
      /\ perOperator \in [Operators -> [Feeds -> Version]]
  BY DEF CacheInv, CacheTypeOK
<1>1. ASSUME NEW d \in Cycles, NEW p \in Operators, Store(d, p), p = o
      PROVE  perOperator'[o][f] = perOperator[o][f]
  <2>1. refresh' = [refresh EXCEPT ![d][p] = Done]
    BY <1>1 DEF Store
  <2>2. d = c
    <3>1. c # d => refresh'[c][o] = refresh[c][o]
      BY <1>0, <1>1, <2>1, DoneIsIdle, OnePart
    <3> QED
      BY <3>1 DEF Ends
  <2>3. perOperator'[o][f] = refresh[c][o].existing[f]
    BY <1>0, <1>1, <2>2 DEF Store, Merge
  <2>4. refresh[c][o].existing = perOperator[o]
    BY DEF Ends, FoundIsHeld
  <2> QED
    BY <2>3, <2>4
<1>2. ASSUME NEW d \in Cycles, NEW p \in Operators, Store(d, p), p # o
      PROVE  perOperator'[o][f] = perOperator[o][f]
  BY <1>0, <1>2 DEF Store
<1>3. CASE ~\E d \in Cycles, p \in Operators : Store(d, p)
  BY <1>3 DEF CacheNext, Publish, StartCycle, Fetch, FetchFails, FetchThrows, cacheVars
<1> QED
  BY <1>1, <1>2, <1>3

\* As long as no cycle outlasts the next one's start, a feed that cannot be fetched keeps
\* the latest version known ("conservation des dernieres perturbations connues"): the
\* overlap of two cycles is all that can break it.
THEOREM FailureKeepsLatestApart == CacheSpec /\ []NoOverlap => FailureKeepsLatest
<1> DEFINE Keeps ==
      \A c \in Cycles, o \in Operators, f \in Feeds :
        Ends(c, o) /\ refresh[c][o].got[f] = Failed => perOperator'[o][f] = perOperator[o][f]
<1>1. CacheInit => FoundIsHeld
  BY InitFoundIsHeld
<1>2. CacheInv /\ NoOverlap /\ FoundIsHeld /\ [CacheNext]_cacheVars => FoundIsHeld'
  BY NextFoundIsHeld
<1>3. CacheSpec /\ []NoOverlap => []FoundIsHeld
  BY <1>1, <1>2, CacheInvariance, PTL DEF CacheSpec
<1>4. CacheInv /\ FoundIsHeld /\ [CacheNext]_cacheVars => [Keeps]_cacheVars
  BY NextKeepsLatest
<1> QED
  BY <1>3, <1>4, CacheInvariance, PTL DEF CacheSpec, FailureKeepsLatest
=============================================================================
