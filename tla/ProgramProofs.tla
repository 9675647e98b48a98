--------------------------- MODULE ProgramProofs ----------------------------
(***************************************************************************)
(* Proofs about what surrounds a run.  Requests: a run is the run that was *)
(* asked for, a prepared feed gives the same answer for as long as it is   *)
(* kept, and whatever write fails, a report is of no earlier call than the *)
(* system errors beside it and is replaced by a later call's only.         *)
(* Registry: a registry is built of the whole tree or not at all.          *)
(* ReplayDirectory: the sort of a directory others write to.               *)
(* UpstreamRules: the rules of a message that share their walks.           *)
(*                                                                         *)
(* The first part is about Orders, which the others are built from.        *)
(*                                                                         *)
(* What a run has tallied after some of its messages is a function of the  *)
(* feed and of those messages.  The function is recursive, and no proof    *)
(* here unfolds a recursion: Account says of a function that it keeps the  *)
(* recurrence, and the invariant that one exists and that all of them      *)
(* agree with the run.                                                     *)
(***************************************************************************)
EXTENDS Requests, Orders, FiniteSetTheorems, FunctionTheorems, SequenceTheorems, WellFoundedInduction, TLAPS

CONSTANTS
  Trees, Declared, Reachable, Grave,                     \* Registry's
  Disks, NameOrder, Long, Instant, Asks, NOW, MaxChanges, \* ReplayDirectory's
  Feeds, RuleOrders, Names, Nothing                      \* UpstreamRules'

VARIABLES
  tree, imported, registered, queue, pc, wanted, rules,
  directory, changes, asked, unfiltered, files, cache, failed, run, ordered, span, readings, phase,
  fed, name, todo, memo, ran, stand, occurrences

Discovery == INSTANCE Registry

Replay == INSTANCE ReplayDirectory WITH disk <- directory, request <- asked, at <- span, pc <- phase, Requests <- Asks

Upstream == INSTANCE UpstreamRules WITH Messages <- Feeds, Orders <- RuleOrders,
  message <- fed, pc <- stand, None <- Nothing

-----------------------------------------------------------------------------
StrictOrder(S, order) ==
  /\ \A i \in S : <<i, i>> \notin order
  /\ \A i, j \in S : i # j => <<i, j>> \in order \/ <<j, i>> \in order
  /\ \A i, j, k \in S : <<i, j>> \in order /\ <<j, k>> \in order => <<i, k>> \in order

\* f lists S from its first member to its last.
Lists(f, S, order) ==
  /\ f \in [1..Cardinality(S) -> S]
  /\ \A i \in S : \E k \in 1..Cardinality(S) : f[k] = i
  /\ \A k, l \in 1..Cardinality(S) : k < l => <<f[k], f[l]>> \in order

\* There are m numbers up to m.
LEMMA HowManyUpTo ==
  ASSUME NEW m \in Nat
  PROVE  IsFiniteSet(1..m) /\ Cardinality(1..m) = m
<1>1. IsFiniteSet(1..m) /\ Cardinality(1..m) = IF 1 > m THEN 0 ELSE m - 1 + 1
  BY FS_Interval
<1>2. QED
  BY <1>1

\* How many come before a member tells it from the others, and its place from theirs.
LEMMA AheadGrows ==
  ASSUME NEW S, NEW order, IsFiniteSet(S), StrictOrder(S, order), NEW i \in S, NEW j \in S, <<i, j>> \in order
  PROVE  Cardinality(Ahead(i, S, order)) < Cardinality(Ahead(j, S, order))
<1> DEFINE A == Ahead(i, S, order)
           B == Ahead(j, S, order)
<1>1. A \subseteq S /\ B \subseteq S
  BY DEF Ahead
<1>2. IsFiniteSet(A) /\ IsFiniteSet(B)
  BY <1>1, FS_Subset
<1>3. A \subseteq B /\ i \in B /\ i \notin A
  BY DEF Ahead, StrictOrder
<1>4. Cardinality(A) <= Cardinality(B) /\ Cardinality(A) # Cardinality(B)
  <2> HIDE DEF A, B
  <2>1. QED
    BY <1>2, <1>3, FS_Subset
<1>5. Cardinality(A) \in Nat /\ Cardinality(B) \in Nat
  BY <1>2, FS_CardinalityType
<1>6. QED
  BY <1>4, <1>5

LEMMA AheadIsFewer ==
  ASSUME NEW S, NEW order, IsFiniteSet(S), StrictOrder(S, order), NEW i \in S
  PROVE  Cardinality(Ahead(i, S, order)) \in 0..(Cardinality(S) - 1)
<1> DEFINE A == Ahead(i, S, order)
<1>1. A \subseteq S /\ i \notin A
  BY DEF Ahead, StrictOrder
<1>2. IsFiniteSet(A) /\ Cardinality(A) <= Cardinality(S) /\ Cardinality(A) # Cardinality(S)
  <2> HIDE DEF A
  <2>1. QED
    BY <1>1, FS_Subset
<1>3. Cardinality(A) \in Nat /\ Cardinality(S) \in Nat
  BY <1>2, FS_CardinalityType
<1>4. QED
  BY <1>2, <1>3

\* What has k - 1 before it at every place k, where something has, lists every
\* member once and in the order.
LEMMA PlacesMakeAList ==
  ASSUME NEW S, NEW order, IsFiniteSet(S), StrictOrder(S, order),
         NEW f, f = [k \in 1..Cardinality(S) |-> f[k]],
         \A k \in 1..Cardinality(S) : \A i \in S :
           Cardinality(Ahead(i, S, order)) = k - 1 => f[k] \in S /\ Cardinality(Ahead(f[k], S, order)) = k - 1
  PROVE  Lists(f, S, order)
<1> DEFINE n == Cardinality(S)
           rank == [i \in S |-> Cardinality(Ahead(i, S, order)) + 1]
<1>1. n \in Nat /\ IsFiniteSet(1..n) /\ Cardinality(1..n) = n
  <2>1. n \in Nat
    BY FS_CardinalityType
  <2>2. QED
    BY <2>1, HowManyUpTo
<1>2. ASSUME NEW i \in S PROVE rank[i] \in 1..n
  BY AheadIsFewer, <1>1
<1>3. ASSUME NEW i \in S, NEW j \in S, i # j PROVE rank[i] # rank[j]
  <2>1. Cardinality(Ahead(i, S, order)) \in Nat /\ Cardinality(Ahead(j, S, order)) \in Nat
    BY AheadIsFewer, <1>1
  <2>2. <<i, j>> \in order \/ <<j, i>> \in order
    BY <1>3 DEF StrictOrder
  <2>3. QED
    BY <2>1, <2>2, AheadGrows
<1>4. rank \in Surjection(S, 1..n)
  <2>1. rank \in [S -> 1..n]
    BY <1>2
  <2>2. rank \in Injection(S, 1..n)
    <3> HIDE DEF rank
    <3>1. QED
      BY <2>1, <1>3 DEF Injection, IsInjective
  <2> HIDE DEF rank
  <2>3. QED
    BY <1>1, <2>2, FS_Injection
<1>5. ASSUME NEW k \in 1..n
      PROVE  f[k] \in S /\ rank[f[k]] = k
  <2>1. PICK i \in S : rank[i] = k
    <3> HIDE DEF rank
    <3>1. QED
      BY <1>4 DEF Surjection
  <2>2. Cardinality(Ahead(i, S, order)) = k - 1
    BY <2>1, <1>1, AheadIsFewer
  <2>3. f[k] \in S /\ Cardinality(Ahead(f[k], S, order)) = k - 1
    BY <2>2
  <2>4. QED
    BY <2>3, <1>1
<1>6. f \in [1..n -> S]
  BY <1>5
<1>7. ASSUME NEW i \in S PROVE f[rank[i]] = i
  <2> HIDE DEF rank
  <2>1. QED
    BY <1>2, <1>3, <1>5
<1>8. ASSUME NEW k \in 1..n, NEW l \in 1..n, k < l PROVE <<f[k], f[l]>> \in order
  <2>1. f[k] # f[l] /\ rank[f[k]] < rank[f[l]]
    <3> HIDE DEF rank
    <3>1. QED
      BY <1>1, <1>5, <1>8
  <2>2. ASSUME <<f[l], f[k]>> \in order PROVE FALSE
    <3>1. f[k] \in S /\ f[l] \in S
      BY <1>5
    <3>2. Cardinality(Ahead(f[l], S, order)) < Cardinality(Ahead(f[k], S, order))
      <4>1. QED
        BY <2>2, <3>1, AheadGrows
    <3>3. Cardinality(Ahead(f[l], S, order)) \in Nat /\ Cardinality(Ahead(f[k], S, order)) \in Nat
      <4>1. QED
        BY <3>1, <1>1, AheadIsFewer
    <3>4. rank[f[l]] < rank[f[k]]
      <4>1. QED
        BY <3>1, <3>2, <3>3
    <3>5. rank[f[l]] \in Nat /\ rank[f[k]] \in Nat
      <4> HIDE DEF rank
      <4>1. QED
        BY <3>1, <1>2, <1>1
    <3> HIDE DEF rank
    <3>6. QED
      BY <2>1, <3>4, <3>5
  <2>3. f[k] \in S /\ f[l] \in S
    BY <1>5
  <2>4. QED
    BY <2>1, <2>2, <2>3 DEF StrictOrder
<1> HIDE DEF rank
<1>9. ASSUME NEW i \in S PROVE \E k \in 1..n : f[k] = i
  BY <1>2, <1>7
<1>10. QED
  BY <1>6, <1>8, <1>9 DEF Lists

\* Ranked lists a finite set in a strict order.
LEMMA RankedLists ==
  ASSUME NEW S, NEW order, IsFiniteSet(S), StrictOrder(S, order)
  PROVE  Lists(Ranked(S, order), S, order)
<1> DEFINE f == Ranked(S, order)
<1>1. f = [k \in 1..Cardinality(S) |-> f[k]]
  BY DEF Ranked
<1>2. ASSUME NEW k \in 1..Cardinality(S), NEW i \in S, Cardinality(Ahead(i, S, order)) = k - 1
      PROVE  f[k] \in S /\ Cardinality(Ahead(f[k], S, order)) = k - 1
  <2>1. f[k] = CHOOSE x \in S : Cardinality(Ahead(x, S, order)) = k - 1
    BY DEF Ranked
  <2> HIDE DEF f
  <2>2. QED
    BY <1>2, <2>1
<1> HIDE DEF f
<1>3. Lists(f, S, order)
  BY <1>1, <1>2, PlacesMakeAList
<1>4. QED
  BY <1>3 DEF f

\* A member's place in a list is how many come before it.
LEMMA PlaceIsHowManyAhead ==
  ASSUME NEW S, NEW order, IsFiniteSet(S), StrictOrder(S, order), NEW f, Lists(f, S, order),
         NEW k \in 1..Cardinality(S)
  PROVE  Cardinality(Ahead(f[k], S, order)) = k - 1
<1> DEFINE n == Cardinality(S)
           A == Ahead(f[k], S, order)
           g == [l \in 1..(k-1) |-> f[l]]
<1>1. n \in Nat /\ k \in Nat /\ k - 1 \in Nat /\ IsFiniteSet(1..(k-1)) /\ Cardinality(1..(k-1)) = k - 1
  <2>1. n \in Nat
    BY FS_CardinalityType
  <2>2. k \in Nat /\ k - 1 \in Nat
    BY <2>1
  <2>3. QED
    BY <2>1, <2>2, HowManyUpTo
<1>2. \A l \in 1..(k-1) : l \in 1..n /\ l < k
  BY <1>1
<1>3. \A l, m \in 1..n : l # m => f[l] # f[m]
  <2>1. ASSUME NEW l \in 1..n, NEW m \in 1..n, l # m PROVE f[l] # f[m]
    <3>1. l < m \/ m < l
      BY <1>1, <2>1
    <3>2. <<f[l], f[m]>> \in order \/ <<f[m], f[l]>> \in order
      BY <3>1 DEF Lists
    <3>3. f[l] \in S /\ f[m] \in S
      BY DEF Lists
    <3>4. QED
      BY <3>2, <3>3 DEF StrictOrder
  <2>2. QED
    BY <2>1
<1>4. ASSUME NEW l \in 1..n PROVE f[l] \in A <=> l < k
  <2>1. f[l] \in S /\ f[k] \in S
    BY DEF Lists
  <2>2. CASE l < k
    BY <2>1, <2>2 DEF Lists, Ahead
  <2>3. CASE l = k
    BY <2>1, <2>3 DEF StrictOrder, Ahead
  <2>4. CASE k < l
    <3>1. <<f[k], f[l]>> \in order
      BY <2>4 DEF Lists
    <3>2. ASSUME <<f[l], f[k]>> \in order PROVE FALSE
      <4>1. <<f[k], f[k]>> \in order
        BY <3>1, <3>2, <2>1 DEF StrictOrder
      <4>2. QED
        BY <4>1, <2>1 DEF StrictOrder
    <3>3. ~ (l < k)
      BY <1>1, <2>4
    <3>4. QED
      BY <3>2, <3>3 DEF Ahead
  <2>5. QED
    BY <1>1, <2>2, <2>3, <2>4
<1>5. A \subseteq S
  BY DEF Ahead
<1>6. g \in [1..(k-1) -> A]
  <2> HIDE DEF A
  <2>1. QED
    BY <1>2, <1>4
<1>7. ASSUME NEW i \in A PROVE \E l \in 1..(k-1) : g[l] = i
  <2> HIDE DEF A
  <2>1. PICK l \in 1..n : f[l] = i
    BY <1>5, <1>7 DEF Lists
  <2>2. l < k
    BY <1>4, <1>7, <2>1
  <2>3. l \in 1..(k-1)
    BY <1>1, <2>2
  <2>4. QED
    BY <2>1, <2>3
<1>8. \A l, m \in 1..(k-1) : g[l] = g[m] => l = m
  BY <1>2, <1>3
<1>9. g \in Bijection(1..(k-1), A)
  <2> HIDE DEF g, A
  <2>1. QED
    BY <1>6, <1>7, <1>8 DEF Bijection, Injection, Surjection, IsInjective
<1>10. QED
  <2> HIDE DEF g, A
  <2>1. ExistsBijection(1..(k-1), A)
    BY <1>9 DEF ExistsBijection
  <2>2. Cardinality(A) = Cardinality(1..(k-1))
    BY <1>1, <2>1, FS_Bijection
  <2>3. QED
    BY <1>1, <2>2 DEF A

\* There is one way to list a set in an order.
LEMMA OneList ==
  ASSUME NEW S, NEW order, IsFiniteSet(S), StrictOrder(S, order), NEW f, NEW g,
         Lists(f, S, order), Lists(g, S, order)
  PROVE  f = g
<1> DEFINE n == Cardinality(S)
<1>1. n \in Nat
  BY FS_CardinalityType
<1>2. ASSUME NEW k \in 1..n PROVE f[k] = g[k]
  <2>1. f[k] \in S /\ g[k] \in S
    BY DEF Lists
  <2>2. Cardinality(Ahead(f[k], S, order)) = k - 1 /\ Cardinality(Ahead(g[k], S, order)) = k - 1
    BY PlaceIsHowManyAhead
  <2>3. ~(<<f[k], g[k]>> \in order) /\ ~(<<g[k], f[k]>> \in order)
    BY <2>1, <2>2, AheadGrows
  <2>4. QED
    BY <2>1, <2>3 DEF StrictOrder
<1>3. f = [k \in 1..n |-> f[k]] /\ g = [k \in 1..n |-> g[k]]
  BY DEF Lists
<1> HIDE DEF n
<1>4. QED
  BY <1>2, <1>3

\* Numbers are strictly ordered.
LEMMA UpwardsIsStrict ==
  ASSUME NEW S \in SUBSET Int
  PROVE  StrictOrder(S, Upwards(S))
BY DEF StrictOrder, Upwards

\* Finitely many numbers, from the first to the last.
LEMMA NumbersAreListed ==
  ASSUME NEW P, IsFiniteSet(P), P \subseteq Int
  PROVE  Cardinality(P) \in Nat /\ StrictOrder(P, Upwards(P)) /\ Lists(Ranked(P, Upwards(P)), P, Upwards(P))
BY FS_CardinalityType, UpwardsIsStrict, RankedLists

\* The places of a list, some of them, from the first to the last.
LEMMA PlacesAreListed ==
  ASSUME NEW n \in Nat, NEW P \in SUBSET (1..n)
  PROVE  /\ IsFiniteSet(P) /\ Cardinality(P) \in Nat /\ StrictOrder(P, Upwards(P))
         /\ Lists(Ranked(P, Upwards(P)), P, Upwards(P))
<1>1. IsFiniteSet(1..n)
  BY FS_Interval
<1>2. IsFiniteSet(P)
  BY <1>1, FS_Subset
<1>3. P \subseteq Int
  OBVIOUS
<1>4. QED
  BY <1>2, <1>3, NumbersAreListed

\* R has what P lists at the places Q.
ArePicked(R, P, Q) ==
  /\ IsFiniteSet(P) /\ P \subseteq Int /\ Q \subseteq 1..Cardinality(P)
  /\ \A r \in R : \E q \in Q : Ranked(P, Upwards(P))[q] = r
  /\ \A q \in Q : Ranked(P, Upwards(P))[q] \in R

\* Picking among what was picked is picking once.
LEMMA PickedTwice ==
  ASSUME NEW list, NEW P, NEW Q, NEW R, ArePicked(R, P, Q)
  PROVE  Picked(Picked(list, P), Q) = Picked(list, R)
<1> DEFINE f == Ranked(P, Upwards(P))
           g == Ranked(Q, Upwards(Q))
           h == [k \in 1..Cardinality(Q) |-> f[g[k]]]
<1>0. /\ \A r \in R : \E q \in Q : f[q] = r
      /\ \A q \in Q : f[q] \in R
      /\ IsFiniteSet(P) /\ P \subseteq Int /\ Q \subseteq 1..Cardinality(P)
  BY DEF ArePicked
<1>1. Cardinality(P) \in Nat /\ Lists(f, P, Upwards(P))
  BY <1>0, NumbersAreListed
<1>2. Cardinality(Q) \in Nat /\ Lists(g, Q, Upwards(Q)) /\ IsFiniteSet(Q)
  BY <1>0, <1>1, PlacesAreListed
<1> HIDE DEF f, g
<1>3. R \subseteq P
  BY <1>0, <1>1 DEF Lists
<1>4. \A k, l \in 1..Cardinality(P) : k < l => f[k] < f[l]
  BY <1>1 DEF Lists, Upwards
<1>5. \A k, l \in 1..Cardinality(Q) : k < l => g[k] < g[l]
  BY <1>2 DEF Lists, Upwards
<1>6. \A k \in 1..Cardinality(Q) : g[k] \in Q /\ g[k] \in 1..Cardinality(P)
  BY <1>0, <1>2 DEF Lists
<1>7. \A k, l \in 1..Cardinality(Q) : k < l => h[k] < h[l]
  BY <1>4, <1>5, <1>6
<1>8. \A k \in 1..Cardinality(Q) : h[k] \in R
  BY <1>0, <1>6
<1>9. \A r \in R : \E k \in 1..Cardinality(Q) : h[k] = r
  BY <1>0, <1>2 DEF Lists
<1>10. Cardinality(R) = Cardinality(Q)
  <2>1. h \in [1..Cardinality(Q) -> R]
    BY <1>8
  <2>2. \A k, l \in 1..Cardinality(Q) : h[k] = h[l] => k = l
    <3> HIDE DEF h
    <3>1. \A k \in 1..Cardinality(Q) : h[k] \in Int
      BY <1>0, <1>3, <1>8
    <3>2. QED
      BY <1>2, <1>7, <3>1
  <2> HIDE DEF h
  <2>3. h \in Bijection(1..Cardinality(Q), R)
    BY <2>1, <2>2, <1>9 DEF Bijection, Injection, Surjection, IsInjective
  <2>4. ExistsBijection(1..Cardinality(Q), R)
    BY <2>3 DEF ExistsBijection
  <2>5. IsFiniteSet(1..Cardinality(Q)) /\ Cardinality(1..Cardinality(Q)) = Cardinality(Q)
    BY <1>2, HowManyUpTo
  <2>6. QED
    BY <2>4, <2>5, FS_Bijection
<1>11. Lists(h, R, Upwards(R))
  <2>1. h \in [1..Cardinality(Q) -> R]
    BY <1>8
  <2>2. \A k, l \in 1..Cardinality(Q) : k < l => <<h[k], h[l]>> \in Upwards(R)
    BY <1>7, <1>8 DEF Upwards
  <2> HIDE DEF h
  <2>3. QED
    BY <2>1, <2>2, <1>9, <1>10 DEF Lists
<1>12. Picked(list, R) = [k \in 1..Cardinality(Q) |-> list[h[k]]]
  <2> HIDE DEF h
  <2>1. IsFiniteSet(R) /\ R \subseteq Int
    BY <1>0, <1>3, FS_Subset
  <2>3. h = Ranked(R, Upwards(R))
    BY <2>1, <1>11, NumbersAreListed, OneList
  <2>2. QED
    BY <1>10, <2>3 DEF Picked
<1>13. \A k \in 1..Cardinality(P) : Picked(list, P)[k] = list[f[k]]
  BY DEF Picked, f
<1>14. Picked(Picked(list, P), Q) = [k \in 1..Cardinality(Q) |-> Picked(list, P)[g[k]]]
  BY DEF Picked, g
<1>15. QED
  BY <1>6, <1>12, <1>13, <1>14 DEF f

-----------------------------------------------------------------------------
\* What a run has to show for itself.
Tally == [system_errors |-> system_errors, notices |-> notices, validated |-> validated, skipped |-> skipped]

\* The tally before the first message: what the feed's reading found.
Opening(feed) == [system_errors |-> feed.system_errors, notices |-> <<>>, validated |-> 0, skipped |-> 0]

MergedOnto(counts, found) ==
  [r \in DOMAIN counts \cup DOMAIN found |->
     (IF r \in DOMAIN counts THEN counts[r] ELSE 0) + (IF r \in DOMAIN found THEN found[r] ELSE 0)]

\* The tally after one more message.
Tallied(tally, message) ==
  IF message.decodes
  THEN [system_errors |-> tally.system_errors, notices |-> MergedOnto(tally.notices, message.found),
        validated |-> tally.validated + 1, skipped |-> tally.skipped]
  ELSE [system_errors |-> Append(tally.system_errors, message.name), notices |-> tally.notices,
        validated |-> tally.validated, skipped |-> tally.skipped + 1]

\* g[k] is the tally after the first k messages, up to n.
Account(g, feed, replay, n) ==
  /\ g[0] = Opening(feed)
  /\ \A k \in 1..n : g[k] = Tallied(g[k - 1], replay[k])

\* Exactly one answer fits the first n messages, and it is this one.
Determined(tally, feed, replay, n) ==
  /\ \E g : Account(g, feed, replay, n)
  /\ \A g : Account(g, feed, replay, n) => g[n] = tally

LEMMA OpeningIsDetermined ==
  ASSUME NEW feed, NEW replay
  PROVE  Determined(Opening(feed), feed, replay, 0)
<1> DEFINE g == [k \in {0} |-> Opening(feed)]
<1>1. Account(g, feed, replay, 0)
  BY DEF Account
<1>2. \E h : Account(h, feed, replay, 0)
  BY <1>1
<1>3. \A h : Account(h, feed, replay, 0) => h[0] = Opening(feed)
  BY DEF Account
<1> QED
  BY <1>2, <1>3 DEF Determined

LEMMA OneMoreIsDetermined ==
  ASSUME NEW tally, NEW feed, NEW replay, NEW n \in Nat, Determined(tally, feed, replay, n)
  PROVE  Determined(Tallied(tally, replay[n + 1]), feed, replay, n + 1)
<1>1. PICK g : Account(g, feed, replay, n)
  BY DEF Determined
<1> DEFINE h == [k \in 0..(n + 1) |-> IF k = n + 1 THEN Tallied(g[n], replay[n + 1]) ELSE g[k]]
<1>2. Account(h, feed, replay, n + 1)
  <2>1. h[0] = Opening(feed)
    BY <1>1 DEF Account
  <2>2. ASSUME NEW k \in 1..(n + 1) PROVE h[k] = Tallied(h[k - 1], replay[k])
    <3>1. CASE k = n + 1
      <4>1. h[k] = Tallied(g[n], replay[n + 1]) /\ h[n] = g[n] /\ k - 1 = n
        BY <3>1
      <4> QED
        BY <4>1, <3>1
    <3>2. CASE k # n + 1
      <4>1. k \in 1..n /\ h[k] = g[k] /\ h[k - 1] = g[k - 1]
        BY <3>2
      <4> QED
        BY <4>1, <1>1 DEF Account
    <3> QED
      BY <3>1, <3>2
  <2> QED
    BY <2>1, <2>2 DEF Account
<1>3. ASSUME NEW f, Account(f, feed, replay, n + 1)
      PROVE  f[n + 1] = Tallied(tally, replay[n + 1])
  <2>1. Account(f, feed, replay, n)
    BY <1>3 DEF Account
  <2>2. f[n] = tally
    BY <2>1 DEF Determined
  <2>3. f[n + 1] = Tallied(f[(n + 1) - 1], replay[n + 1])
    BY <1>3 DEF Account
  <2>4. (n + 1) - 1 = n
    OBVIOUS
  <2> QED
    BY <2>2, <2>3, <2>4
<1>4. \E f : Account(f, feed, replay, n + 1)
  BY <1>2
<1> QED
  BY <1>3, <1>4 DEF Determined

LEMMA OnlyOneIsDetermined ==
  ASSUME NEW one, NEW two, NEW feed, NEW replay, NEW n,
         Determined(one, feed, replay, n), Determined(two, feed, replay, n)
  PROVE  one = two
BY DEF Determined

-----------------------------------------------------------------------------
\* A list of whatever it holds.
Listed(s) == \E S : s \in Seq(S)

LEMMA OneMoreListed ==
  ASSUME NEW s, Listed(s), NEW x
  PROVE  /\ Listed(Append(s, x)) /\ Len(s) \in Nat /\ DOMAIN s = 1..Len(s)
         /\ Len(Append(s, x)) = Len(s) + 1 /\ DOMAIN Append(s, x) = 1..(Len(s) + 1)
         /\ Append(s, x)[Len(s) + 1] = x
         /\ \A i \in DOMAIN s : Append(s, x)[i] = s[i]
<1>1. PICK S : s \in Seq(S)
  BY DEF Listed
<1> DEFINE T == S \cup {x}
<1>2. s \in Seq(T) /\ x \in T
  BY <1>1
<1> HIDE DEF T
<1>3. Append(s, x) \in Seq(T) /\ Len(Append(s, x)) = Len(s) + 1 /\ Len(s) \in Nat
  BY <1>2
<1>4. \A i \in 1..(Len(s) + 1) : Append(s, x)[i] = IF i = Len(s) + 1 THEN x ELSE s[i]
  BY <1>2
<1> QED
  BY <1>2, <1>3, <1>4 DEF Listed

\* The run under way is the one asked for, and its tally is the only one that
\* its feed and the messages so far allow.
RunIsRight ==
  /\ request.replay \in Replays
  /\ request.gtfs \in {0} \cup DOMAIN feeds
  /\ at <= Len(request.replay) + 1
  /\ validated + skipped = at - 1
  /\ config.mode = request.mode
  /\ config.ignore_shapes = request.ignore_shapes
  /\ config.version = IF request.gtfs = 0 THEN config.lay ELSE feeds[request.gtfs].version
  /\ config.abort_on_equal_message => request.mode = "compat" /\ request.abort
  /\ request.gtfs # 0 => Determined(Tally, feeds[request.gtfs], request.replay, at - 1)

RunInv ==
  /\ at \in Nat \ {0} /\ validated \in Nat /\ skipped \in Nat
  /\ Listed(feeds) /\ Listed(results)
  /\ request # None => RunIsRight

\* What a result has to show for itself.
TallyOf(result) ==
  [system_errors |-> result.system_errors, notices |-> result.notices,
   validated |-> result.validated, skipped |-> result.skipped]

\* An answer of the shape Answer gives it.
IsAnswer(result) ==
  result = [request |-> result.request, kind |-> result.kind, system_errors |-> result.system_errors,
            notices |-> result.notices, validated |-> result.validated, skipped |-> result.skipped]

IsComplete(result, held) ==
  /\ result.validated + result.skipped = Len(result.request.replay)
  /\ result.request.gtfs # 0 =>
       /\ result.request.gtfs \in DOMAIN held
       /\ Determined(TallyOf(result), held[result.request.gtfs], result.request.replay, Len(result.request.replay))

ResultsInv ==
  \A i \in DOMAIN results :
    /\ IsAnswer(results[i])
    /\ results[i].kind = "result" => IsComplete(results[i], feeds)

-----------------------------------------------------------------------------
LEMMA ReplaysAreLists ==
  ASSUME LegalInputs, NEW replay \in Replays
  PROVE  Len(replay) \in Nat
BY DEF LegalInputs

\* Nothing happens to the run under way.
LEMMA RunStays ==
  ASSUME RunIsRight, UNCHANGED <<Running, feeds>>
  PROVE  RunIsRight'
BY DEF RunIsRight, Running, Tally

\* A run begins as it was asked to, with what its feed's reading found.
LEMMA RunBegins ==
  ASSUME LegalInputs, NEW r \in Request, UNCHANGED feeds,
         r.gtfs = 0 \/ ~mismatch(feeds[r.gtfs], r.mode, r.ignore_shapes),
         request' = r, config' = RunConfig(_feed_for(r), r), system_errors' = fresh_errors(_feed_for(r)),
         at' = 1, notices' = <<>>, validated' = 0, skipped' = 0, Listed(feeds)
  PROVE  RunIsRight'
<1> DEFINE feed == _feed_for(r)
<1>1. /\ r.mode \in Modes /\ r.ignore_shapes \in BOOLEAN /\ r.abort \in BOOLEAN
      /\ r.replay \in Replays /\ r.gtfs \in 0..Len(feeds)
  BY DEF Request, LegalInputs
<1>2. r.gtfs \in {0} \cup DOMAIN feeds
  BY <1>1 DEF Listed
<1>3. Len(r.replay) \in Nat
  BY <1>1, ReplaysAreLists
<1>4. feed.mode = r.mode /\ feed.ignore_shapes = r.ignore_shapes
  <2>1. CASE r.gtfs = 0
    BY <2>1 DEF _feed_for, PreparedFeed
  <2>2. CASE r.gtfs # 0
    BY <2>2 DEF _feed_for, mismatch
  <2> QED
    BY <2>1, <2>2
<1>5. (r.gtfs # 0 => feed = feeds[r.gtfs]) /\ (r.gtfs = 0 => feed.version = archive)
  BY DEF _feed_for, PreparedFeed
<1> HIDE DEF feed
<1>6. /\ config' = [mode |-> feed.mode, ignore_shapes |-> feed.ignore_shapes, version |-> feed.version, lay |-> archive,
                    abort_on_equal_message |-> (r.abort /\ feed.mode = "compat")]
      /\ system_errors' = feed.system_errors
  BY DEF RunConfig, fresh_errors, feed
<1>7. /\ config'.mode = feed.mode /\ config'.ignore_shapes = feed.ignore_shapes
      /\ config'.version = feed.version /\ config'.lay = archive
      /\ config'.abort_on_equal_message <=> r.abort /\ feed.mode = "compat"
  <2> DEFINE aborts == r.abort /\ feed.mode = "compat"
  <2>1. config' = [mode |-> feed.mode, ignore_shapes |-> feed.ignore_shapes, version |-> feed.version, lay |-> archive,
                   abort_on_equal_message |-> aborts]
    BY <1>6
  <2> HIDE DEF aborts
  <2>2. /\ config'.mode = feed.mode /\ config'.ignore_shapes = feed.ignore_shapes
        /\ config'.version = feed.version /\ config'.lay = archive
        /\ config'.abort_on_equal_message = aborts
    BY <2>1
  <2> QED
    BY <2>2 DEF aborts
<1>8. Tally' = Opening(feed)
  BY <1>6 DEF Tally, Opening
<1>9. Determined(Tally', feed, r.replay, 0)
  BY <1>8, OpeningIsDetermined
<1>10. at' - 1 = 0 /\ at' <= Len(r.replay) + 1 /\ validated' + skipped' = at' - 1
  BY <1>3
<1>11. /\ config'.version = IF r.gtfs = 0 THEN config'.lay ELSE feeds'[r.gtfs].version
       /\ r.gtfs # 0 => Determined(Tally', feeds'[r.gtfs], r.replay, at' - 1)
  BY <1>5, <1>7, <1>9, <1>10
<1> QED
  BY <1>1, <1>2, <1>4, <1>7, <1>10, <1>11 DEF RunIsRight

\* A run goes on by one message, of which it tallies what there is to tally.
LEMMA RunGoesOn ==
  ASSUME LegalInputs, RunInv, request # None, at <= Len(request.replay),
         Tally' = Tallied(Tally, Message), at' = at + 1, validated' + skipped' = validated + skipped + 1,
         UNCHANGED <<request, config, feeds>>
  PROVE  RunIsRight'
<1>1. RunIsRight /\ at \in Nat \ {0} /\ validated \in Nat /\ skipped \in Nat
  BY DEF RunInv
<1>2. Len(request.replay) \in Nat
  BY <1>1, ReplaysAreLists DEF RunIsRight
<1>3. at - 1 \in Nat /\ (at - 1) + 1 = at /\ at' - 1 = at /\ at' <= Len(request.replay) + 1
  BY <1>1, <1>2
<1>4. ASSUME request.gtfs # 0
      PROVE  Determined(Tally', feeds[request.gtfs], request.replay, at' - 1)
  <2>1. Determined(Tally, feeds[request.gtfs], request.replay, at - 1)
    BY <1>1, <1>4 DEF RunIsRight
  <2>2. Determined(Tallied(Tally, request.replay[(at - 1) + 1]), feeds[request.gtfs], request.replay, (at - 1) + 1)
    BY <2>1, <1>3, OneMoreIsDetermined
  <2> QED
    BY <2>2, <1>3 DEF Message
<1>5. validated' + skipped' = at' - 1
  BY <1>1, <1>3 DEF RunIsRight
<1> QED
  BY <1>1, <1>3, <1>4, <1>5 DEF RunIsRight

LEMMA RunNext ==
  ASSUME LegalInputs, RunInv, [Next]_vars
  PROVE  RunInv'
<1>0. /\ at \in Nat \ {0} /\ validated \in Nat /\ skipped \in Nat
      /\ Listed(feeds) /\ Listed(results)
      /\ request # None => RunIsRight
  BY DEF RunInv
<1>1. CASE UNCHANGED vars \/ replace_archive \/ refuse_write \/ write_report \/ write_system_errors
  <2>1. UNCHANGED <<Running, feeds, results>>
    BY <1>1 DEF vars, Running, replace_archive, refuse_write, write_report, write_system_errors
  <2>2. request # None => RunIsRight'
    BY <1>0, <2>1, RunStays
  <2> QED
    BY <1>0, <2>1, <2>2 DEF RunInv, Running
<1>2. CASE prepare_feed
  <2>1. PICK feed : feeds' = Append(feeds, feed)
    BY <1>2 DEF prepare_feed
  <2>2. Listed(feeds')
    BY <1>0, <2>1, OneMoreListed
  <2>3. request = None /\ UNCHANGED <<Running, results>>
    BY <1>2 DEF prepare_feed
  <2> QED
    BY <1>0, <2>2, <2>3 DEF RunInv, Running
<1>3. CASE validate
  <2>1. PICK r \in Request :
          IF r.gtfs # 0 /\ mismatch(feeds[r.gtfs], r.mode, r.ignore_shapes)
          THEN /\ results' = Append(results, [Answer("usage error") EXCEPT !.request = r])
               /\ UNCHANGED Running
          ELSE /\ request' = r
               /\ config' = RunConfig(_feed_for(r), r)
               /\ system_errors' = fresh_errors(_feed_for(r))
               /\ at' = 1 /\ notices' = <<>> /\ validated' = 0 /\ skipped' = 0
               /\ UNCHANGED results
    BY <1>3 DEF validate
  <2>2. request = None /\ UNCHANGED feeds
    BY <1>3 DEF validate
  <2>3. CASE r.gtfs # 0 /\ mismatch(feeds[r.gtfs], r.mode, r.ignore_shapes)
    <3> DEFINE answer == [Answer("usage error") EXCEPT !.request = r]
    <3>1. results' = Append(results, answer) /\ UNCHANGED Running
      BY <2>1, <2>3
    <3> HIDE DEF answer
    <3>2. Listed(results')
      BY <1>0, <3>1, OneMoreListed
    <3> QED
      BY <1>0, <2>2, <3>1, <3>2 DEF RunInv, Running
  <2>4. CASE ~(r.gtfs # 0 /\ mismatch(feeds[r.gtfs], r.mode, r.ignore_shapes))
    <3>1. RunIsRight'
      BY <1>0, <2>1, <2>2, <2>4, RunBegins
    <3>2. at' = 1 /\ validated' = 0 /\ skipped' = 0 /\ results' = results
      BY <2>1, <2>4
    <3> QED
      BY <1>0, <2>2, <3>1, <3>2 DEF RunInv
  <2> QED
    BY <2>3, <2>4
<1>4. CASE skip
  <2>1. /\ request # None /\ at <= Len(request.replay) /\ ~Message.decodes
        /\ system_errors' = Append(system_errors, Message.name) /\ skipped' = skipped + 1 /\ at' = at + 1
        /\ UNCHANGED <<feeds, config, request, notices, validated, results>>
    BY <1>4 DEF skip
  <2>2. Tally' = Tallied(Tally, Message)
    BY <2>1 DEF Tally, Tallied
  <2>3. RunIsRight'
    BY <1>0, <2>1, <2>2, RunGoesOn
  <2> QED
    BY <1>0, <2>1, <2>3 DEF RunInv
<1>5. CASE ResultsWriter
  <2>1. /\ request # None /\ at <= Len(request.replay) /\ Message.decodes
        /\ notices' = Merged(Message.found) /\ validated' = validated + 1 /\ at' = at + 1
        /\ UNCHANGED <<feeds, config, request, system_errors, skipped, results>>
    BY <1>5 DEF ResultsWriter
  <2>2. Merged(Message.found) = MergedOnto(notices, Message.found)
    BY DEF Merged, MergedOnto
  <2>3. Tally' = Tallied(Tally, Message)
    BY <2>1, <2>2 DEF Tally, Tallied
  <2>4. RunIsRight'
    BY <1>0, <2>1, <2>3, RunGoesOn
  <2> QED
    BY <1>0, <2>1, <2>4 DEF RunInv
<1>6. CASE SinkFails \/ AbortOnEqualMessage \/ finish
  <2>1. PICK answer : results' = Append(results, answer)
    BY <1>6 DEF SinkFails, AbortOnEqualMessage, finish, Ends
  <2>2. request' = None /\ UNCHANGED <<feeds, at, validated, skipped>>
    BY <1>6 DEF SinkFails, AbortOnEqualMessage, finish, Ends
  <2>3. Listed(results')
    BY <1>0, <2>1, OneMoreListed
  <2> QED
    BY <1>0, <2>2, <2>3 DEF RunInv
<1> QED
  BY <1>1, <1>2, <1>3, <1>4, <1>5, <1>6 DEF Next

-----------------------------------------------------------------------------
\* A result was right about its feed and stays so while feeds are added.
LEMMA ResultStands ==
  ASSUME Listed(feeds), UNCHANGED feeds \/ \E feed : feeds' = Append(feeds, feed),
         NEW result, IsComplete(result, feeds)
  PROVE  IsComplete(result, feeds')
<1>1. \A i \in DOMAIN feeds : i \in DOMAIN feeds' /\ feeds'[i] = feeds[i]
  <2>1. CASE UNCHANGED feeds
    BY <2>1
  <2>2. CASE \E feed : feeds' = Append(feeds, feed)
    <3>1. PICK feed : feeds' = Append(feeds, feed)
      BY <2>2
    <3> QED
      BY <3>1, OneMoreListed
  <2> QED
    BY <2>1, <2>2
<1> QED
  BY <1>1 DEF IsComplete

LEMMA ResultsGrow ==
  ASSUME RunInv, ResultsInv, NEW result, results' = Append(results, result), UNCHANGED feeds,
         IsAnswer(result), result.kind = "result" => IsComplete(result, feeds)
  PROVE  ResultsInv'
<1>1. Listed(results)
  BY DEF RunInv
<1>2. ASSUME NEW i \in DOMAIN results'
      PROVE  IsAnswer(results'[i]) /\ (results'[i].kind = "result" => IsComplete(results'[i], feeds'))
  <2>1. CASE i \in DOMAIN results
    <3>1. results'[i] = results[i]
      BY <1>1, <2>1, OneMoreListed
    <3>2. IsAnswer(results[i]) /\ (results[i].kind = "result" => IsComplete(results[i], feeds))
      BY <2>1 DEF ResultsInv
    <3> QED
      BY <3>1, <3>2
  <2>2. CASE i \notin DOMAIN results
    <3>1. results'[i] = result
      BY <1>1, <2>2, OneMoreListed
    <3> QED
      BY <3>1
  <2> QED
    BY <2>1, <2>2
<1> QED
  BY <1>2 DEF ResultsInv

\* A run that ends with what it tallied.
LEMMA RunEnds ==
  ASSUME LegalInputs, RunInv, ResultsInv, NEW kind, Ends(kind), request # None,
         kind = "result" => at > Len(request.replay)
  PROVE  ResultsInv'
<1> DEFINE result == [Answer(kind) EXCEPT !.system_errors = system_errors, !.notices = notices,
                                          !.validated = validated, !.skipped = skipped]
<1>1. results' = Append(results, result) /\ UNCHANGED feeds
  BY DEF Ends
<1>2. result = [request |-> request, kind |-> kind, system_errors |-> system_errors, notices |-> notices,
                validated |-> validated, skipped |-> skipped]
  <2> DEFINE one == Answer(kind)
             two == [one EXCEPT !.system_errors = system_errors]
             three == [two EXCEPT !.notices = notices]
             four == [three EXCEPT !.validated = validated]
  <2>1. one = [request |-> request, kind |-> kind, system_errors |-> <<>>, notices |-> <<>>, validated |-> 0, skipped |-> 0]
    BY DEF Answer
  <2>2. result = [four EXCEPT !.skipped = skipped]
    OBVIOUS
  <2> HIDE DEF one, result
  <2>3. two = [request |-> request, kind |-> kind, system_errors |-> system_errors, notices |-> <<>>,
               validated |-> 0, skipped |-> 0]
    BY <2>1
  <2> HIDE DEF two
  <2>4. three = [request |-> request, kind |-> kind, system_errors |-> system_errors, notices |-> notices,
                 validated |-> 0, skipped |-> 0]
    BY <2>3
  <2> HIDE DEF three
  <2>5. four = [request |-> request, kind |-> kind, system_errors |-> system_errors, notices |-> notices,
                validated |-> validated, skipped |-> 0]
    BY <2>4
  <2> HIDE DEF four
  <2> QED
    BY <2>2, <2>5
<1> HIDE DEF result
<1>3. IsAnswer(result) /\ TallyOf(result) = Tally /\ result.request = request /\ result.kind = kind
      /\ result.validated = validated /\ result.skipped = skipped
  BY <1>2 DEF IsAnswer, TallyOf, Tally
<1>4. kind = "result" => IsComplete(result, feeds)
  <2> HAVE kind = "result"
  <2>1. RunIsRight /\ at \in Nat /\ at > Len(request.replay)
    BY DEF RunInv
  <2>2. Len(request.replay) \in Nat
    BY <2>1, ReplaysAreLists DEF RunIsRight
  <2>3. at - 1 = Len(request.replay)
    BY <2>1, <2>2 DEF RunIsRight
  <2>4. /\ validated + skipped = Len(request.replay)
        /\ request.gtfs # 0 =>
             /\ request.gtfs \in DOMAIN feeds
             /\ Determined(Tally, feeds[request.gtfs], request.replay, Len(request.replay))
    BY <2>1, <2>3 DEF RunIsRight
  <2> QED
    BY <2>4, <1>3 DEF IsComplete
<1> QED
  BY <1>1, <1>3, <1>4, ResultsGrow

LEMMA ResultsNext ==
  ASSUME LegalInputs, RunInv, ResultsInv, [Next]_vars
  PROVE  ResultsInv'
<1>1. CASE UNCHANGED <<results, feeds>> \/ prepare_feed
  <2>1. UNCHANGED results /\ (UNCHANGED feeds \/ \E feed : feeds' = Append(feeds, feed))
    BY <1>1 DEF prepare_feed
  <2>2. Listed(feeds)
    BY DEF RunInv
  <2>3. ASSUME NEW i \in DOMAIN results, results[i].kind = "result"
        PROVE  IsComplete(results[i], feeds')
    BY <2>1, <2>2, <2>3, ResultStands DEF ResultsInv
  <2> QED
    BY <2>1, <2>3 DEF ResultsInv
<1>2. CASE validate /\ ~UNCHANGED <<results, feeds>>
  <2>1. PICK r \in Request : results' = Append(results, [Answer("usage error") EXCEPT !.request = r])
    BY <1>2 DEF validate
  <2> DEFINE answer == [Answer("usage error") EXCEPT !.request = r]
  <2>2. answer = [request |-> r, kind |-> "usage error", system_errors |-> <<>>, notices |-> <<>>,
                  validated |-> 0, skipped |-> 0]
    <3> DEFINE one == Answer("usage error")
    <3>1. one = [request |-> request, kind |-> "usage error", system_errors |-> <<>>, notices |-> <<>>,
                 validated |-> 0, skipped |-> 0]
      BY DEF Answer
    <3>2. answer = [one EXCEPT !.request = r]
      OBVIOUS
    <3> HIDE DEF one, answer
    <3> QED
      BY <3>1, <3>2
  <2>3. results' = Append(results, answer) /\ UNCHANGED feeds
    BY <1>2, <2>1 DEF validate
  <2> HIDE DEF answer
  <2>4. IsAnswer(answer) /\ answer.kind # "result"
    BY <2>2 DEF IsAnswer
  <2> QED
    BY <2>3, <2>4, ResultsGrow
<1>3. CASE SinkFails
  BY <1>3, RunEnds DEF SinkFails
<1>4. CASE AbortOnEqualMessage
  BY <1>4, RunEnds DEF AbortOnEqualMessage
<1>5. CASE finish
  BY <1>5, RunEnds DEF finish
<1>6. UNCHANGED <<results, feeds>> \/ prepare_feed \/ validate \/ SinkFails \/ AbortOnEqualMessage \/ finish
  BY DEF Next, vars, Running, replace_archive, skip, ResultsWriter, refuse_write, write_report, write_system_errors
<1> QED
  BY <1>1, <1>2, <1>3, <1>4, <1>5, <1>6

-----------------------------------------------------------------------------
LEMMA ListedLength ==
  ASSUME NEW s, Listed(s)
  PROVE  Len(s) \in Nat /\ DOMAIN s = 1..Len(s)
BY DEF Listed

\* The report and the system errors on disk, the calls that left them there and the
\* results those calls were about.
IsReport(report, calls, held) ==
  /\ report.by \in 0..Len(calls)
  /\ report.whole =>
       /\ report.by # 0
       /\ report.notices = held[calls[report.by].result].notices
       /\ report.summary.messagesValidated = held[calls[report.by].result].validated
       /\ report.summary.filesSkipped = held[calls[report.by].result].skipped

AreErrors(errors, report, calls, held) ==
  /\ errors.by \in 0..Len(calls)
  /\ errors.by <= report.by
  /\ errors.by = 0 => errors = NoFile
  /\ errors.by # 0 /\ errors.by = report.by => report.whole
  /\ errors.whole => errors.by # 0 /\ errors.notices = held[calls[errors.by].result].system_errors

IsPair(call) == call = [result |-> call.result, came |-> call.came]

\* A call is about a result.  Under way, it has written the report and nothing was
\* written since; and what it returned from is not replaced by an older one's.
IsCall(w, errors, report, calls, held) ==
  /\ IsPair(calls[w])
  /\ calls[w].result \in DOMAIN held /\ held[calls[w].result].kind = "result"
  /\ calls[w].came = "under way" => w = Len(calls) /\ report.by = w /\ report.whole
  /\ calls[w].came = "returned" =>
       /\ w <= report.by /\ (w = report.by => report.whole)
       /\ w <= errors.by /\ (w = errors.by => errors.whole)

Answers(errors, report, calls, held) ==
  /\ Listed(calls)
  /\ IsReport(report, calls, held)
  /\ AreErrors(errors, report, calls, held)
  /\ \A w \in DOMAIN calls : IsCall(w, errors, report, calls, held)

ReportInv ==
  /\ disk = [results |-> disk.results, report |-> disk.report, system_errors |-> disk.system_errors]
  /\ Answers(disk.system_errors, disk.report, writes, results)

\* What was written stays so when results are added.
LEMMA AnswersStand ==
  ASSUME NEW held, Listed(held), NEW result, NEW errors, NEW report, NEW calls,
         Answers(errors, report, calls, held)
  PROVE  Answers(errors, report, calls, Append(held, result))
<1> DEFINE more == Append(held, result)
<1>1. \A i \in DOMAIN held : i \in DOMAIN more /\ more[i] = held[i]
  BY OneMoreListed
<1>2. Listed(calls) /\ DOMAIN calls = 1..Len(calls) /\ Len(calls) \in Nat
  BY DEF Answers, Listed
<1> HIDE DEF more
<1>3. ASSUME NEW w \in DOMAIN calls
      PROVE  /\ IsCall(w, errors, report, calls, more)
             /\ more[calls[w].result] = held[calls[w].result]
  <2>1. IsCall(w, errors, report, calls, held)
    BY DEF Answers
  <2>2. calls[w].result \in DOMAIN more /\ more[calls[w].result] = held[calls[w].result]
    BY <1>1, <2>1 DEF IsCall
  <2> QED
    BY <2>1, <2>2 DEF IsCall
<1>4. IsReport(report, calls, more)
  <2>1. IsReport(report, calls, held)
    BY DEF Answers
  <2>2. report.whole => report.by \in DOMAIN calls
    BY <1>2, <2>1 DEF IsReport
  <2> QED
    BY <1>3, <2>1, <2>2 DEF IsReport
<1>5. AreErrors(errors, report, calls, more)
  <2>1. AreErrors(errors, report, calls, held)
    BY DEF Answers
  <2>2. errors.whole => errors.by \in DOMAIN calls
    BY <1>2, <2>1 DEF AreErrors
  <2> QED
    BY <1>3, <2>1, <2>2 DEF AreErrors
<1> QED
  BY <1>2, <1>3, <1>4, <1>5 DEF Answers, more

Idle(calls) == \A w \in DOMAIN calls : calls[w].came # "under way"

\* What a call begins with: its report whole, cut, or as an earlier one left it.
Begins(n, call, report, before, calls, held) ==
  \/ /\ call.came = "under way"
     /\ report.by = Len(calls) + 1 /\ report.whole /\ report.notices = held[n].notices
     /\ report.summary.messagesValidated = held[n].validated
     /\ report.summary.filesSkipped = held[n].skipped
  \/ call.came = "raised" /\ report.by = Len(calls) + 1 /\ ~report.whole
  \/ call.came \in {"raised", "usage error"} /\ report = before

LEMMA AnswersBegin ==
  ASSUME NEW errors, NEW before, NEW calls, NEW held, Answers(errors, before, calls, held),
         Idle(calls), NEW n \in DOMAIN held, held[n].kind = "result", NEW call, NEW report,
         IsPair(call), call.result = n, Begins(n, call, report, before, calls, held)
  PROVE  Answers(errors, report, Append(calls, call), held)
<1> DEFINE more == Append(calls, call)
           m == Len(calls) + 1
<1>1. /\ Listed(more) /\ Len(calls) \in Nat /\ DOMAIN calls = 1..Len(calls)
      /\ Len(more) = m /\ DOMAIN more = 1..m /\ more[m] = call
      /\ \A w \in DOMAIN calls : more[w] = calls[w]
  <2>1. Listed(calls)
    BY DEF Answers
  <2> QED
    BY <2>1, OneMoreListed
<1>2. call.result = n
  OBVIOUS
<1>3. IsReport(before, calls, held) /\ AreErrors(errors, before, calls, held)
  BY DEF Answers
<1> HIDE DEF more
<1>4. report.by = m \/ report = before
  BY DEF Begins
<1>5. before.by \in Nat /\ before.by < m /\ errors.by \in Nat /\ errors.by < m
  BY <1>1, <1>3 DEF IsReport, AreErrors
<1>6. IsReport(report, more, held)
  <2>1. CASE report = before
    <3>1. before.whole => before.by \in DOMAIN calls
      BY <1>1, <1>3 DEF IsReport
    <3> QED
      BY <1>1, <1>3, <2>1, <3>1 DEF IsReport
  <2>2. CASE report.by = m /\ ~report.whole
    BY <1>1, <2>2 DEF IsReport
  <2>3. CASE /\ report.by = m /\ report.notices = held[n].notices
             /\ report.summary.messagesValidated = held[n].validated
             /\ report.summary.filesSkipped = held[n].skipped
    BY <1>1, <1>2, <2>3 DEF IsReport
  <2> QED
    BY <2>1, <2>2, <2>3 DEF Begins
<1>7. AreErrors(errors, report, more, held)
  <2>1. errors.by \in 0..Len(more) /\ errors.by <= report.by
    BY <1>1, <1>3, <1>4, <1>5 DEF AreErrors
  <2>2. errors.by = 0 => errors = NoFile
    BY <1>3 DEF AreErrors
  <2>3. errors.by # 0 /\ errors.by = report.by => report.whole
    BY <1>3, <1>4, <1>5 DEF AreErrors
  <2>4. errors.whole => errors.by # 0 /\ errors.notices = held[more[errors.by].result].system_errors
    <3> HAVE errors.whole
    <3>1. errors.by # 0 /\ errors.notices = held[calls[errors.by].result].system_errors
      BY <1>3 DEF AreErrors
    <3>2. errors.by \in DOMAIN calls
      BY <1>1, <1>5, <3>1
    <3> QED
      BY <1>1, <3>1, <3>2
  <2> QED
    BY <2>1, <2>2, <2>3, <2>4 DEF AreErrors
<1>8. ASSUME NEW w \in DOMAIN more
      PROVE  IsCall(w, errors, report, more, held)
  <2>1. CASE w \in DOMAIN calls
    <3>1. IsCall(w, errors, before, calls, held) /\ more[w] = calls[w] /\ calls[w].came # "under way"
      BY <1>1, <2>1 DEF Answers, Idle
    <3>2. w \in Nat /\ w < m
      BY <1>1, <2>1
    <3>3. calls[w].came = "returned" => w <= report.by /\ (w = report.by => report.whole)
      BY <1>4, <1>5, <3>1, <3>2 DEF IsCall
    <3>4. IsPair(more[w]) /\ more[w].result \in DOMAIN held /\ held[more[w].result].kind = "result"
      BY <3>1 DEF IsCall
    <3>5. calls[w].came = "returned" => w <= errors.by /\ (w = errors.by => errors.whole)
      BY <3>1 DEF IsCall
    <3>6. more[w].came = calls[w].came /\ more[w].came # "under way"
      BY <3>1
    <3>7. more[w].came = "returned" =>
            /\ w <= report.by /\ (w = report.by => report.whole)
            /\ w <= errors.by /\ (w = errors.by => errors.whole)
      BY <3>3, <3>5, <3>6
    <3> QED
      BY <3>4, <3>6, <3>7, Zenon DEF IsCall
  <2>2. CASE w = m
    <3>1. more[w] = call /\ w = Len(more)
      BY <1>1, <2>2
    <3>2. call.came = "under way" => report.by = m /\ report.whole
      BY DEF Begins
    <3>3. call.came # "returned"
      BY DEF Begins
    <3> QED
      BY <1>2, <2>2, <3>1, <3>2, <3>3 DEF IsCall
  <2> QED
    BY <1>1, <2>1, <2>2
<1> QED
  BY <1>1, <1>6, <1>7, <1>8 DEF Answers, more

\* What a call that has written its report ends with.
EndsWith(came, errors, before, m, system_errors_found) ==
  \/ came = "returned" /\ errors.by = m /\ errors.whole /\ errors.notices = system_errors_found
  \/ came = "raised" /\ errors.by = m /\ ~errors.whole
  \/ came = "raised" /\ errors = before

UnderWay(m, calls) == m = Len(calls) /\ m \in DOMAIN calls /\ calls[m].came = "under way"

LEMMA AnswersReturn ==
  ASSUME NEW before, NEW report, NEW calls, NEW held, Answers(before, report, calls, held),
         NEW m, UnderWay(m, calls), NEW came, NEW errors,
         EndsWith(came, errors, before, m, held[calls[m].result].system_errors)
  PROVE  Answers(errors, report, [calls EXCEPT ![m].came = came], held)
<1> DEFINE after == [calls EXCEPT ![m].came = came]
           last == [result |-> calls[m].result, came |-> came]
<1>0. m = Len(calls) /\ m \in DOMAIN calls /\ calls[m].came = "under way"
  BY DEF UnderWay
<1>1. Listed(calls) /\ m \in Nat /\ DOMAIN calls = 1..m /\ m \in DOMAIN calls /\ m = Len(calls)
  <2>1. Listed(calls)
    BY DEF Answers
  <2> QED
    BY <2>1, <1>0, ListedLength
<1>2. IsCall(m, before, report, calls, held)
  BY <1>1 DEF Answers
<1>3. after = [calls EXCEPT ![m] = last]
  <2>1. calls[m] = [result |-> calls[m].result, came |-> calls[m].came]
    BY <1>2 DEF IsCall, IsPair
  <2>2. [calls[m] EXCEPT !.came = came] = last
    BY <2>1
  <2>3. after = [calls EXCEPT ![m] = [calls[m] EXCEPT !.came = came]]
    OBVIOUS
  <2> QED
    BY <2>2, <2>3
<1>4. /\ Listed(after) /\ Len(after) = m /\ DOMAIN after = 1..m /\ after[m] = last
      /\ \A w \in 1..m : w # m => after[w] = calls[w]
  <2>1. PICK S : calls \in Seq(S)
    BY <1>1 DEF Listed
  <2> DEFINE T == S \cup {last}
  <2>2. calls \in Seq(T) /\ last \in T
    BY <2>1
  <2> HIDE DEF T, last, after
  <2>3. after \in Seq(T)
    BY <1>1, <1>3, <2>2
  <2>4. Len(after) = m /\ DOMAIN after = 1..m /\ after[m] = last
        /\ \A w \in 1..m : w # m => after[w] = calls[w]
    BY <1>1, <1>3, <2>2
  <2> QED
    BY <1>1, <2>3, <2>4 DEF Listed
<1>5. IsPair(last) /\ last.result = calls[m].result /\ last.came = came
  BY DEF IsPair
<1>6. report.by = m /\ report.whole
  BY <1>0, <1>2 DEF IsCall
<1>7. /\ IsReport(report, calls, held) /\ AreErrors(before, report, calls, held)
      /\ calls[m].result \in DOMAIN held /\ held[calls[m].result].kind = "result"
  BY <1>2 DEF Answers, IsCall
<1> HIDE DEF after, last
<1>8. Len(after) = Len(calls) /\ \A w \in DOMAIN calls : after[w].result = calls[w].result
  BY <1>1, <1>4, <1>5
<1>9. IsReport(report, after, held)
  <2>1. after[report.by].result = calls[report.by].result
    BY <1>1, <1>6, <1>8
  <2> QED
    BY <1>7, <1>8, <2>1 DEF IsReport
<1>10. \/ /\ came = "returned" /\ errors.by = m /\ errors.whole
          /\ errors.notices = held[calls[m].result].system_errors
       \/ came = "raised" /\ errors.by = m /\ ~errors.whole
       \/ came = "raised" /\ errors = before
  BY DEF EndsWith
<1>11. AreErrors(errors, report, after, held)
  <2>1. CASE errors = before
    <3>1. AreErrors(errors, report, calls, held)
      BY <1>7, <2>1
    <3>2. errors.whole => errors.by \in DOMAIN calls
      BY <1>1, <3>1 DEF AreErrors
    <3>3. errors.whole => after[errors.by].result = calls[errors.by].result
      BY <1>8, <3>2
    <3> QED
      BY <1>8, <3>1, <3>3 DEF AreErrors
  <2>2. CASE errors.by = m /\ (errors.whole => errors.notices = held[calls[m].result].system_errors)
    <3>1. after[errors.by].result = calls[m].result
      BY <1>1, <1>8, <2>2
    <3>2. m \in Nat /\ m # 0 /\ m \in 0..Len(after)
      BY <1>1, <1>8
    <3>3. /\ errors.by \in 0..Len(after) /\ errors.by <= report.by /\ errors.by # 0
          /\ report.whole
      BY <1>6, <2>2, <3>2
    <3>4. errors.whole => errors.notices = held[after[errors.by].result].system_errors
      BY <2>2, <3>1
    <3> QED
      BY <3>3, <3>4 DEF AreErrors
  <2> QED
    BY <1>10, <2>1, <2>2
<1>12. errors.by = m \/ errors = before
  BY <1>10
<1>13. ASSUME NEW w \in DOMAIN after
       PROVE  IsCall(w, errors, report, after, held)
  <2>0. w \in 1..m /\ w \in DOMAIN calls
    BY <1>1, <1>4
  <2>1. CASE w # m
    <3>0. after[w] = calls[w] /\ w \in Nat /\ w < m
      <4>1. after[w] = calls[w]
        BY <1>4, <2>0, <2>1
      <4>2. m \in Nat
        BY <1>1
      <4>3. w \in Nat /\ w < m
        BY <2>0, <2>1, <4>2
      <4> QED
        BY <4>1, <4>3
    <3>1. IsCall(w, before, report, calls, held)
      BY <2>0 DEF Answers
    <3>2. calls[w].came = "returned" =>
            /\ w <= report.by /\ (w = report.by => report.whole)
            /\ w <= errors.by /\ (w = errors.by => errors.whole)
      <4> HAVE calls[w].came = "returned"
      <4>1. /\ w <= report.by /\ (w = report.by => report.whole)
            /\ w <= before.by /\ (w = before.by => before.whole)
        BY <3>1 DEF IsCall
      <4>2. CASE errors = before
        BY <4>1, <4>2
      <4>3. CASE errors.by = m
        BY <1>1, <3>0, <4>1, <4>3
      <4> QED
        BY <1>12, <4>2, <4>3
    <3>3. calls[w].came # "under way"
      BY <1>1, <2>1, <3>1 DEF IsCall
    <3>4. IsPair(calls[w]) /\ calls[w].result \in DOMAIN held /\ held[calls[w].result].kind = "result"
      BY <3>1 DEF IsCall
    <3>5. after[w].came = calls[w].came /\ after[w].result = calls[w].result /\ IsPair(after[w])
      BY <3>0, <3>4
    <3>6. after[w].came # "under way" /\ after[w].result \in DOMAIN held /\ held[after[w].result].kind = "result"
      BY <3>3, <3>4, <3>5
    <3>7. after[w].came = "returned" =>
            /\ w <= report.by /\ (w = report.by => report.whole)
            /\ w <= errors.by /\ (w = errors.by => errors.whole)
      BY <3>2, <3>5, Zenon
    <3> QED
      BY <3>5, <3>6, <3>7, Zenon DEF IsCall
  <2>2. CASE w = m
    <3>1. after[w].came = came /\ IsPair(after[w])
      BY <1>4, <1>5, <2>2
    <3>2. after[w].result \in DOMAIN held /\ held[after[w].result].kind = "result"
      BY <1>1, <1>7, <1>8, <2>2
    <3>3. came # "under way"
      BY <1>10
    <3>4. came = "returned" => w = errors.by /\ errors.whole
      BY <1>10, <2>2
    <3>5. w \in Nat /\ w = report.by /\ report.whole
      BY <1>1, <1>6, <2>2
    <3>6. came = "returned" => w <= report.by /\ w <= errors.by /\ errors.whole
      BY <3>4, <3>5
    <3> QED
      BY <3>1, <3>2, <3>3, <3>5, <3>6 DEF IsCall
  <2> QED
    BY <2>1, <2>2
<1> QED
  BY <1>4, <1>9, <1>11, <1>13 DEF Answers, after

LEMMA ReportNext ==
  ASSUME RunInv, ReportInv, [Next]_vars
  PROVE  ReportInv'
<1> DEFINE Shape(d) == d = [results |-> d.results, report |-> d.report, system_errors |-> d.system_errors]
<1>0. /\ Listed(results) /\ Shape(disk) /\ Answers(disk.system_errors, disk.report, writes, results)
      /\ Listed(writes) /\ Len(writes) \in Nat /\ DOMAIN writes = 1..Len(writes)
  BY DEF RunInv, ReportInv, Answers, Listed
<1>1. CASE UNCHANGED <<disk, results, writes>>
  BY <1>1 DEF ReportInv
<1>2. CASE /\ UNCHANGED writes
           /\ UNCHANGED results \/ \E result : results' = Append(results, result)
           /\ UNCHANGED disk \/ \E written : disk' = [disk EXCEPT !.results = written]
  <2>1. /\ disk'.report = disk.report /\ disk'.system_errors = disk.system_errors /\ Shape(disk')
    <3>1. CASE disk' = disk
      BY <1>0, <3>1
    <3>2. CASE \E written : disk' = [disk EXCEPT !.results = written]
      <4>1. PICK written : disk' = [disk EXCEPT !.results = written]
        BY <3>2
      <4> QED
        BY <1>0, <4>1
    <3> QED
      BY <1>2, <3>1, <3>2
  <2>2. Answers(disk.system_errors, disk.report, writes, results')
    <3>1. CASE results' = results
      BY <1>0, <3>1
    <3>2. CASE \E result : results' = Append(results, result)
      BY <1>0, <3>2, AnswersStand
    <3> QED
      BY <1>2, <3>1, <3>2
  <2> QED
    BY <1>2, <2>1, <2>2 DEF ReportInv
<1>3. CASE refuse_write \/ write_report
  <2>0. PICK n \in DOMAIN results : \E came :
          /\ CanWrite(n) /\ Called(n, came) /\ UNCHANGED results
          /\ \/ came \in {"raised", "usage error"} /\ UNCHANGED disk
             \/ came = "raised" /\ disk' = [disk EXCEPT !.report = Cut(Len(writes) + 1)]
             \/ came = "under way" /\ disk' = [disk EXCEPT !.report = Report(n, Len(writes) + 1)]
    <3>1. CASE refuse_write
      BY <3>1 DEF refuse_write
    <3>2. CASE write_report
      BY <3>2 DEF write_report
    <3> QED
      BY <1>3, <3>1, <3>2
  <2>1. PICK came :
          /\ CanWrite(n) /\ Called(n, came) /\ UNCHANGED results
          /\ \/ came \in {"raised", "usage error"} /\ UNCHANGED disk
             \/ came = "raised" /\ disk' = [disk EXCEPT !.report = Cut(Len(writes) + 1)]
             \/ came = "under way" /\ disk' = [disk EXCEPT !.report = Report(n, Len(writes) + 1)]
    BY <2>0
  <2> DEFINE call == [result |-> n, came |-> came]
  <2>2. writes' = Append(writes, call) /\ IsPair(call) /\ call.result = n /\ call.came = came
    BY <2>1 DEF Called, IsPair
  <2>3. results[n].kind = "result" /\ Idle(writes)
    <3>1. results[n].kind = "result" /\ ~Writing
      BY <2>1 DEF CanWrite
    <3>2. ASSUME NEW w \in DOMAIN writes, writes[w].came = "under way"
          PROVE  FALSE
      <4>1. w = Len(writes)
        BY <1>0, <3>2 DEF Answers, IsCall
      <4>2. writes # <<>>
        BY <1>0
      <4> QED
        BY <3>1, <3>2, <4>1, <4>2 DEF Writing, Last
    <3> QED
      BY <3>1, <3>2 DEF Idle
  <2> HIDE DEF call
  <2>4. disk'.system_errors = disk.system_errors /\ Shape(disk')
    BY <1>0, <2>1
  <2>5. Begins(n, call, disk'.report, disk.report, writes, results)
    <3>1. CASE came \in {"raised", "usage error"} /\ UNCHANGED disk
      BY <2>2, <3>1 DEF Begins
    <3>2. CASE came = "raised" /\ disk' = [disk EXCEPT !.report = Cut(Len(writes) + 1)]
      <4>1. disk'.report = Cut(Len(writes) + 1)
        BY <1>0, <3>2
      <4>2. disk'.report.by = Len(writes) + 1 /\ ~disk'.report.whole
        BY <4>1 DEF Cut
      <4> QED
        BY <2>2, <3>2, <4>2 DEF Begins
    <3>3. CASE came = "under way" /\ disk' = [disk EXCEPT !.report = Report(n, Len(writes) + 1)]
      <4>1. disk'.report = Report(n, Len(writes) + 1)
        BY <1>0, <3>3
      <4>2. /\ disk'.report.by = Len(writes) + 1 /\ disk'.report.whole /\ disk'.report.notices = results[n].notices
            /\ disk'.report.summary.messagesValidated = results[n].validated
            /\ disk'.report.summary.filesSkipped = results[n].skipped
        BY <4>1 DEF Report
      <4> QED
        BY <2>2, <3>3, <4>2 DEF Begins
    <3> QED
      BY <2>1, <3>1, <3>2, <3>3
  <2>6. Answers(disk.system_errors, disk'.report, writes', results)
    BY <1>0, <2>2, <2>3, <2>5, AnswersBegin
  <2> QED
    BY <2>1, <2>4, <2>6 DEF ReportInv
<1>4. CASE write_system_errors
  <2> DEFINE n == writes[Len(writes)].result
  <2>1. Writing /\ UNCHANGED results
    BY <1>4 DEF write_system_errors
  <2>2. UnderWay(Len(writes), writes) /\ Last(writes) = writes[Len(writes)]
    <3>1. writes # <<>> /\ Last(writes) = writes[Len(writes)] /\ Last(writes).came = "under way"
      BY <2>1 DEF Writing, Last
    <3>2. Len(writes) # 0
      <4>1. PICK S : writes \in Seq(S)
        BY <1>0 DEF Listed
      <4> QED
        BY <3>1, <4>1, EmptySeq
    <3>3. Len(writes) \in DOMAIN writes
      BY <1>0, <3>2
    <3> QED
      BY <3>1, <3>3 DEF UnderWay
  <2>3. PICK came :
          /\ writes' = [writes EXCEPT ![Len(writes)].came = came]
          /\ \/ came = "raised" /\ UNCHANGED disk
             \/ came = "raised" /\ disk' = [disk EXCEPT !.system_errors = Cut(Len(writes))]
             \/ came = "returned" /\ disk' = [disk EXCEPT !.system_errors = SystemErrors(n, Len(writes))]
    BY <1>4, <2>2 DEF write_system_errors, Returned
  <2>4. disk'.report = disk.report /\ Shape(disk')
    BY <1>0, <2>3
  <2>5. EndsWith(came, disk'.system_errors, disk.system_errors, Len(writes), results[n].system_errors)
    <3>1. CASE came = "raised" /\ UNCHANGED disk
      BY <3>1 DEF EndsWith
    <3>2. CASE came = "raised" /\ disk' = [disk EXCEPT !.system_errors = Cut(Len(writes))]
      <4>1. disk'.system_errors = Cut(Len(writes))
        BY <1>0, <3>2
      <4>2. disk'.system_errors.by = Len(writes) /\ ~disk'.system_errors.whole
        BY <4>1 DEF Cut
      <4> QED
        BY <3>2, <4>2 DEF EndsWith
    <3>3. CASE came = "returned" /\ disk' = [disk EXCEPT !.system_errors = SystemErrors(n, Len(writes))]
      <4>1. disk'.system_errors = SystemErrors(n, Len(writes))
        BY <1>0, <3>3
      <4>2. /\ disk'.system_errors.by = Len(writes) /\ disk'.system_errors.whole
            /\ disk'.system_errors.notices = results[n].system_errors
        BY <4>1 DEF SystemErrors
      <4> QED
        BY <3>3, <4>2 DEF EndsWith
    <3> QED
      BY <2>3, <3>1, <3>2, <3>3
  <2>6. Answers(disk'.system_errors, disk.report, writes', results)
    BY <1>0, <2>2, <2>3, <2>5, AnswersReturn
  <2> QED
    BY <2>1, <2>4, <2>6 DEF ReportInv
<1>5. validate \/ ResultsWriter \/ SinkFails \/ AbortOnEqualMessage \/ finish =>
        /\ UNCHANGED writes
        /\ UNCHANGED results \/ \E result : results' = Append(results, result)
        /\ UNCHANGED disk \/ \E written : disk' = [disk EXCEPT !.results = written]
  BY DEF validate, ResultsWriter, SinkFails, WithResults, AbortOnEqualMessage, finish, Ends
<1>6. UNCHANGED vars \/ replace_archive \/ prepare_feed \/ skip => UNCHANGED <<disk, results, writes>>
  BY DEF vars, replace_archive, prepare_feed, skip
<1> QED
  BY <1>1, <1>2, <1>3, <1>4, <1>5, <1>6 DEF Next

-----------------------------------------------------------------------------
RequestsInv == RunInv /\ ResultsInv /\ ReportInv

LEMMA InitIsRight ==
  ASSUME Init
  PROVE  RequestsInv
<1>1. RunInv
  BY DEF Init, RunInv, Listed
<1>2. ResultsInv
  BY DEF Init, ResultsInv
<1>3. ReportInv
  <2>1. disk.report = NoFile /\ disk.system_errors = NoFile /\ writes = <<>>
    BY DEF Init
  <2>2. Listed(writes) /\ Len(writes) = 0 /\ DOMAIN writes = {}
    BY <2>1 DEF Listed
  <2>3. NoFile.by = 0 /\ ~NoFile.whole
    BY DEF NoFile, Cut
  <2>4. Answers(disk.system_errors, disk.report, writes, results)
    BY <2>1, <2>2, <2>3 DEF Answers, IsReport, AreErrors
  <2> QED
    BY <2>4 DEF Init, ReportInv
<1> QED
  BY <1>1, <1>2, <1>3 DEF RequestsInv

LEMMA NextIsRight ==
  ASSUME LegalInputs, RequestsInv, [Next]_vars
  PROVE  RequestsInv'
BY RunNext, ResultsNext, ReportNext DEF RequestsInv

\* A run is in the mode and with the shapes that were asked for, on the archive
\* as its feed was read or, handed a path, on what lay there when it was asked for,
\* however many archives have lain there since; and compat's abort is never a
\* modern run's (_feed_for, PreparedFeed.mismatch).
THEOREM RunsAsAsked == ASSUME LegalInputs PROVE Spec => []RunsOnWhatItAskedFor
<1>1. RequestsInv => RunsOnWhatItAskedFor
  BY DEF RequestsInv, RunInv, RunIsRight, RunsOnWhatItAskedFor
<1> QED
  BY <1>1, InitIsRight, NextIsRight, PTL DEF Spec

\* Two results for one request of one prepared feed are the same result, for
\* any replay, however many runs and archives lie between them (config.py, "a
\* container of its own for every run").
THEOREM FeedsAreReusable == ASSUME LegalInputs PROVE Spec => []TheHundredthSaysAsMuch
<1>1. ASSUME RequestsInv PROVE TheHundredthSaysAsMuch
  <2>1. SUFFICES ASSUME NEW i \in DOMAIN results, NEW j \in DOMAIN results,
                        results[i].request = results[j].request, results[i].request.gtfs # 0,
                        results[i].kind = results[j].kind, results[i].kind = "result"
                 PROVE  results[i] = results[j]
    BY DEF TheHundredthSaysAsMuch
  <2> DEFINE one == results[i]
             two == results[j]
             replay == one.request.replay
             feed == feeds[one.request.gtfs]
  <2>2. IsAnswer(one) /\ IsComplete(one, feeds) /\ IsAnswer(two) /\ IsComplete(two, feeds)
    BY <1>1, <2>1 DEF RequestsInv, ResultsInv
  <2>3. Determined(TallyOf(one), feed, replay, Len(replay)) /\ Determined(TallyOf(two), feed, replay, Len(replay))
    BY <2>1, <2>2 DEF IsComplete
  <2> HIDE DEF replay, feed
  <2>4. TallyOf(one) = TallyOf(two)
    BY <2>3, OnlyOneIsDetermined
  <2>5. /\ one.system_errors = two.system_errors /\ one.notices = two.notices
        /\ one.validated = two.validated /\ one.skipped = two.skipped
    BY <2>4 DEF TallyOf
  <2> QED
    BY <2>1, <2>2, <2>5 DEF IsAnswer
<1> QED
  BY <1>1, InitIsRight, NextIsRight, PTL DEF Spec

\* Whatever write failed and whether it left a cut file, and whichever result a call
\* was about: a whole file says what its result says, the report on disk is of the
\* call the system errors beside it are of or of a later one, and what a call wrote
\* and returned is there, or a later call's in its place (write_reports).
THEOREM ReportLeads == ASSUME LegalInputs PROVE Spec => []TheReportLeads
<1>1. ASSUME RequestsInv PROVE TheReportLeads
  <2> DEFINE report == disk.report
             errors == disk.system_errors
             of(file) == results[writes[file.by].result]
  <2>1. /\ IsReport(report, writes, results) /\ AreErrors(errors, report, writes, results)
        /\ \A w \in DOMAIN writes : IsCall(w, errors, report, writes, results)
        /\ DOMAIN writes = 1..Len(writes) /\ Len(writes) \in Nat
    BY <1>1 DEF RequestsInv, ReportInv, Answers, Listed
  <2>2. report.whole =>
          /\ report.notices = of(report).notices
          /\ report.summary.messagesValidated + report.summary.filesSkipped = Len(of(report).request.replay)
    <3> HAVE report.whole
    <3>1. report.by \in DOMAIN writes
      BY <2>1 DEF IsReport
    <3>2. writes[report.by].result \in DOMAIN results /\ of(report).kind = "result"
      BY <2>1, <3>1 DEF IsCall
    <3>3. IsComplete(of(report), feeds)
      BY <1>1, <3>2 DEF RequestsInv, ResultsInv
    <3>4. of(report).validated + of(report).skipped = Len(of(report).request.replay)
      BY <3>3 DEF IsComplete
    <3> QED
      BY <2>1, <3>4 DEF IsReport
  <2>3. errors.whole => errors.notices = of(errors).system_errors
    BY <2>1 DEF AreErrors
  <2>4. errors.by <= report.by /\ (errors.by = report.by /\ errors # NoFile => report.whole)
    BY <2>1 DEF AreErrors
  <2>5. \A w \in DOMAIN writes : writes[w].came = "returned" =>
          /\ w <= report.by /\ (w = report.by => report.whole)
          /\ w <= errors.by /\ (w = errors.by => errors.whole)
    BY <2>1 DEF IsCall
  <2> QED
    BY <2>2, <2>3, <2>4, <2>5 DEF TheReportLeads
<1> QED
  BY <1>1, InitIsRight, NextIsRight, PTL DEF Spec

-----------------------------------------------------------------------------
Claims == {Discovery!Claim(i) : i \in DOMAIN tree}

\* What register took a module for.
IsSound(module) ==
  IF module.tier = "upstream" THEN Discovery!is_upstream(module)
  ELSE /\ module.tier \in {"spec", "practice"}
       /\ Discovery!declares_severity(module) /\ Discovery!own_letter(module.id, module.tier)

\* Who is registered: each module that was imported, once, and no id twice.
RegisteredInv ==
  /\ tree \in Trees /\ imported \subseteq DOMAIN tree
  /\ registered \in Seq(Claims)
  /\ \A k \in DOMAIN registered : registered[k].module \in imported
  /\ \A i \in imported : IsSound(tree[i]) /\ \E k \in DOMAIN registered : registered[k].module = i
  /\ \A k, l \in DOMAIN registered : registered[k].id = registered[l].id => k = l

Queued(i) == \E k \in DOMAIN queue : queue[k] = i

\* What discover has still to import, and what a registry was built of.
DiscoveryInv ==
  /\ queue \in Seq(DOMAIN tree)
  /\ pc \in {"idle", "discovering", "raised", "built"}
  /\ wanted \in {None, "compat", "modern"}
  /\ pc = "discovering" =>
       wanted \in {"compat", "modern"} /\ \A i \in Discovery!Public : i \in imported \/ Queued(i)
  /\ pc = "built" =>
       /\ wanted \in {"compat", "modern"} /\ Discovery!Public \subseteq imported
       /\ rules = IF wanted = "compat" THEN Discovery!compat ELSE Discovery!modern

RegistryInv == RegisteredInv /\ DiscoveryInv

\* An entry of the table is the claim of the module it names.
LEMMA EntriesAreClaims ==
  ASSUME RegisteredInv, NEW k \in DOMAIN registered
  PROVE  LET i == registered[k].module
         IN  i \in imported /\ i \in DOMAIN tree /\ registered[k] = Discovery!Claim(i)
<1>1. registered[k] \in Claims
  BY DEF RegisteredInv
<1>2. PICK i \in DOMAIN tree : registered[k] = Discovery!Claim(i)
  BY <1>1 DEF Claims
<1>3. registered[k].module = i
  BY <1>2 DEF Discovery!Claim
<1>4. QED
  BY <1>2, <1>3 DEF RegisteredInv

\* The tiers, whatever an operator on sequences makes of them.
LEMMA TiersAreThree ==
  \A x : Discovery!Contains(Discovery!TIERS, x) <=> x \in {"upstream", "spec", "practice"}
BY DEF Discovery!Contains, Discovery!TIERS


-----------------------------------------------------------------------------
\* The operators the instance brings with it are those the lemmas are about.

LEMMA DiscoveryCounts == \A S : Discovery!Cardinality(S) = Cardinality(S)
BY DEF Discovery!Cardinality, Cardinality

LEMMA DiscoveryRanks ==
  ASSUME NEW n \in Nat, NEW P \in SUBSET (1..n)
  PROVE  Discovery!Ranked(P, Discovery!Upwards(P)) = Ranked(P, Upwards(P))
<1> DEFINE f == Discovery!Ranked(P, Discovery!Upwards(P))
<1>1. Discovery!Upwards(P) = Upwards(P)
  BY DEF Discovery!Upwards, Upwards
<1>2. \A i : Discovery!Ahead(i, P, Upwards(P)) = Ahead(i, P, Upwards(P))
  BY DEF Discovery!Ahead, Ahead
<1>3. f = [k \in 1..Cardinality(P) |-> f[k]]
  BY DiscoveryCounts DEF Discovery!Ranked
<1>4. ASSUME NEW k \in 1..Cardinality(P), NEW i \in P, Cardinality(Ahead(i, P, Upwards(P))) = k - 1
      PROVE  f[k] \in P /\ Cardinality(Ahead(f[k], P, Upwards(P))) = k - 1
  <2>1. f[k] = CHOOSE x \in P : Discovery!Cardinality(Discovery!Ahead(x, P, Discovery!Upwards(P))) = k - 1
    BY DiscoveryCounts DEF Discovery!Ranked
  <2>2. Discovery!Cardinality(Discovery!Ahead(i, P, Discovery!Upwards(P))) = k - 1
    BY <1>1, <1>2, <1>4, DiscoveryCounts
  <2> HIDE DEF f
  <2>3. f[k] \in P /\ Discovery!Cardinality(Discovery!Ahead(f[k], P, Discovery!Upwards(P))) = k - 1
    BY <2>1, <2>2
  <2>4. QED
    BY <2>3, <1>1, <1>2, DiscoveryCounts
<1> HIDE DEF f
<1>5. Lists(f, P, Upwards(P))
  BY <1>3, <1>4, PlacesAreListed, PlacesMakeAList
<1>6. QED
  BY <1>5, PlacesAreListed, OneList DEF f

LEMMA DiscoveryPicks ==
  ASSUME NEW n \in Nat, NEW P \in SUBSET (1..n), NEW list
  PROVE  Discovery!Picked(list, P) = Picked(list, P)
BY DiscoveryCounts, DiscoveryRanks DEF Discovery!Picked, Picked

-----------------------------------------------------------------------------
\* discover finds every public module of the tree and nothing else.
LEMMA SortedModulesAreThePublic ==
  ASSUME NEW n \in Nat, DOMAIN tree = 1..n
  PROVE  /\ Discovery!sorted_modules \in Seq(DOMAIN tree)
         /\ \A i \in Discovery!Public : \E k \in DOMAIN Discovery!sorted_modules : Discovery!sorted_modules[k] = i
<1>1. ASSUME NEW tier
      PROVE  /\ Discovery!in_tier(tier) \in Seq(DOMAIN tree)
             /\ \A i \in Discovery!modules_of(tier) :
                  \E k \in 1..Len(Discovery!in_tier(tier)) : Discovery!in_tier(tier)[k] = i
  <2> DEFINE M == Discovery!modules_of(tier)
             f == Ranked(M, Upwards(M))
  <2>1. M \in SUBSET (1..n)
    BY DEF Discovery!modules_of
  <2> HIDE DEF M
  <2>2. Cardinality(M) \in Nat /\ Lists(f, M, Upwards(M))
    BY <2>1, PlacesAreListed
  <2>3. Discovery!in_tier(tier) = f
    BY <2>1, DiscoveryRanks DEF Discovery!in_tier, M
  <2> HIDE DEF f
  <2>4. f \in [1..Cardinality(M) -> 1..n] /\ \A i \in M : \E k \in 1..Cardinality(M) : f[k] = i
    BY <2>1, <2>2 DEF Lists
  <2>5. f \in Seq(1..n) /\ Len(f) = Cardinality(M)
    BY <2>2, <2>4
  <2>6. QED
    BY <2>3, <2>4, <2>5 DEF M
<1> DEFINE u == Discovery!in_tier("upstream")
           s == Discovery!in_tier("spec")
           p == Discovery!in_tier("practice")
           all == u \o s \o p
<1>2. u \in Seq(1..n) /\ s \in Seq(1..n) /\ p \in Seq(1..n)
  BY <1>1
<1>3. Discovery!sorted_modules = all
  BY DEF Discovery!sorted_modules
<1>4. ASSUME NEW i \in Discovery!Public
      PROVE  \/ \E k \in 1..Len(u) : u[k] = i
             \/ \E k \in 1..Len(s) : s[k] = i
             \/ \E k \in 1..Len(p) : p[k] = i
  <2>1. \/ i \in Discovery!modules_of("upstream")
        \/ i \in Discovery!modules_of("spec")
        \/ i \in Discovery!modules_of("practice")
    BY TiersAreThree DEF Discovery!Public, Discovery!modules_of
  <2>2. QED
    BY <2>1, <1>1
<1> HIDE DEF u, s, p
<1>5. /\ all \in Seq(1..n) /\ Len(all) = Len(u) + Len(s) + Len(p)
      /\ \A k \in 1..Len(u) : all[k] = u[k]
      /\ \A k \in 1..Len(s) : all[Len(u) + k] = s[k]
      /\ \A k \in 1..Len(p) : all[Len(u) + Len(s) + k] = p[k]
  BY <1>2
<1> HIDE DEF all
<1>6. Len(u) \in Nat /\ Len(s) \in Nat /\ Len(p) \in Nat /\ DOMAIN all = 1..Len(all)
  BY <1>2, <1>5
<1>7. ASSUME NEW i \in Discovery!Public PROVE \E k \in DOMAIN all : all[k] = i
  <2>1. CASE \E k \in 1..Len(u) : u[k] = i
    <3>1. PICK k \in 1..Len(u) : u[k] = i
      BY <2>1
    <3>2. k \in DOMAIN all
      BY <1>5, <1>6
    <3>3. QED
      BY <3>1, <3>2, <1>5
  <2>2. CASE \E k \in 1..Len(s) : s[k] = i
    <3>1. PICK k \in 1..Len(s) : s[k] = i
      BY <2>2
    <3>2. Len(u) + k \in DOMAIN all
      BY <1>5, <1>6
    <3>3. QED
      BY <3>1, <3>2, <1>5
  <2>3. CASE \E k \in 1..Len(p) : p[k] = i
    <3>1. PICK k \in 1..Len(p) : p[k] = i
      BY <2>3
    <3>2. Len(u) + Len(s) + k \in DOMAIN all
      BY <1>5, <1>6
    <3>3. QED
      BY <3>1, <3>2, <1>5
  <2>4. QED
    BY <1>4, <2>1, <2>2, <2>3
<1>8. QED
  BY <1>3, <1>5, <1>7

\* An id is claimed when an entry has it.
LEMMA ClaimedMeans ==
  ASSUME registered \in Seq(Claims), NEW id
  PROVE  Discovery!claimed(id, registered) <=> \E k \in DOMAIN registered : registered[k].id = id
<1> DEFINE list == Discovery!ids(registered)
<1>1. list = [k \in 1..Len(registered) |-> registered[k].id] /\ Len(registered) \in Nat
  BY DEF Discovery!ids
<1>2. Len(list) = Len(registered)
  BY <1>1
<1>3. \A k \in 1..Len(registered) : list[k] = registered[k].id
  BY <1>1
<1> HIDE DEF list
<1>4. DOMAIN registered = 1..Len(registered)
  OBVIOUS
<1>5. QED
  BY <1>2, <1>3, <1>4 DEF Discovery!claimed, Discovery!Contains, list

\* What register does when it accepts a module, it does right.
LEMMA RegisterKeepsTheTable ==
  ASSUME RegisteredInv, NEW i \in DOMAIN tree, i \notin imported,
         Discovery!accepts(tree[i], registered), UNCHANGED tree,
         imported' = imported \cup {i}, registered' = Discovery!register(i)
  PROVE  RegisteredInv'
<1> DEFINE c == Discovery!Claim(i)
<1>1. registered' = Append(registered, c) /\ c \in Claims
  BY DEF Discovery!register, Discovery!Claim, Claims
<1>2. c.id = tree[i].id /\ c.module = i
  BY DEF Discovery!Claim
<1> HIDE DEF c
<1>3. registered \in Seq(Claims) /\ Len(registered) \in Nat /\ DOMAIN registered = 1..Len(registered)
  BY DEF RegisteredInv
<1>4. registered' \in Seq(Claims) /\ DOMAIN registered' = 1..(Len(registered) + 1)
      /\ registered'[Len(registered) + 1] = c /\ \A k \in 1..Len(registered) : registered'[k] = registered[k]
  BY <1>1, <1>3
<1>5. IsSound(tree[i])
  BY TiersAreThree DEF Discovery!accepts, IsSound
<1>6. \A k \in DOMAIN registered : registered[k].id # tree[i].id
  BY <1>3, ClaimedMeans DEF Discovery!accepts
<1>7. Claims' = Claims
  BY DEF Claims, Discovery!Claim
<1>8. (tree \in Trees /\ imported \subseteq DOMAIN tree)'
  BY DEF RegisteredInv
<1>9. \A k \in DOMAIN registered' : registered'[k].module \in imported'
  BY <1>2, <1>3, <1>4 DEF RegisteredInv
<1>10. \A j \in imported' : IsSound(tree[j]) /\ \E k \in DOMAIN registered' : registered'[k].module = j
  <2>1. ASSUME NEW j \in imported PROVE IsSound(tree[j]) /\ \E k \in DOMAIN registered' : registered'[k].module = j
    <3>1. PICK k \in DOMAIN registered : registered[k].module = j
      BY DEF RegisteredInv
    <3>2. k \in DOMAIN registered' /\ registered'[k].module = j
      BY <3>1, <1>3, <1>4
    <3>3. QED
      BY <3>2 DEF RegisteredInv
  <2>2. Len(registered) + 1 \in DOMAIN registered' /\ registered'[Len(registered) + 1].module = i
    BY <1>2, <1>3, <1>4
  <2>3. QED
    BY <2>1, <2>2, <1>5
<1>11. \A k, l \in DOMAIN registered' : registered'[k].id = registered'[l].id => k = l
  <2>1. \A k, l \in 1..Len(registered) : registered[k].id = registered[l].id => k = l
    BY <1>3 DEF RegisteredInv
  <2>2. QED
    BY <2>1, <1>2, <1>3, <1>4, <1>6
<1>12. \A j \in imported' : IsSound(tree'[j])
  BY <1>10
<1>13. \A j : IsSound(tree[j])' <=> IsSound(tree'[j])
  BY DEF IsSound, Discovery!is_upstream, Discovery!declares_severity, Discovery!own_letter
<1>14. QED
  BY <1>4, <1>7, <1>8, <1>9, <1>10, <1>11, <1>12, <1>13 DEF RegisteredInv

\* A table that nothing changes stays right.
LEMMA TheTableStays ==
  ASSUME RegisteredInv, UNCHANGED <<tree, imported, registered>>
  PROVE  RegisteredInv'
BY DEF RegisteredInv, Claims, Discovery!Claim, IsSound, Discovery!is_upstream, Discovery!declares_severity,
       Discovery!own_letter, Discovery!knows

\* What a registry is built from.
LEMMA BuildingStays ==
  ASSUME UNCHANGED <<tree, registered>>
  PROVE  Discovery!compat' = Discovery!compat /\ Discovery!modern' = Discovery!modern /\ Discovery!Public' = Discovery!Public
BY DEF Discovery!compat, Discovery!modern, Discovery!of, Discovery!entry, Discovery!claimed, Discovery!ids, Discovery!Public

\* The first conjuncts of the next-state relation, with what they leave of the queue.
LEMMA RegistryInvInit ==
  ASSUME Discovery!LegalInputs, Discovery!Init
  PROVE  RegistryInv
BY DEF Discovery!LegalInputs, Discovery!Init, RegistryInv, RegisteredInv, DiscoveryInv

LEMMA ImportKeepsTheInvariant ==
  ASSUME RegistryInv, NEW i \in DOMAIN tree, Discovery!import_module(i)
  PROVE  RegistryInv'
<1>1. RegisteredInv'
  BY RegisterKeepsTheTable DEF RegistryInv, Discovery!import_module
<1>2. DiscoveryInv'
  BY DEF RegistryInv, DiscoveryInv, Discovery!import_module
<1>3. QED
  BY <1>1, <1>2 DEF RegistryInv

LEMMA DiscoverKeepsTheInvariant ==
  ASSUME Discovery!LegalInputs, RegistryInv, NEW mode \in {"compat", "modern"}, Discovery!discover(mode)
  PROVE  RegistryInv'
<1>1. RegisteredInv'
  BY TheTableStays DEF RegistryInv, Discovery!discover
<1>2. PICK n \in Nat : DOMAIN tree = 1..n
  BY DEF RegistryInv, RegisteredInv, Discovery!LegalInputs
<1>3. queue' = Discovery!sorted_modules /\ queue' \in Seq(DOMAIN tree)
      /\ \A i \in Discovery!Public : \E k \in DOMAIN queue' : queue'[k] = i
  BY <1>2, SortedModulesAreThePublic DEF Discovery!discover
<1>4. Discovery!Public' = Discovery!Public
  BY DEF Discovery!discover, Discovery!Public
<1>5. DiscoveryInv'
  BY <1>3, <1>4 DEF RegistryInv, DiscoveryInv, Discovery!discover, Queued
<1>6. QED
  BY <1>1, <1>5 DEF RegistryInv

\* What stands in a queue stands at its head or behind it.
LEMMA HeadOrTail ==
  ASSUME NEW S, NEW q \in Seq(S), q # <<>>
  PROVE  /\ Head(q) \in S /\ Tail(q) \in Seq(S)
         /\ \A k \in DOMAIN q : q[k] = Head(q) \/ \E l \in DOMAIN Tail(q) : Tail(q)[l] = q[k]
<1>1. Len(q) \in Nat /\ Len(q) > 0 /\ DOMAIN q = 1..Len(q)
  OBVIOUS
<1>2. Tail(q) \in Seq(S) /\ DOMAIN Tail(q) = 1..(Len(q) - 1) /\ \A l \in 1..(Len(q) - 1) : Tail(q)[l] = q[l + 1]
  BY <1>1
<1>3. ASSUME NEW k \in DOMAIN q, k # 1 PROVE k - 1 \in DOMAIN Tail(q) /\ Tail(q)[k - 1] = q[k]
  BY <1>1, <1>2, <1>3
<1>4. Head(q) = q[1] /\ Head(q) \in S
  BY <1>1
<1>5. QED
  BY <1>2, <1>3, <1>4

LEMMA DiscoveryStepKeepsTheInvariant ==
  ASSUME RegistryInv, Discovery!Discover
  PROVE  RegistryInv'
<1> DEFINE i == Head(queue)
<1>1. queue \in Seq(DOMAIN tree) /\ queue # <<>> /\ pc = "discovering"
  BY DEF RegistryInv, DiscoveryInv, Discovery!Discover
<1>2. i \in DOMAIN tree /\ Tail(queue) \in Seq(DOMAIN tree)
      /\ \A k \in DOMAIN queue : queue[k] = i \/ \E l \in DOMAIN Tail(queue) : Tail(queue)[l] = queue[k]
  BY <1>1, HeadOrTail
<1>3. UNCHANGED <<tree, wanted, rules>> /\ Discovery!Public' = Discovery!Public
  BY DEF Discovery!Discover, Discovery!Public
<1>4. \A j \in Discovery!Public : j \in imported \/ Queued(j)
  BY <1>1 DEF RegistryInv, DiscoveryInv
<1> HIDE DEF i
<1>5. CASE i \in imported /\ queue' = Tail(queue) /\ UNCHANGED <<imported, registered, pc>>
  <2>1. RegisteredInv'
    BY <1>3, <1>5, TheTableStays DEF RegistryInv
  <2>2. \A j \in Discovery!Public : j \in imported' \/ Queued(j)'
    BY <1>2, <1>4, <1>5 DEF Queued
  <2>3. DiscoveryInv'
    BY <1>1, <1>2, <1>3, <1>5, <2>2 DEF RegistryInv, DiscoveryInv
  <2>4. QED
    BY <2>1, <2>3 DEF RegistryInv
<1>6. CASE /\ i \notin imported /\ Discovery!accepts(tree[i], registered)
           /\ imported' = imported \cup {i} /\ registered' = Discovery!register(i)
           /\ queue' = Tail(queue) /\ UNCHANGED pc
  <2>1. RegisteredInv'
    BY <1>2, <1>3, <1>6, RegisterKeepsTheTable DEF RegistryInv
  <2>2. \A j \in Discovery!Public : j \in imported' \/ Queued(j)'
    BY <1>2, <1>4, <1>6 DEF Queued
  <2>3. DiscoveryInv'
    BY <1>1, <1>2, <1>3, <1>6, <2>2 DEF RegistryInv, DiscoveryInv
  <2>4. QED
    BY <2>1, <2>3 DEF RegistryInv
<1>7. CASE pc' = "raised" /\ queue' = <<>> /\ UNCHANGED <<imported, registered>>
  <2>1. RegisteredInv'
    BY <1>3, <1>7, TheTableStays DEF RegistryInv
  <2>2. DiscoveryInv'
    BY <1>3, <1>7 DEF RegistryInv, DiscoveryInv
  <2>3. QED
    BY <2>1, <2>2 DEF RegistryInv
<1>8. QED
  BY <1>5, <1>6, <1>7 DEF Discovery!Discover, i

LEMMA BuildKeepsTheInvariant ==
  ASSUME RegistryInv, Discovery!Build
  PROVE  RegistryInv'
<1>1. RegisteredInv'
  BY TheTableStays DEF RegistryInv, Discovery!Build
<1>2. Discovery!compat' = Discovery!compat /\ Discovery!modern' = Discovery!modern /\ Discovery!Public' = Discovery!Public
  BY BuildingStays DEF Discovery!Build
<1>3. \A i \in Discovery!Public : i \in imported
  BY DEF RegistryInv, DiscoveryInv, Discovery!Build, Queued
<1>4. DiscoveryInv'
  BY <1>2, <1>3 DEF RegistryInv, DiscoveryInv, Discovery!Build
<1>5. QED
  BY <1>1, <1>4 DEF RegistryInv

\* Nothing of the registry changes.
LEMMA RegistryStutters ==
  ASSUME RegistryInv, UNCHANGED Discovery!vars
  PROVE  RegistryInv'
<1>1. RegisteredInv'
  BY TheTableStays DEF RegistryInv, Discovery!vars
<1>2. Discovery!compat' = Discovery!compat /\ Discovery!modern' = Discovery!modern /\ Discovery!Public' = Discovery!Public
  BY BuildingStays DEF Discovery!vars
<1>3. DiscoveryInv'
  BY <1>2 DEF RegistryInv, DiscoveryInv, Discovery!vars, Queued
<1>4. QED
  BY <1>1, <1>3 DEF RegistryInv

LEMMA RegistryInvariance == ASSUME Discovery!LegalInputs PROVE Discovery!Spec => []RegistryInv
<1>1. Discovery!Init => RegistryInv
  BY RegistryInvInit
<1>2. RegistryInv /\ [Discovery!Next]_(Discovery!vars) => RegistryInv'
  BY ImportKeepsTheInvariant, DiscoverKeepsTheInvariant, DiscoveryStepKeepsTheInvariant, BuildKeepsTheInvariant,
     RegistryStutters DEF Discovery!Next
<1>3. QED
  BY <1>1, <1>2, PTL DEF Discovery!Spec

\* The entry an id finds is the one that claims it.
LEMMA EntryIsTheClaimants ==
  ASSUME RegisteredInv, NEW k \in DOMAIN registered
  PROVE  Discovery!entry(registered[k].id) = registered[k]
<1> DEFINE id == registered[k].id
<1>1. \E l \in DOMAIN registered : registered[l].id = id
  OBVIOUS
<1>2. \A l \in DOMAIN registered : registered[l].id = id => l = k
  BY DEF RegisteredInv
<1> HIDE DEF id
<1>3. (CHOOSE l \in DOMAIN registered : registered[l].id = id) = k
  BY <1>1, <1>2
<1>4. QED
  BY <1>3 DEF Discovery!entry, id

\* C has the places of a list of n identifiers that a module claims.
AreTheClaimed(C, list, n) ==
  /\ n \in Nat /\ DOMAIN list = 1..n
  /\ C = {k \in 1..n : \E l \in DOMAIN registered : registered[l].id = list[k]}

\* A registry of a list of ids has an entry for every id of the list that is claimed.
LEMMA OfIsOfTheClaimed ==
  ASSUME RegisteredInv, NEW n, NEW list, NEW C, AreTheClaimed(C, list, n)
  PROVE  /\ Cardinality(C) \in Nat
         /\ Discovery!of(list) = [k \in 1..Cardinality(C) |-> Discovery!entry(Picked(list, C)[k])]
         /\ Picked(list, C) = [k \in 1..Cardinality(C) |-> list[Ranked(C, Upwards(C))[k]]]
         /\ Lists(Ranked(C, Upwards(C)), C, Upwards(C))
<1> DEFINE P == {k \in DOMAIN list : Discovery!claimed(list[k], registered)}
<1>1. registered \in Seq(Claims)
  BY DEF RegisteredInv
<1>2. \A id : Discovery!claimed(id, registered) <=> \E l \in DOMAIN registered : registered[l].id = id
  BY <1>1, ClaimedMeans
<1>3. P = C
  BY <1>2 DEF AreTheClaimed
<1>4. C \in SUBSET (1..n) /\ n \in Nat
  BY DEF AreTheClaimed
<1>5. Discovery!Picked(list, P) = Picked(list, C)
  <2> HIDE DEF P
  <2>1. QED
    BY <1>3, <1>4, DiscoveryPicks
<1>6. Discovery!of(list) = [k \in DOMAIN Discovery!Picked(list, P) |-> Discovery!entry(Discovery!Picked(list, P)[k])]
  BY DEF Discovery!of
<1> HIDE DEF P
<1>7. Picked(list, C) = [k \in 1..Cardinality(C) |-> list[Ranked(C, Upwards(C))[k]]]
  BY DEF Picked
<1>8. DOMAIN Picked(list, C) = 1..Cardinality(C)
  BY <1>7
<1>9. Cardinality(C) \in Nat /\ Lists(Ranked(C, Upwards(C)), C, Upwards(C))
  BY <1>4, PlacesAreListed
<1>10. Discovery!of(list) = [k \in 1..Cardinality(C) |-> Discovery!entry(Picked(list, C)[k])]
  BY <1>5, <1>6, <1>8
<1>11. QED
  BY <1>7, <1>9, <1>10

\* A registry holds what is registered.
LEMMA RegistriesHoldEntries ==
  ASSUME RegisteredInv, NEW n \in Nat, NEW list, DOMAIN list = 1..n, NEW k \in DOMAIN Discovery!of(list)
  PROVE  /\ \E l \in DOMAIN registered : Discovery!of(list)[k] = registered[l]
         /\ \E m \in 1..n : Discovery!of(list)[k].id = list[m]
<1> DEFINE C == {m \in 1..n : \E l \in DOMAIN registered : registered[l].id = list[m]}
<1>0. AreTheClaimed(C, list, n)
  BY DEF AreTheClaimed
<1> HIDE DEF C
<1>1. /\ Discovery!of(list) = [j \in 1..Cardinality(C) |-> Discovery!entry(Picked(list, C)[j])]
      /\ Picked(list, C) = [j \in 1..Cardinality(C) |-> list[Ranked(C, Upwards(C))[j]]]
      /\ Lists(Ranked(C, Upwards(C)), C, Upwards(C))
  BY <1>0, OfIsOfTheClaimed
<1> DEFINE c == Ranked(C, Upwards(C))[k]
<1>2. k \in 1..Cardinality(C) /\ c \in C
  BY <1>1 DEF Lists
<1>3. Discovery!of(list)[k] = Discovery!entry(list[c])
  BY <1>1, <1>2
<1> HIDE DEF c
<1>4. PICK l \in DOMAIN registered : registered[l].id = list[c] /\ c \in 1..n
  BY <1>2 DEF C
<1>5. Discovery!of(list)[k] = registered[l]
  BY <1>3, <1>4, EntryIsTheClaimants
<1>6. QED
  BY <1>4, <1>5

\* modern() has every module that was imported.
LEMMA ModernIsEveryImport ==
  ASSUME RegisteredInv
  PROVE  {Discovery!modern[k].module : k \in DOMAIN Discovery!modern} = imported
<1> DEFINE n == Len(registered)
           list == Discovery!ids(registered)
           C == {m \in 1..n : \E l \in DOMAIN registered : registered[l].id = list[m]}
<1>1. n \in Nat /\ DOMAIN registered = 1..n
  BY DEF RegisteredInv
<1>2. list = [k \in 1..n |-> registered[k].id]
  BY <1>1 DEF Discovery!ids
<1>3. DOMAIN list = 1..n /\ \A k \in 1..n : list[k] = registered[k].id
  BY <1>2
<1>4. Discovery!modern = Discovery!of(list)
  BY DEF Discovery!modern
<1> HIDE DEF n, list
<1>5. C = 1..n
  BY <1>1, <1>3
<1>13. AreTheClaimed(C, list, n)
  BY <1>1, <1>3 DEF AreTheClaimed
<1> HIDE DEF C
<1>6. /\ Discovery!of(list) = [j \in 1..Cardinality(C) |-> Discovery!entry(Picked(list, C)[j])]
      /\ Picked(list, C) = [j \in 1..Cardinality(C) |-> list[Ranked(C, Upwards(C))[j]]]
      /\ Lists(Ranked(C, Upwards(C)), C, Upwards(C))
  BY <1>13, OfIsOfTheClaimed
<1> DEFINE f == Ranked(C, Upwards(C))
<1>14. /\ Picked(list, C) = [j \in 1..Cardinality(C) |-> list[f[j]]]
       /\ Lists(f, C, Upwards(C))
  BY <1>6
<1> HIDE DEF f
<1>7. ASSUME NEW k \in DOMAIN Discovery!of(list) PROVE Discovery!of(list)[k].module \in imported
  <2>1. PICK l \in DOMAIN registered : Discovery!of(list)[k] = registered[l]
    BY <1>1, <1>3, RegistriesHoldEntries
  <2>2. QED
    BY <2>1 DEF RegisteredInv
<1>8. ASSUME NEW i \in imported PROVE \E k \in DOMAIN Discovery!of(list) : Discovery!of(list)[k].module = i
  <2>1. PICK l \in DOMAIN registered : registered[l].module = i
    BY DEF RegisteredInv
  <2>2. PICK k \in 1..Cardinality(C) : f[k] = l
    BY <1>1, <1>5, <1>14 DEF Lists
  <2>3. Discovery!of(list)[k] = Discovery!entry(registered[l].id)
    BY <1>1, <1>3, <1>6, <1>14, <2>2
  <2>4. Discovery!of(list)[k] = registered[l] /\ k \in DOMAIN Discovery!of(list)
    BY <2>3, <1>6, EntryIsTheClaimants
  <2>5. QED
    BY <2>1, <2>4
<1>9. QED
  BY <1>4, <1>7, <1>8

\* A registry is only built of a whole tree: every module discover looks for is
\* in it, no two have one id, and modern() runs them all (registry.py, discover).
THEOREM RegistryIsWhole ==
  ASSUME Discovery!LegalInputs PROVE Discovery!Spec => []Discovery!WholeTreeOrNoRegistry
<1>1. RegistryInv => Discovery!WholeTreeOrNoRegistry
  <2> SUFFICES ASSUME RegistryInv, pc = "built"
               PROVE  /\ Discovery!Public \subseteq imported
                      /\ \A i, j \in imported : tree[i].id = tree[j].id => i = j
                      /\ wanted = "modern" => {rules[k].module : k \in DOMAIN rules} = imported
    BY DEF Discovery!WholeTreeOrNoRegistry
  <2>1. Discovery!Public \subseteq imported
    BY DEF RegistryInv, DiscoveryInv
  <2>2. ASSUME NEW i \in imported, NEW j \in imported, tree[i].id = tree[j].id PROVE i = j
    <3>1. PICK k \in DOMAIN registered : registered[k].module = i
      BY DEF RegistryInv, RegisteredInv
    <3>2. PICK l \in DOMAIN registered : registered[l].module = j
      BY DEF RegistryInv, RegisteredInv
    <3>3. registered[k].id = tree[i].id /\ registered[l].id = tree[j].id
      BY <3>1, <3>2, EntriesAreClaims DEF RegistryInv, Discovery!Claim
    <3>4. k = l
      BY <2>2, <3>3 DEF RegistryInv, RegisteredInv
    <3>5. QED
      BY <3>1, <3>2, <3>4
  <2>3. wanted = "modern" => {rules[k].module : k \in DOMAIN rules} = imported
    BY ModernIsEveryImport DEF RegistryInv, DiscoveryInv
  <2>4. QED
    BY <2>1, <2>2, <2>3
<1>2. QED
  BY <1>1, RegistryInvariance, PTL

\* Who claims an id of the manifest is an upstream rule, and has no severity of
\* its own; who claims another is not, and has one.
LEMMA TheManifestsAreUpstreams ==
  ASSUME Discovery!LegalInputs, RegisteredInv, NEW i \in imported
  PROVE  /\ tree[i].tier = "upstream" <=> Discovery!knows(tree[i].id)
         /\ Discovery!knows(tree[i].id) => tree[i].severity = None
         /\ ~Discovery!knows(tree[i].id) => tree[i].severity \in Discovery!Severity
<1>1. IsSound(tree[i])
  BY DEF RegisteredInv
<1>2. CASE tree[i].tier = "upstream"
  BY <1>1, <1>2 DEF IsSound, Discovery!is_upstream
<1>3. CASE tree[i].tier # "upstream"
  <2>1. Discovery!letter(tree[i].id) \in {"S", "P"} /\ tree[i].severity \in Discovery!Severity
    BY <1>1, <1>3 DEF IsSound, Discovery!declares_severity, Discovery!own_letter, Discovery!CITED_TIERS
  <2>2. ASSUME Discovery!knows(tree[i].id) PROVE FALSE
    <3>1. PICK k \in 1..Len(Declared) : Declared[k] = tree[i].id
      BY <2>2 DEF Discovery!knows, Discovery!Contains
    <3>2. Declared[k] \in Discovery!Range(Declared)
      BY <3>1 DEF Discovery!LegalInputs, Discovery!Range
    <3>3. QED
      BY <2>1, <3>1, <3>2 DEF Discovery!LegalInputs
  <2>3. QED
    BY <1>3, <2>1, <2>2
<1>4. QED
  BY <1>2, <1>3

\* An id of the manifest is claimed when an upstream module of that id was imported.
LEMMA ClaimsOfTheManifest ==
  ASSUME Discovery!LegalInputs, RegisteredInv, NEW id, Discovery!knows(id)
  PROVE  (\E l \in DOMAIN registered : registered[l].id = id)
         <=> \E i \in imported : tree[i].id = id /\ tree[i].tier = "upstream"
<1>1. ASSUME NEW l \in DOMAIN registered, registered[l].id = id
      PROVE  \E i \in imported : tree[i].id = id /\ tree[i].tier = "upstream"
  <2> DEFINE i == registered[l].module
  <2>1. i \in imported /\ tree[i].id = id
    BY <1>1, EntriesAreClaims DEF Discovery!Claim
  <2>2. tree[i].tier = "upstream"
    <3> HIDE DEF i
    <3>1. QED
      BY <2>1, TheManifestsAreUpstreams
  <2>3. QED
    BY <2>1, <2>2
<1>2. ASSUME NEW i \in imported, tree[i].id = id
      PROVE  \E l \in DOMAIN registered : registered[l].id = id
  <2>1. PICK l \in DOMAIN registered : registered[l].module = i
    BY DEF RegisteredInv
  <2>2. registered[l].id = id
    BY <1>2, <2>1, EntriesAreClaims DEF Discovery!Claim
  <2>3. QED
    BY <2>2
<1>3. QED
  BY <1>1, <1>2

\* A severity has one source: the rule's own where it is cited, the manifest's
\* where it is upstream's (registry.py, severity_for).
THEOREM SeverityHasOneSource ==
  ASSUME Discovery!LegalInputs PROVE Discovery!Spec => []Discovery!OneSourceOfSeverity
<1>1. RegistryInv => Discovery!OneSourceOfSeverity
  <2> SUFFICES ASSUME RegistryInv, NEW k \in DOMAIN registered
               PROVE  /\ Discovery!severity_for(registered[k].id) \in Discovery!Severity
                      /\ (registered[k].severity # None) # Discovery!knows(registered[k].id)
    BY DEF Discovery!OneSourceOfSeverity
  <2> DEFINE i == registered[k].module
  <2>1. i \in imported /\ registered[k].id = tree[i].id /\ registered[k].severity = tree[i].severity
    BY EntriesAreClaims DEF RegistryInv, Discovery!Claim
  <2>2. Discovery!entry(registered[k].id) = registered[k]
    BY EntryIsTheClaimants DEF RegistryInv
  <2>3. Discovery!claimed(registered[k].id, registered)
    BY ClaimedMeans DEF RegistryInv, RegisteredInv
  <2> HIDE DEF i
  <2>4. /\ Discovery!knows(registered[k].id) => registered[k].severity = None
        /\ ~Discovery!knows(registered[k].id) => registered[k].severity \in Discovery!Severity
    BY <2>1, TheManifestsAreUpstreams DEF RegistryInv
  <2>5. None \notin Discovery!Severity /\ Discovery!severity_of(registered[k].id) \in Discovery!Severity
    BY DEF Discovery!LegalInputs, Discovery!severity_of, Discovery!Severity
  <2>6. Discovery!knows(registered[k].id) \in BOOLEAN
    BY DEF Discovery!knows, Discovery!Contains
  <2>7. QED
    BY <2>2, <2>3, <2>4, <2>5, <2>6 DEF Discovery!severity_for
<1>2. QED
  BY <1>1, RegistryInvariance, PTL

\* Whatever was imported before, a compat registry is the manifest's
\* batch-reachable rules that have an upstream module, in the manifest's order
\* (registry.py, compat).
THEOREM CompatIsWhatTheManifestLists ==
  ASSUME Discovery!LegalInputs PROVE Discovery!Spec => []Discovery!CompatIsTheManifests
<1>1. RegistryInv => Discovery!CompatIsTheManifests
  <2> DEFINE n == Len(Declared)
             P == {k \in 1..n : Declared[k] \in Reachable}
             f == Ranked(P, Upwards(P))
             list == Picked(Declared, P)
             m == Cardinality(P)
             C == {k \in 1..m : \E l \in DOMAIN registered : registered[l].id = list[k]}
             W == {k \in 1..n : /\ Declared[k] \in Reachable
                                /\ \E i \in imported : tree[i].id = Declared[k] /\ tree[i].tier = "upstream"}
  <2> SUFFICES ASSUME RegistryInv, pc = "built", wanted = "compat"
               PROVE  /\ Discovery!ids(rules) = Discovery!Picked(Declared, W)
                      /\ \A k \in DOMAIN rules : rules[k].tier = "upstream"
    <3>1. DOMAIN Declared = 1..n
      BY DEF Discovery!LegalInputs
    <3>2. W = {k \in DOMAIN Declared : /\ Declared[k] \in Reachable
                                       /\ \E i \in imported : tree[i].id = Declared[k] /\ tree[i].tier = "upstream"}
      BY <3>1
    <3> HIDE DEF W
    <3>3. QED
      BY <3>2 DEF Discovery!CompatIsTheManifests
  <2>1. n \in Nat /\ DOMAIN Declared = 1..n
    BY DEF Discovery!LegalInputs
  <2>2. \A k \in 1..n : Discovery!knows(Declared[k])
    BY DEF Discovery!knows, Discovery!Contains
  <2>3. Discovery!batch_reachable_ids = list
    <3>1. P = {k \in DOMAIN Declared : Declared[k] \in Reachable} /\ P \in SUBSET (1..n)
      BY <2>1
    <3> HIDE DEF P, n
    <3>2. QED
      BY <2>1, <3>1, DiscoveryPicks DEF Discovery!batch_reachable_ids
  <2>4. rules = Discovery!of(list)
    BY <2>3 DEF RegistryInv, DiscoveryInv, Discovery!compat
  <2>5. P \in SUBSET (1..n)
    OBVIOUS
  <2> HIDE DEF n
  <2>6. m \in Nat /\ Lists(f, P, Upwards(P)) /\ IsFiniteSet(P) /\ P \subseteq Int
    <3>1. P \subseteq Int
      BY <2>1 DEF n
    <3> HIDE DEF P
    <3>2. QED
      BY <2>1, <2>5, <3>1, PlacesAreListed
  <2>7. list = [k \in 1..m |-> Declared[f[k]]]
    BY DEF Picked
  <2>8. \A k \in 1..m : f[k] \in P /\ list[k] = Declared[f[k]]
    <3> HIDE DEF list, P, f
    <3>1. QED
      BY <2>6, <2>7 DEF Lists
  <2> HIDE DEF list, f, m
  <2>9. W = {f[k] : k \in C}
    <3>1. ASSUME NEW w \in W PROVE \E k \in C : f[k] = w
      <4>1. w \in P
        BY <3>1
      <4>2. PICK k \in 1..m : f[k] = w
        BY <4>1, <2>6 DEF Lists, m
      <4>3. \E l \in DOMAIN registered : registered[l].id = Declared[w]
        BY <3>1, <2>2, ClaimsOfTheManifest DEF RegistryInv
      <4>4. k \in C
        BY <4>2, <4>3, <2>8
      <4>5. QED
        BY <4>2, <4>4
    <3>2. ASSUME NEW k \in C PROVE f[k] \in W
      <4>1. f[k] \in P /\ list[k] = Declared[f[k]] /\ f[k] \in 1..n /\ Declared[f[k]] \in Reachable
        BY <2>8
      <4>2. \E l \in DOMAIN registered : registered[l].id = Declared[f[k]]
        BY <4>1
      <4>3. \E i \in imported : tree[i].id = Declared[f[k]] /\ tree[i].tier = "upstream"
        BY <4>1, <4>2, <2>2, ClaimsOfTheManifest DEF RegistryInv
      <4>4. QED
        BY <4>1, <4>3
    <3> HIDE DEF W, C
    <3>3. QED
      BY <3>1, <3>2
  <2>10. C \in SUBSET (1..m)
    OBVIOUS
  <2>11. C = {k \in 1..m : \E l \in DOMAIN registered : registered[l].id = list[k]}
    OBVIOUS
  <2>12. W \in SUBSET (1..n)
    OBVIOUS
  <2> HIDE DEF P, C, W
  <2>13. Picked(list, C) = Picked(Declared, W)
    <3>1. C \in SUBSET (1..Cardinality(P))
      BY <2>10 DEF m
    <3>2. (\A r \in W : \E q \in C : Ranked(P, Upwards(P))[q] = r) /\ \A q \in C : Ranked(P, Upwards(P))[q] \in W
      BY <2>9 DEF f
    <3>5. ArePicked(W, P, C)
      BY <2>6, <3>1, <3>2 DEF ArePicked
    <3>3. Picked(Picked(Declared, P), C) = Picked(Declared, W)
      BY <3>5, PickedTwice
    <3>4. QED
      BY <3>3 DEF list
  <2>14. Discovery!Picked(Declared, W) = Picked(list, C)
    BY <2>1, <2>12, <2>13, DiscoveryPicks
  <2>15. AreTheClaimed(C, list, m)
    BY <2>6, <2>7, <2>11 DEF AreTheClaimed
  <2>16. /\ Cardinality(C) \in Nat
         /\ rules = [k \in 1..Cardinality(C) |-> Discovery!entry(Picked(list, C)[k])]
         /\ Picked(list, C) = [k \in 1..Cardinality(C) |-> list[Ranked(C, Upwards(C))[k]]]
         /\ Lists(Ranked(C, Upwards(C)), C, Upwards(C))
    BY <2>4, <2>15, OfIsOfTheClaimed DEF RegistryInv
  <2>17. ASSUME NEW k \in 1..Cardinality(C)
         PROVE  rules[k].id = Picked(list, C)[k] /\ rules[k].tier = "upstream"
    <3> DEFINE c == Ranked(C, Upwards(C))[k]
    <3>1. c \in C
      BY <2>16 DEF Lists
    <3>2. Picked(list, C)[k] = list[c] /\ rules[k] = Discovery!entry(list[c])
      BY <2>16
    <3> HIDE DEF c
    <3>3. PICK l \in DOMAIN registered : registered[l].id = list[c]
      BY <3>1, <2>10, <2>11
    <3>4. rules[k] = registered[l]
      BY <3>2, <3>3, EntryIsTheClaimants DEF RegistryInv
    <3>5. list[c] = Declared[f[c]] /\ f[c] \in 1..n
      BY <3>1, <2>5, <2>8, <2>10
    <3>6. Discovery!knows(registered[l].id)
      BY <3>3, <3>5, <2>2
    <3>7. registered[l].tier = tree[registered[l].module].tier /\ registered[l].id = tree[registered[l].module].id
          /\ registered[l].module \in imported
      BY EntriesAreClaims DEF RegistryInv, Discovery!Claim
    <3>8. registered[l].tier = "upstream"
      BY <3>6, <3>7, TheManifestsAreUpstreams DEF RegistryInv
    <3>9. QED
      BY <3>2, <3>3, <3>4, <3>8
  <2>18. Discovery!ids(rules) = [k \in 1..Cardinality(C) |-> rules[k].id]
    BY <2>16 DEF Discovery!ids
  <2>19. Discovery!ids(rules) = Picked(list, C)
    BY <2>16, <2>17, <2>18
  <2>20. QED
    BY <2>14, <2>16, <2>17, <2>19
<1>2. QED
  BY <1>1, RegistryInvariance, PTL

-----------------------------------------------------------------------------
Holds(list, f) == \E k \in DOMAIN list : list[k] = f

Once(list) == \A k, l \in DOMAIN list : list[k] = list[l] => k = l

Entries == DOMAIN directory

\* What a run makes of its request and what a directory is while others write to it.
DirectoryInv ==
  /\ asked \in Asks /\ changes \in 0..MaxChanges
  /\ IsFiniteSet(Entries)
  /\ \A f \in Entries : directory[f] \in [name : Replay!Range(NameOrder), kind : {"file", "dir", "gone"}, mtime : Int]
  /\ phase \in {"walk", "filter", "sort", "read", "done"}

\* What is listed is listed once, what is still to be asked is not yet among the
\* files, and no file is in neither.
ListedInv ==
  /\ files \in Seq(Entries) /\ unfiltered \in Seq(Entries)
  /\ Once(files) /\ Once(unfiltered) /\ \A k \in DOMAIN files : ~Holds(unfiltered, files[k])
  /\ phase = "walk" => files = <<>> /\ unfiltered = <<>>
  /\ phase # "walk" => \A f \in Entries : directory[f].kind = "file" => Holds(files, f) \/ Holds(unfiltered, f)
  /\ phase \notin {"walk", "filter"} => unfiltered = <<>>
  /\ \A k \in DOMAIN files : directory[files[k]].kind # "dir"

\* A list of the first of the files, each of them once.
FirstOfTheFiles(list) ==
  /\ list \in Seq(Entries) /\ Len(list) <= Len(files) /\ Once(list)
  /\ \A k \in DOMAIN list : \E i \in DOMAIN list : list[k] = files[i]
  /\ \A i \in DOMAIN list : \E k \in DOMAIN list : list[k] = files[i]

\* The sort has the first of the files and knows when some were written.
SortInv ==
  /\ FirstOfTheFiles(ordered)
  /\ failed \in BOOLEAN
  /\ \A f \in DOMAIN cache : cache[f] \in Int /\ Holds(files, f)
  /\ run \in {None, "begun", "up", "down", "insert"}
  /\ phase \in {"walk", "filter"} => ordered = <<>> /\ run = None /\ DOMAIN cache = {} /\ ~failed
  /\ phase = "sort" => asked.sort = "date" /\ Len(files) > 1 /\ Len(ordered) > 0 /\ run \in {"begun", "up", "down", "insert"}
  /\ phase \in {"read", "done"} => Len(ordered) = Len(files)
  /\ phase = "sort" /\ run = "insert" =>
       span[1] \in Int /\ span[2] \in Int /\ 0 <= span[1] /\ span[1] < span[2] /\ span[2] <= Len(ordered)

\* One file is written before another, or at once with it and is listed before it.
ComesFirst(f, g) ==
  \/ cache[f] < cache[g]
  \/ cache[f] = cache[g] /\ \E i, j \in DOMAIN files : i < j /\ files[i] = f /\ files[j] = g

\* A sort no stat of which failed.
Undisturbed == phase \in {"sort", "read", "done"} /\ asked.sort = "date" /\ Len(files) > 1 /\ ~failed

\* What it has is in order: a run upwards ends with the last file it took, one
\* downwards begins with it, and the file being inserted belongs where the
\* search has still to look.
OrderInv ==
  Undisturbed =>
    /\ \A k, l \in DOMAIN ordered : k < l => ComesFirst(ordered[k], ordered[l])
    /\ Len(ordered) > 1 => \A k \in DOMAIN ordered : ordered[k] \in DOMAIN cache
    /\ phase = "sort" /\ run = "begun" => Len(ordered) = 1 /\ ordered[1] = files[1] /\ DOMAIN cache = {}
    /\ phase = "sort" /\ run # "begun" => Len(ordered) > 1
    /\ phase = "sort" /\ run = "up" => ordered[Len(ordered)] = files[Len(ordered)]
    /\ phase = "sort" /\ run = "down" =>
         /\ ordered[1] = files[Len(ordered)]
         /\ \A k, l \in DOMAIN ordered : k < l => cache[ordered[k]] < cache[ordered[l]]
    /\ phase = "sort" /\ run = "insert" /\ Len(ordered) < Len(files) =>
         /\ \A k \in DOMAIN ordered : k <= span[1] =>
              Replay!Next1 \in DOMAIN cache /\ cache[ordered[k]] <= cache[Replay!Next1]
         /\ \A k \in DOMAIN ordered : span[2] < k =>
              Replay!Next1 \in DOMAIN cache /\ cache[Replay!Next1] < cache[ordered[k]]

\* What a reading says of its file.
ReadingHolds(r) ==
  /\ r.source = "file_name" => r.millis = Instant[Replay!stem(r.file)]
  /\ r.source # "skipped" /\ asked.at # None => r.millis = asked.at
  /\ r.source = "last_modified" => (r.fallback_reason # None <=> asked.sort = "name")

Readings ==
  [file : Entries, millis : Int \cup {None}, source : {"file_name", "last_modified", "fixed", "now", "skipped"},
   fallback_reason : {None, "name_too_short", "unparsable"}]

ReadingsInv ==
  /\ readings \in Seq(Readings) /\ Len(readings) <= Len(ordered)
  /\ phase \notin {"read", "done"} => readings = <<>>
  /\ \A k \in DOMAIN readings : readings[k].file = ordered[k] /\ ReadingHolds(readings[k])

\* In a directory left alone whatever was listed is there, every stat is the
\* file's time and every reading what the clock says of it.
StillInv ==
  changes = 0 =>
    /\ \A k \in DOMAIN files : Replay!there(files[k])
    /\ \A k \in DOMAIN unfiltered : Replay!there(unfiltered[k])
    /\ ~failed
    /\ \A f \in DOMAIN cache : cache[f] = directory[f].mtime
    /\ \A k \in DOMAIN readings : readings[k] = Replay!reading(ordered[k])

ReplayInv == DirectoryInv /\ ListedInv /\ SortInv /\ OrderInv /\ ReadingsInv /\ StillInv

-----------------------------------------------------------------------------
LEMMA ReplayCounts == \A S : Replay!Cardinality(S) = Cardinality(S)
BY DEF Replay!Cardinality, Cardinality

LEMMA ReplayFinite == \A S : Replay!IsFiniteSet(S) <=> IsFiniteSet(S)
BY DEF Replay!IsFiniteSet, IsFiniteSet

\* A listing of a finite set has each of its members once.
LEMMA ListingsAreWhole ==
  ASSUME NEW S, IsFiniteSet(S), NEW s \in Replay!SetToSeqs(S)
  PROVE  s \in Seq(S) /\ Once(s) /\ \A f \in S : Holds(s, f)
<1> DEFINE n == Cardinality(S)
<1>1. n \in Nat /\ IsFiniteSet(1..n) /\ Cardinality(1..n) = n
  BY FS_CardinalityType, HowManyUpTo
<1>2. s \in [1..n -> S] /\ \A i, j \in 1..n : i # j => s[i] # s[j]
  BY ReplayCounts DEF Replay!SetToSeqs
<1> HIDE DEF n
<1>3. s \in Injection(1..n, S)
  BY <1>2 DEF Injection, IsInjective
<1>4. s \in Surjection(1..n, S)
  BY <1>1, <1>3, FS_Injection DEF n
<1>5. s \in Seq(S) /\ DOMAIN s = 1..n
  BY <1>1, <1>2, SeqDef
<1>6. \A f \in S : Holds(s, f)
  BY <1>4, <1>5 DEF Surjection, Holds
<1>7. QED
  BY <1>2, <1>5, <1>6 DEF Once

\* What sorting a list of files by name makes of it.
LEMMA SortedByName ==
  ASSUME Replay!LegalInputs, DirectoryInv, NEW list \in Seq(Entries), Once(list)
  PROVE  /\ Replay!by_name(list) \in Seq(Entries) /\ Len(Replay!by_name(list)) = Len(list)
         /\ Once(Replay!by_name(list))
         /\ \A k \in DOMAIN list : \E i \in DOMAIN list : Replay!by_name(list)[k] = list[i]
         /\ \A i \in DOMAIN list : \E k \in DOMAIN list : Replay!by_name(list)[k] = list[i]
<1> DEFINE n == Len(list)
           D == DOMAIN list
           order == Replay!name_order(list)
           f == Replay!Ranked(D, order)
           b == Replay!by_name(list)
<1>1. n \in Nat /\ D = 1..n /\ \A k \in D : list[k] \in Entries
  OBVIOUS
<1>2. IsFiniteSet(D) /\ Cardinality(D) = n
  BY <1>1, HowManyUpTo
<1>3. ASSUME NEW e \in Entries PROVE Replay!_name_sort_key(e) \in Int
  <2>1. directory[e].name \in Replay!Range(NameOrder)
    BY DEF DirectoryInv
  <2>2. \E k \in DOMAIN NameOrder : NameOrder[k] = directory[e].name
    BY <2>1 DEF Replay!Range
  <2>3. Replay!_name_sort_key(e) \in DOMAIN NameOrder
    BY <2>2 DEF Replay!_name_sort_key
  <2>4. NameOrder \in Seq(Replay!Range(NameOrder))
    BY DEF Replay!LegalInputs
  <2>5. QED
    BY <2>3, <2>4
<1>4. StrictOrder(D, order)
  <2> DEFINE key(i) == Replay!_name_sort_key(list[i])
  <2>1. \A i \in D : key(i) \in Int
    BY <1>1, <1>3
  <2>2. \A i, j \in D : <<i, j>> \in order <=> key(i) < key(j) \/ (key(i) = key(j) /\ i < j)
    BY DEF Replay!name_order
  <2> HIDE DEF key, order
  <2>3. \A i \in D : i \in Int
    BY <1>1
  <2> HIDE DEF D
  <2>4. QED
    BY <2>1, <2>2, <2>3 DEF StrictOrder
<1> HIDE DEF order
<1>5. Lists(f, D, order)
  <2>1. \A i : Replay!Ahead(i, D, order) = Ahead(i, D, order)
    BY DEF Replay!Ahead, Ahead
  <2>2. f = [k \in 1..Cardinality(D) |-> f[k]]
    BY ReplayCounts DEF Replay!Ranked
  <2>3. ASSUME NEW k \in 1..Cardinality(D), NEW i \in D, Cardinality(Ahead(i, D, order)) = k - 1
        PROVE  f[k] \in D /\ Cardinality(Ahead(f[k], D, order)) = k - 1
    <3>1. f[k] = CHOOSE x \in D : Replay!Cardinality(Replay!Ahead(x, D, order)) = k - 1
      BY ReplayCounts DEF Replay!Ranked
    <3>2. Replay!Cardinality(Replay!Ahead(i, D, order)) = k - 1
      BY <2>1, <2>3, ReplayCounts
    <3> HIDE DEF f, D
    <3>3. f[k] \in D /\ Replay!Cardinality(Replay!Ahead(f[k], D, order)) = k - 1
      BY <3>1, <3>2, <2>3
    <3>4. QED
      BY <3>3, <2>1, ReplayCounts
  <2> HIDE DEF f, D
  <2>4. QED
    BY <1>2, <1>4, <2>2, <2>3, PlacesMakeAList
<1>6. b = [k \in D |-> list[f[k]]]
  BY DEF Replay!by_name, order
<1> HIDE DEF f, b
<1>7. /\ \A k \in 1..n : f[k] \in D
      /\ \A i \in D : \E k \in 1..n : f[k] = i
      /\ \A k, l \in 1..n : k < l => <<f[k], f[l]>> \in order
  BY <1>2, <1>5 DEF Lists
<1>8. \A k, l \in 1..n : f[k] = f[l] => k = l
  <2>1. ASSUME NEW k \in 1..n, NEW l \in 1..n, k < l PROVE f[k] # f[l]
    <3>1. <<f[k], f[l]>> \in order /\ f[k] \in D
      BY <1>7, <2>1
    <3>2. QED
      BY <1>4, <3>1 DEF StrictOrder
  <2>2. \A k, l \in 1..n : k # l => k < l \/ l < k
    BY <1>1
  <2>3. QED
    BY <2>1, <2>2
<1>9. b \in Seq(Entries) /\ Len(b) = n
  BY <1>1, <1>6, <1>7
<1>10. Once(b)
  BY <1>1, <1>6, <1>7, <1>8 DEF Once
<1>11. \A k \in D : f[k] \in D /\ b[k] = list[f[k]]
  BY <1>1, <1>6, <1>7
<1>12. \A i \in D : \E k \in D : b[k] = list[i]
  BY <1>1, <1>7, <1>11
<1>13. \A k \in D : \E i \in D : b[k] = list[i]
  BY <1>11
<1>14. QED
  <2> HIDE DEF D
  <2>1. QED
    BY <1>9, <1>10, <1>12, <1>13 DEF b, D, n

\* t is s with e put in after the first a.
Widens(t, s, a, e) ==
  /\ Len(t) = Len(s) + 1 /\ DOMAIN t = 1..(Len(s) + 1)
  /\ \A k \in 1..(Len(s) + 1) : t[k] = IF k <= a THEN s[k] ELSE IF k = a + 1 THEN e ELSE s[k - 1]

LEMMA Inserting ==
  ASSUME NEW S, NEW s \in Seq(S), NEW e \in S, NEW a \in 0..Len(s)
  PROVE  Replay!InsertAt(s, a + 1, e) \in Seq(S) /\ Widens(Replay!InsertAt(s, a + 1, e), s, a, e)
<1> DEFINE u == SubSeq(s, 1, a)
           v == SubSeq(s, a + 1, Len(s))
           w == u \o <<e>>
           t == w \o v
<1>1. Len(s) \in Nat /\ a \in Nat /\ (a + 1) - 1 = a
  OBVIOUS
<1>2. u \in Seq(S) /\ Len(u) = a /\ \A k \in 1..a : u[k] = s[k]
  BY SubSeqProperties
<1>3. v \in Seq(S) /\ Len(v) = Len(s) - a /\ \A k \in 1..(Len(s) - a) : v[k] = s[a + k]
  BY SubSeqProperties
<1>4. Replay!InsertAt(s, a + 1, e) = t
  <2>1. Replay!InsertAt(s, a + 1, e) = SubSeq(s, 1, (a + 1) - 1) \o <<e>> \o SubSeq(s, a + 1, Len(s))
    BY DEF Replay!InsertAt
  <2>2. QED
    BY <1>1, <2>1
<1> HIDE DEF u, v
<1>5. <<e>> \in Seq(S) /\ Len(<<e>>) = 1 /\ <<e>>[1] = e
  OBVIOUS
<1>6. w \in Seq(S) /\ Len(w) = a + 1 /\ \A k \in 1..(a + 1) : w[k] = IF k <= a THEN s[k] ELSE e
  BY <1>1, <1>2, <1>5, ConcatProperties
<1> HIDE DEF w
<1>11. /\ t \in Seq(S) /\ Len(t) = Len(w) + Len(v)
       /\ \A k \in 1..(Len(w) + Len(v)) : t[k] = IF k <= Len(w) THEN w[k] ELSE v[k - Len(w)]
  BY <1>3, <1>6, ConcatProperties
<1> HIDE DEF t
<1>7. /\ t \in Seq(S) /\ Len(t) = (a + 1) + (Len(s) - a)
      /\ \A k \in 1..((a + 1) + (Len(s) - a)) : t[k] = IF k <= a + 1 THEN w[k] ELSE v[k - (a + 1)]
  BY <1>3, <1>6, <1>11
<1>8. (a + 1) + (Len(s) - a) = Len(s) + 1
  BY <1>1
<1>9. ASSUME NEW k \in 1..(Len(s) + 1)
      PROVE  t[k] = IF k <= a THEN s[k] ELSE IF k = a + 1 THEN e ELSE s[k - 1]
  <2>1. t[k] = IF k <= a + 1 THEN w[k] ELSE v[k - (a + 1)]
    BY <1>7, <1>8
  <2>2. CASE k <= a + 1
    <3>1. k \in 1..(a + 1) /\ (k = a + 1 <=> ~(k <= a))
      BY <1>1, <2>2
    <3>2. QED
      BY <1>6, <2>1, <2>2, <3>1
  <2>3. CASE ~(k <= a + 1)
    <3>1. k - (a + 1) \in 1..(Len(s) - a) /\ a + (k - (a + 1)) = k - 1 /\ ~(k <= a) /\ k # a + 1
      BY <1>1, <2>3
    <3>2. QED
      BY <1>3, <2>1, <2>3, <3>1
  <2>4. QED
    BY <2>2, <2>3
<1>10. QED
  BY <1>4, <1>7, <1>8, <1>9 DEF Widens

LEMMA Prepending ==
  ASSUME NEW S, NEW s \in Seq(S), NEW e \in S
  PROVE  <<e>> \o s \in Seq(S) /\ Widens(<<e>> \o s, s, 0, e)
<1> DEFINE t == <<e>> \o s
<1>1. <<e>> \in Seq(S) /\ Len(<<e>>) = 1 /\ <<e>>[1] = e /\ Len(s) \in Nat
  OBVIOUS
<1>2. /\ t \in Seq(S) /\ Len(t) = Len(<<e>>) + Len(s)
      /\ \A k \in 1..(Len(<<e>>) + Len(s)) : t[k] = IF k <= Len(<<e>>) THEN <<e>>[k] ELSE s[k - Len(<<e>>)]
  BY <1>1, ConcatProperties
<1> HIDE DEF t
<1>3. Len(t) = Len(s) + 1 /\ \A k \in 1..(Len(s) + 1) : t[k] = IF k <= 1 THEN <<e>>[k] ELSE s[k - 1]
  BY <1>1, <1>2
<1>4. \A k \in 1..(Len(s) + 1) : (k <= 1 <=> k = 1) /\ ~(k <= 0) /\ (k = 0 + 1 <=> k = 1)
  BY <1>1
<1>5. Widens(t, s, 0, e)
  BY <1>1, <1>2, <1>3, <1>4 DEF Widens
<1>6. QED
  BY <1>2, <1>5 DEF t

LEMMA Appending ==
  ASSUME NEW S, NEW s \in Seq(S), NEW e \in S
  PROVE  Append(s, e) \in Seq(S) /\ Widens(Append(s, e), s, Len(s), e)
<1> DEFINE t == Append(s, e)
<1>1. Len(s) \in Nat /\ t \in Seq(S) /\ Len(t) = Len(s) + 1 /\ t[Len(s) + 1] = e /\ \A k \in 1..Len(s) : t[k] = s[k]
  OBVIOUS
<1> HIDE DEF t
<1>2. \A k \in 1..(Len(s) + 1) : k <= Len(s) \/ k = Len(s) + 1
  BY <1>1
<1>3. Widens(t, s, Len(s), e)
  BY <1>1, <1>2 DEF Widens
<1>4. QED
  BY <1>1, <1>3 DEF t

-----------------------------------------------------------------------------
\* What two stats and the comparison come to.
LEMMA Asking ==
  ASSUME NEW f, NEW g, Replay!Stats(<<f, g>>)
  PROVE  /\ \A h \in DOMAIN cache : h \in DOMAIN cache' /\ cache'[h] = cache[h]
         /\ \A h \in DOMAIN cache' : h \in DOMAIN cache \/ (h \in {f, g} /\ Replay!there(h) /\ cache'[h] = directory[h].mtime)
         /\ failed' <=> failed \/ ~(f \in DOMAIN cache' /\ g \in DOMAIN cache')
         /\ f \in DOMAIN cache' /\ g \in DOMAIN cache' => (Replay!compare(<<f, g>>) = -1 <=> ~(cache'[f] > cache'[g]) /\ cache'[f] < cache'[g])
         /\ Replay!there(f) /\ Replay!there(g) => f \in DOMAIN cache' /\ g \in DOMAIN cache'
<1> DEFINE pair == <<f, g>>
<1>1. Replay!Range(pair) = {f, g} /\ pair[1] = f /\ pair[2] = g
  BY DEF Replay!Range
<1>2. cache' = Replay!stat(pair) /\ (failed' <=> failed \/ ~({f, g} \subseteq DOMAIN cache'))
  BY <1>1 DEF Replay!Stats
<1> HIDE DEF pair
<1>3. PICK A \in SUBSET {f, g} :
        /\ cache' = [h \in DOMAIN cache \cup A |-> IF h \in DOMAIN cache THEN cache[h] ELSE directory[h].mtime]
        /\ \A h \in A : Replay!there(h)
        /\ Replay!there(f) /\ Replay!there(g) => \A h \in {f, g} : h \in DOMAIN cache \cup A
  <2> DEFINE first_fails == pair[1] \notin DOMAIN cache /\ ~Replay!there(pair[1])
             A == IF first_fails THEN {} ELSE {h \in Replay!Range(pair) : h \notin DOMAIN cache /\ Replay!there(h)}
  <2>1. cache' = [h \in DOMAIN cache \cup A |-> IF h \in DOMAIN cache THEN cache[h] ELSE directory[h].mtime]
    BY <1>2 DEF Replay!stat
  <2>2. A \in SUBSET {f, g} /\ \A h \in A : Replay!there(h)
    BY <1>1
  <2>3. Replay!there(f) /\ Replay!there(g) => \A h \in {f, g} : h \in DOMAIN cache \cup A
    BY <1>1
  <2> HIDE DEF A
  <2>4. QED
    BY <2>1, <2>2, <2>3
<1>4. /\ \A h \in DOMAIN cache : h \in DOMAIN cache' /\ cache'[h] = cache[h]
      /\ \A h \in DOMAIN cache' : h \in DOMAIN cache \/ (h \in {f, g} /\ Replay!there(h) /\ cache'[h] = directory[h].mtime)
      /\ Replay!there(f) /\ Replay!there(g) => f \in DOMAIN cache' /\ g \in DOMAIN cache'
  BY <1>3
<1>5. f \in DOMAIN cache' /\ g \in DOMAIN cache' => (Replay!compare(pair) = -1 <=> ~(cache'[f] > cache'[g]) /\ cache'[f] < cache'[g])
  <2>1. ASSUME f \in DOMAIN cache', g \in DOMAIN cache'
        PROVE  Replay!compare(pair) = IF cache'[f] > cache'[g] THEN 1 ELSE IF cache'[f] < cache'[g] THEN -1 ELSE 0
    <3>1. Replay!Range(pair) \subseteq DOMAIN Replay!stat(pair)
      BY <1>1, <1>2, <2>1
    <3>2. QED
      BY <1>1, <1>2, <3>1 DEF Replay!compare
  <2>2. QED
    BY <2>1
<1>6. QED
  BY <1>2, <1>4, <1>5 DEF pair

\* A stat asks of the files and of nothing else, and is asked in time.
LEMMA StatsAreOfFiles ==
  ASSUME DirectoryInv, ListedInv, SortInv, StillInv, UNCHANGED <<files, directory, changes>>,
         NEW f, NEW g, Holds(files, f), Holds(files, g), Replay!Stats(<<f, g>>)
  PROVE  /\ failed' \in BOOLEAN
         /\ \A h \in DOMAIN cache' : cache'[h] \in Int /\ Holds(files, h)
         /\ changes = 0 => ~failed' /\ \A h \in DOMAIN cache' : cache'[h] = directory[h].mtime
<1>1. ASSUME NEW h, Holds(files, h) PROVE h \in Entries /\ directory[h].mtime \in Int
  BY <1>1 DEF Holds, ListedInv, DirectoryInv, Entries
<1>2. failed' \in BOOLEAN
  BY DEF Replay!Stats, SortInv
<1>3. \A h \in DOMAIN cache' : (h \in DOMAIN cache /\ cache'[h] = cache[h]) \/ (h \in {f, g} /\ cache'[h] = directory[h].mtime)
  BY Asking
<1>4. \A h \in DOMAIN cache' : cache'[h] \in Int /\ Holds(files, h)
  BY <1>1, <1>3 DEF SortInv
<1>5. ASSUME changes = 0
      PROVE  ~failed' /\ \A h \in DOMAIN cache' : cache'[h] = directory[h].mtime
  <2>1. Replay!there(f) /\ Replay!there(g) /\ ~failed /\ \A h \in DOMAIN cache : cache[h] = directory[h].mtime
    BY <1>5 DEF StillInv, Holds
  <2>2. f \in DOMAIN cache' /\ g \in DOMAIN cache' /\ ~failed'
    BY <2>1, Asking
  <2>3. QED
    BY <1>3, <2>1, <2>2
<1>6. QED
  BY <1>2, <1>4, <1>5

\* from says where in s, of length m, a member of t was, e being after the first a.
WentFrom(from, t, s, m, a) ==
  /\ \A k \in 1..(m + 1) : k # a + 1 => from[k] \in 1..m /\ t[k] = s[from[k]]
  /\ \A k, l \in 1..(m + 1) : k # a + 1 /\ l # a + 1 /\ k < l => from[k] < from[l]
  /\ \A k \in 1..(m + 1) : (k < a + 1 => from[k] <= a) /\ (a + 1 < k => a < from[k])
  /\ \A j \in 1..m : \E k \in 1..(m + 1) : k # a + 1 /\ from[k] = j

LEMMA WhereTheyWent ==
  ASSUME NEW m \in Nat, NEW a \in 0..m, NEW s, NEW t, NEW e, m = Len(s), Widens(t, s, a, e)
  PROVE  a + 1 \in 1..(m + 1) /\ t[a + 1] = e /\ \E from : WentFrom(from, t, s, m, a)
<1> DEFINE from == [k \in 1..(m + 1) |-> IF k <= a THEN k ELSE k - 1]
<1>1. \A k \in 1..(m + 1) : from[k] = (IF k <= a THEN k ELSE k - 1) /\ from[k] \in Int
  OBVIOUS
<1>2. from \in [1..(m + 1) -> Int]
  OBVIOUS
<1> HIDE DEF from
<1>3. \A k \in 1..(m + 1) : t[k] = IF k <= a THEN s[k] ELSE IF k = a + 1 THEN e ELSE s[k - 1]
  BY DEF Widens
<1>4. a + 1 \in 1..(m + 1) /\ ~(a + 1 <= a)
  OBVIOUS
<1>5. ASSUME NEW k \in 1..(m + 1), k # a + 1 PROVE from[k] \in 1..m /\ t[k] = s[from[k]]
  <2>1. CASE k <= a
    BY <1>1, <1>3, <2>1
  <2>2. CASE ~(k <= a)
    BY <1>1, <1>3, <1>5, <2>2
  <2>3. QED
    BY <2>1, <2>2
<1>6. ASSUME NEW k \in 1..(m + 1), NEW l \in 1..(m + 1), k # a + 1, l # a + 1, k < l PROVE from[k] < from[l]
  BY <1>1, <1>6
<1>7. \A k \in 1..(m + 1) : (k < a + 1 => from[k] <= a) /\ (a + 1 < k => a < from[k])
  BY <1>1
<1>8. ASSUME NEW j \in 1..m PROVE \E k \in 1..(m + 1) : k # a + 1 /\ from[k] = j
  <2>1. CASE j <= a
    <3>1. j \in 1..(m + 1) /\ j # a + 1 /\ from[j] = j
      BY <1>1, <2>1
    <3>2. QED
      BY <3>1
  <2>2. CASE ~(j <= a)
    <3>1. j + 1 \in 1..(m + 1) /\ j + 1 # a + 1 /\ ~(j + 1 <= a)
      BY <2>2
    <3>2. from[j + 1] = j
      BY <1>1, <3>1
    <3>3. QED
      BY <3>1, <3>2
  <2>3. QED
    BY <2>1, <2>2
<1>9. t[a + 1] = e
  BY <1>3, <1>4
<1>10. WentFrom(from, t, s, m, a)
  BY <1>5, <1>6, <1>7, <1>8 DEF WentFrom
<1>11. QED
  BY <1>4, <1>9, <1>10

LEMMA SortsOfFiles ==
  ASSUME ListedInv, SortInv
  PROVE  /\ Len(ordered) \in Nat /\ DOMAIN ordered = 1..Len(ordered)
         /\ Len(files) \in Nat /\ DOMAIN files = 1..Len(files)
         /\ Len(ordered) <= Len(files)
         /\ \A k \in DOMAIN files : files[k] \in Entries
<1>1. files \in Seq(Entries)
  BY DEF ListedInv
<1>2. ordered \in Seq(Entries) /\ Len(ordered) <= Len(files)
  BY DEF SortInv, FirstOfTheFiles
<1>3. QED
  BY <1>1, <1>2

\* The sort takes the next file in somewhere.
LEMMA TakingOneIn ==
  ASSUME ListedInv, SortInv, Len(ordered) < Len(files), ordered' \in Seq(Entries),
         NEW a \in 0..Len(ordered), Widens(ordered', ordered, a, Replay!Next1)
  PROVE  FirstOfTheFiles(ordered')
<1> DEFINE m == Len(ordered)
           e == files[m + 1]
<1>1. m \in Nat /\ DOMAIN ordered = 1..m /\ Len(files) \in Nat /\ DOMAIN files = 1..Len(files) /\ m < Len(files)
  BY SortsOfFiles
<1>2. Len(ordered') = m + 1 /\ DOMAIN ordered' = 1..(m + 1)
  BY DEF Widens
<1>3. /\ \A k \in 1..m : \E i \in 1..m : ordered[k] = files[i]
      /\ \A i \in 1..m : \E k \in 1..m : ordered[k] = files[i]
      /\ \A k, l \in 1..m : ordered[k] = ordered[l] => k = l
  BY <1>1 DEF SortInv, FirstOfTheFiles, Once
<1>4. \A k \in 1..m : ordered[k] # e
  <2>1. Once(files)
    BY DEF ListedInv
  <2>2. \A i \in 1..m : i \in DOMAIN files /\ m + 1 \in DOMAIN files /\ i # m + 1
    BY <1>1
  <2> HIDE DEF m
  <2>3. QED
    BY <1>3, <2>1, <2>2 DEF Once
<1>5. Widens(ordered', ordered, a, e)
  BY DEF Replay!Next1
<1>6. a \in 0..m /\ Len(ordered) = m
  OBVIOUS
<1>7. e = files[m + 1]
  OBVIOUS
<1> HIDE DEF m, e
<1>8. a + 1 \in 1..(m + 1) /\ ordered'[a + 1] = e
  BY <1>1, <1>5, <1>6, WhereTheyWent
<1>17. PICK from : WentFrom(from, ordered', ordered, m, a)
  BY <1>1, <1>5, <1>6, WhereTheyWent
<1>9. /\ \A k \in 1..(m + 1) : k # a + 1 => from[k] \in 1..m /\ ordered'[k] = ordered[from[k]]
      /\ \A k, l \in 1..(m + 1) : k # a + 1 /\ l # a + 1 /\ k < l => from[k] < from[l]
      /\ \A j \in 1..m : \E k \in 1..(m + 1) : k # a + 1 /\ from[k] = j
  BY <1>17 DEF WentFrom
<1>10. ASSUME NEW k \in 1..(m + 1), NEW l \in 1..(m + 1), k < l PROVE ordered'[k] # ordered'[l]
  <2>1. CASE k # a + 1 /\ l # a + 1
    <3>1. from[k] < from[l] /\ from[k] \in 1..m /\ from[l] \in 1..m
      BY <1>9, <1>10, <2>1
    <3>2. from[k] # from[l]
      BY <3>1
    <3>3. ordered'[k] = ordered[from[k]] /\ ordered'[l] = ordered[from[l]]
      BY <1>9, <2>1
    <3>4. QED
      BY <1>3, <3>1, <3>2, <3>3
  <2>2. CASE k = a + 1
    <3>1. l # a + 1
      BY <1>10, <2>2
    <3>2. QED
      BY <1>4, <1>8, <1>9, <2>2, <3>1
  <2>3. CASE l = a + 1
    <3>1. k # a + 1
      BY <1>10, <2>3
    <3>2. QED
      BY <1>4, <1>8, <1>9, <2>3, <3>1
  <2>4. QED
    BY <2>1, <2>2, <2>3
<1>11. \A k, l \in 1..(m + 1) : ordered'[k] = ordered'[l] => k = l
  <2>1. \A k, l \in 1..(m + 1) : k # l => k < l \/ l < k
    BY <1>1
  <2>2. QED
    BY <1>10, <2>1
<1>12. m + 1 \in 1..(m + 1) /\ \A i \in 1..m : i \in 1..(m + 1)
  BY <1>1
<1>13. ASSUME NEW k \in 1..(m + 1) PROVE \E i \in 1..(m + 1) : ordered'[k] = files[i]
  <2>1. CASE k = a + 1
    BY <1>7, <1>8, <1>12, <2>1
  <2>2. CASE k # a + 1
    <3>1. from[k] \in 1..m /\ ordered'[k] = ordered[from[k]]
      BY <1>9, <2>2
    <3>2. PICK i \in 1..m : ordered[from[k]] = files[i]
      BY <1>3, <3>1
    <3>3. QED
      BY <1>12, <3>1, <3>2
  <2>3. QED
    BY <2>1, <2>2
<1>14. ASSUME NEW i \in 1..(m + 1) PROVE \E k \in 1..(m + 1) : ordered'[k] = files[i]
  <2>1. CASE i \in 1..m
    <3>1. PICK j \in 1..m : ordered[j] = files[i]
      BY <1>3, <2>1
    <3>2. PICK k \in 1..(m + 1) : k # a + 1 /\ from[k] = j
      BY <1>9
    <3>3. QED
      BY <1>9, <3>1, <3>2
  <2>2. CASE i = m + 1
    BY <1>7, <1>8, <2>2
  <2>3. i \in 1..m \/ i = m + 1
    BY <1>1
  <2>4. QED
    BY <2>1, <2>2, <2>3
<1>15. Len(ordered') <= Len(files) /\ Once(ordered')
  BY <1>1, <1>2, <1>11 DEF Once
<1>16. QED
  BY <1>2, <1>13, <1>14, <1>15 DEF FirstOfTheFiles

\* A file put in after those it does not precede, and before those it precedes.
LEMMA TakingOneInOrder ==
  ASSUME ListedInv, SortInv, files' = files, Len(ordered) < Len(files),
         NEW a \in 0..Len(ordered), Widens(ordered', ordered, a, Replay!Next1),
         \A h \in DOMAIN cache' : cache'[h] \in Int,
         \A h \in DOMAIN cache : h \in DOMAIN cache' /\ cache'[h] = cache[h],
         Replay!Next1 \in DOMAIN cache',
         \A k \in DOMAIN ordered : ordered[k] \in DOMAIN cache',
         \A k, l \in DOMAIN ordered : k < l => ComesFirst(ordered[k], ordered[l]),
         Len(ordered) > 1 => \A k \in DOMAIN ordered : ordered[k] \in DOMAIN cache,
         \A k \in DOMAIN ordered : k <= a => cache'[ordered[k]] <= cache'[Replay!Next1],
         \A k \in DOMAIN ordered : a < k => cache'[Replay!Next1] < cache'[ordered[k]]
  PROVE  /\ \A k, l \in DOMAIN ordered' : k < l => ComesFirst(ordered[k], ordered[l])'
         /\ \A k \in DOMAIN ordered' : ordered'[k] \in DOMAIN cache'
<1> DEFINE m == Len(ordered)
           e == files[m + 1]
           first(f, g) == \/ cache'[f] < cache'[g]
                          \/ cache'[f] = cache'[g] /\ \E i, j \in DOMAIN files : i < j /\ files[i] = f /\ files[j] = g
<1>1. m \in Nat /\ DOMAIN ordered = 1..m /\ Len(files) \in Nat /\ DOMAIN files = 1..Len(files) /\ m < Len(files)
  BY SortsOfFiles
<1>2. Len(ordered') = m + 1 /\ DOMAIN ordered' = 1..(m + 1)
  BY DEF Widens
<1>3. Widens(ordered', ordered, a, e) /\ Replay!Next1 = e
  BY DEF Replay!Next1
<1>4. a \in 0..m /\ Len(ordered) = m /\ e = files[m + 1]
  OBVIOUS
<1>5. m + 1 \in DOMAIN files /\ \A i \in 1..m : i \in DOMAIN files /\ i < m + 1
  BY <1>1
<1> HIDE DEF m, e
<1>6. ASSUME NEW k \in 1..m, NEW l \in 1..m, k < l PROVE first(ordered[k], ordered[l])
  <2>1. ComesFirst(ordered[k], ordered[l]) /\ Len(ordered) > 1
    BY <1>1, <1>4, <1>6
  <2>2. ordered[k] \in DOMAIN cache /\ ordered[l] \in DOMAIN cache
    BY <1>1, <2>1
  <2>3. cache'[ordered[k]] = cache[ordered[k]] /\ cache'[ordered[l]] = cache[ordered[l]]
    BY <2>2
  <2>4. QED
    BY <2>1, <2>3 DEF ComesFirst
<1>7. ASSUME NEW k \in 1..m, k <= a PROVE first(ordered[k], e)
  <2>1. cache'[ordered[k]] <= cache'[e] /\ cache'[ordered[k]] \in Int /\ cache'[e] \in Int
    BY <1>1, <1>3, <1>7
  <2>2. PICK i \in 1..m : files[i] = ordered[k]
    BY <1>1 DEF SortInv, FirstOfTheFiles
  <2>3. i \in DOMAIN files /\ m + 1 \in DOMAIN files /\ i < m + 1 /\ files[m + 1] = e
    BY <1>4, <1>5
  <2>4. cache'[ordered[k]] < cache'[e] \/ cache'[ordered[k]] = cache'[e]
    BY <2>1
  <2>5. QED
    BY <2>2, <2>3, <2>4
<1>8. ASSUME NEW k \in 1..m, a < k PROVE first(e, ordered[k])
  BY <1>1, <1>3, <1>8
<1>9. a + 1 \in 1..(m + 1) /\ ordered'[a + 1] = e
  BY <1>1, <1>3, <1>4, WhereTheyWent
<1>15. PICK from : WentFrom(from, ordered', ordered, m, a)
  BY <1>1, <1>3, <1>4, WhereTheyWent
<1>10. /\ \A k \in 1..(m + 1) : k # a + 1 => from[k] \in 1..m /\ ordered'[k] = ordered[from[k]]
       /\ \A k, l \in 1..(m + 1) : k # a + 1 /\ l # a + 1 /\ k < l => from[k] < from[l]
       /\ \A k \in 1..(m + 1) : (k < a + 1 => from[k] <= a) /\ (a + 1 < k => a < from[k])
  BY <1>15 DEF WentFrom
<1> HIDE DEF first
<1>11. ASSUME NEW k \in 1..(m + 1), NEW l \in 1..(m + 1), k < l PROVE first(ordered'[k], ordered'[l])
  <2>1. CASE k # a + 1 /\ l # a + 1
    <3>1. from[k] < from[l] /\ from[k] \in 1..m /\ from[l] \in 1..m
      BY <1>10, <1>11, <2>1
    <3>2. ordered'[k] = ordered[from[k]] /\ ordered'[l] = ordered[from[l]]
      BY <1>10, <2>1
    <3>3. QED
      BY <1>6, <3>1, <3>2
  <2>2. CASE l = a + 1
    <3>1. k # a + 1 /\ k < a + 1
      BY <1>11, <2>2
    <3>2. from[k] \in 1..m /\ from[k] <= a /\ ordered'[k] = ordered[from[k]]
      BY <1>10, <3>1
    <3>3. QED
      BY <1>7, <1>9, <2>2, <3>2
  <2>3. CASE k = a + 1
    <3>1. l # a + 1 /\ a + 1 < l
      BY <1>11, <2>3
    <3>2. from[l] \in 1..m /\ a < from[l] /\ ordered'[l] = ordered[from[l]]
      BY <1>10, <3>1
    <3>3. QED
      BY <1>8, <1>9, <2>3, <3>2
  <2>4. QED
    BY <2>1, <2>2, <2>3
<1>12. ASSUME NEW k \in 1..(m + 1) PROVE ordered'[k] \in DOMAIN cache'
  BY <1>1, <1>3, <1>9, <1>10
<1>13. ASSUME NEW k \in DOMAIN ordered', NEW l \in DOMAIN ordered', k < l
       PROVE  ComesFirst(ordered[k], ordered[l])'
  <2>1. first(ordered'[k], ordered'[l])
    BY <1>2, <1>11, <1>13
  <2>2. QED
    BY <2>1 DEF ComesFirst, first
<1>14. QED
  BY <1>2, <1>12, <1>13

-----------------------------------------------------------------------------
LEMMA ReplayInit ==
  ASSUME Replay!LegalInputs, Replay!Init
  PROVE  ReplayInv
<1>1. DirectoryInv
  <2>1. Replay!IsFiniteSet(Entries)
    BY DEF Replay!LegalInputs, Replay!Init, Entries
  <2>2. IsFiniteSet(Entries)
    BY <2>1, ReplayFinite
  <2>3. \A f \in Entries : directory[f] \in [name : Replay!Range(NameOrder), kind : {"file", "dir", "gone"}, mtime : Int]
    BY DEF Replay!LegalInputs, Replay!Init, Entries
  <2>4. asked \in Asks /\ changes \in 0..MaxChanges /\ phase = "walk"
    BY DEF Replay!LegalInputs, Replay!Init
  <2>5. QED
    BY <2>2, <2>3, <2>4 DEF DirectoryInv
<1>2. ListedInv
  BY DEF Replay!Init, ListedInv, Once, Holds
<1>3. SortInv
  <2>1. DOMAIN cache = {} /\ failed = FALSE /\ run = None /\ phase = "walk" /\ ordered = <<>> /\ files = <<>>
    BY DEF Replay!Init
  <2>2. FirstOfTheFiles(ordered)
    BY <2>1 DEF FirstOfTheFiles, Once
  <2>3. QED
    BY <2>1, <2>2 DEF SortInv
<1>4. OrderInv
  BY DEF Replay!Init, OrderInv, Undisturbed
<1>5. ReadingsInv
  BY DEF Replay!Init, ReadingsInv
<1>6. StillInv
  BY DEF Replay!Init, StillInv
<1>7. QED
  BY <1>1, <1>2, <1>3, <1>4, <1>5, <1>6 DEF ReplayInv

\* A list is one of files, whatever happens to them.
LEMMA DirectoryChangesKeep ==
  ASSUME ReplayInv, changes' = changes + 1, changes < MaxChanges, MaxChanges \in Nat, phase' = phase,
         DOMAIN directory' = Entries,
         \A f \in Entries : /\ directory'[f] \in [name : Replay!Range(NameOrder), kind : {"file", "dir", "gone"}, mtime : Int]
                            /\ directory'[f].name = directory[f].name
                            /\ directory'[f].kind \in {directory[f].kind, "gone"},
         UNCHANGED <<asked, unfiltered, files, cache, failed, run, ordered, span, readings>>
  PROVE  ReplayInv'
<1>1. DirectoryInv'
  BY DEF ReplayInv, DirectoryInv, Entries
<1>2. ListedInv'
  <2>1. \A f \in Entries : /\ directory'[f].kind = "file" => directory[f].kind = "file"
                           /\ directory[f].kind # "dir" => directory'[f].kind # "dir"
    OBVIOUS
  <2>2. files \in Seq(Entries) /\ unfiltered \in Seq(Entries) /\ Entries' = Entries
    BY DEF ReplayInv, ListedInv, Entries
  <2>3. \A k \in DOMAIN files : directory'[files[k]].kind # "dir"
    BY <2>1, <2>2 DEF ReplayInv, ListedInv
  <2>4. phase # "walk" => \A f \in Entries : directory'[f].kind = "file" => Holds(files, f) \/ Holds(unfiltered, f)
    BY <2>1 DEF ReplayInv, ListedInv
  <2>5. QED
    BY <2>2, <2>3, <2>4 DEF ReplayInv, ListedInv, Once, Holds
<1>3. SortInv'
  <2>1. FirstOfTheFiles(ordered)'
    BY DEF ReplayInv, SortInv, FirstOfTheFiles, Once, Entries
  <2>2. QED
    BY <2>1 DEF ReplayInv, SortInv, Holds
<1>4. OrderInv'
  BY DEF ReplayInv, OrderInv, Undisturbed, ComesFirst, Replay!Next1
<1>5. ReadingsInv'
  <2>1. \A k \in DOMAIN readings : k \in DOMAIN ordered /\ readings[k].file \in Entries
    <3>1. ordered \in Seq(Entries)
      BY DEF ReplayInv, SortInv, FirstOfTheFiles
    <3>2. QED
      BY <3>1 DEF ReplayInv, ReadingsInv
  <2>2. \A k \in DOMAIN readings : Replay!stem(readings[k].file)' = Replay!stem(readings[k].file)
    BY <2>1 DEF Replay!stem
  <2>3. ASSUME NEW k \in DOMAIN readings PROVE ReadingHolds(readings[k])'
    BY <2>2, <2>3 DEF ReplayInv, ReadingsInv, ReadingHolds
  <2>4. Readings' = Readings
    BY DEF Readings, Entries
  <2>5. QED
    BY <2>3, <2>4 DEF ReplayInv, ReadingsInv
<1>6. StillInv'
  BY DEF ReplayInv, StillInv, DirectoryInv
<1>7. QED
  BY <1>1, <1>2, <1>3, <1>4, <1>5, <1>6 DEF ReplayInv

LEMMA TouchKeeps ==
  ASSUME Replay!LegalInputs, ReplayInv, NEW f \in DOMAIN directory, Replay!Touch(f)
  PROVE  ReplayInv'
<1>1. directory[f].mtime + 2 \in Int
  BY DEF ReplayInv, DirectoryInv, Entries
<1>2. DOMAIN directory' = Entries
  BY DEF Replay!Touch, Entries
<1>3. \A g \in Entries : directory'[g] = IF g = f THEN [directory[f] EXCEPT !.mtime = @ + 2] ELSE directory[g]
  BY DEF Replay!Touch, Entries
<1>4. \A g \in Entries :
        /\ directory'[g] \in [name : Replay!Range(NameOrder), kind : {"file", "dir", "gone"}, mtime : Int]
        /\ directory'[g].name = directory[g].name
        /\ directory'[g].kind \in {directory[g].kind, "gone"}
  BY <1>1, <1>3 DEF ReplayInv, DirectoryInv
<1>5. QED
  BY <1>2, <1>4, DirectoryChangesKeep DEF Replay!Touch, Replay!Sorting, Replay!LegalInputs

LEMMA UnlinkKeeps ==
  ASSUME Replay!LegalInputs, ReplayInv, NEW f \in DOMAIN directory, Replay!Unlink(f)
  PROVE  ReplayInv'
<1>2. DOMAIN directory' = Entries
  BY DEF Replay!Unlink, Entries
<1>3. \A g \in Entries : directory'[g] = IF g = f THEN [directory[f] EXCEPT !.kind = "gone"] ELSE directory[g]
  BY DEF Replay!Unlink, Entries
<1>4. \A g \in Entries :
        /\ directory'[g] \in [name : Replay!Range(NameOrder), kind : {"file", "dir", "gone"}, mtime : Int]
        /\ directory'[g].name = directory[g].name
        /\ directory'[g].kind \in {directory[g].kind, "gone"}
  BY <1>3 DEF ReplayInv, DirectoryInv
<1>5. QED
  BY <1>2, <1>4, DirectoryChangesKeep DEF Replay!Unlink, Replay!Sorting, Replay!LegalInputs

-----------------------------------------------------------------------------
LEMMA ListKeeps ==
  ASSUME ReplayInv, Replay!List
  PROVE  ReplayInv'
<1> DEFINE S == {f \in DOMAIN directory : Replay!there(f)}
<1>1. /\ phase = "walk" /\ phase' = "filter" /\ unfiltered' \in Replay!SetToSeqs(S)
      /\ UNCHANGED <<directory, changes, asked, files, cache, failed, run, ordered, span, readings>>
  BY DEF Replay!List, Replay!Sorting
<1>2. IsFiniteSet(S)
  BY FS_Subset DEF ReplayInv, DirectoryInv, Entries
<1>3. unfiltered' \in Seq(S) /\ Once(unfiltered') /\ \A f \in S : Holds(unfiltered', f)
  <2> HIDE DEF S
  <2>1. QED
    BY <1>1, <1>2, ListingsAreWhole
<1>4. unfiltered' \in Seq(Entries) /\ \A k \in DOMAIN unfiltered' : unfiltered'[k] \in S
  <2>1. S \subseteq Entries
    BY DEF Entries
  <2> HIDE DEF S
  <2>2. QED
    BY <1>3, <2>1
<1>5. files = <<>>
  BY <1>1 DEF ReplayInv, ListedInv
<1>6. DirectoryInv'
  BY <1>1 DEF ReplayInv, DirectoryInv, Entries
<1>7. ListedInv'
  <2>1. \A f \in Entries : directory[f].kind = "file" => Holds(unfiltered', f)
    BY <1>3 DEF Entries, Replay!there
  <2>2. QED
    BY <1>1, <1>3, <1>4, <1>5, <2>1 DEF ListedInv, Entries, Once, Holds
<1>8. SortInv' /\ OrderInv'
  BY <1>1 DEF ReplayInv, SortInv, FirstOfTheFiles, Once, Holds, Entries, OrderInv, Undisturbed
<1>9. ReadingsInv'
  BY <1>1 DEF ReplayInv, ReadingsInv
<1>10. StillInv'
  <2>1. changes = 0 => readings = <<>> /\ DOMAIN cache = {} /\ ~failed
    BY <1>1 DEF ReplayInv, ReadingsInv, SortInv
  <2>2. \A k \in DOMAIN unfiltered' : Replay!there(unfiltered'[k])
    BY <1>4
  <2> HIDE DEF S
  <2>3. QED
    BY <1>1, <1>5, <2>1, <2>2 DEF StillInv, Replay!there
<1>11. QED
  BY <1>6, <1>7, <1>8, <1>9, <1>10 DEF ReplayInv

LEMMA FilterKeeps ==
  ASSUME ReplayInv, Replay!Filter
  PROVE  ReplayInv'
<1> DEFINE f == Head(unfiltered)
<1>1. /\ phase = "filter" /\ phase' = phase /\ unfiltered # <<>> /\ unfiltered' = Tail(unfiltered)
      /\ files' = IF directory[f].kind = "file" THEN Append(files, f) ELSE files
      /\ UNCHANGED <<directory, changes, asked, cache, failed, run, ordered, span, readings>>
  BY DEF Replay!Filter, Replay!Sorting
<1>2. unfiltered \in Seq(Entries) /\ files \in Seq(Entries)
  BY DEF ReplayInv, ListedInv
<1> DEFINE n == Len(unfiltered)
<1>3. n \in Nat /\ n > 0 /\ DOMAIN unfiltered = 1..n /\ f = unfiltered[1] /\ f \in Entries
  BY <1>1, <1>2
<1>4. /\ unfiltered' \in Seq(Entries) /\ DOMAIN unfiltered' = 1..(n - 1)
      /\ \A k \in 1..(n - 1) : unfiltered'[k] = unfiltered[k + 1]
  BY <1>1, <1>2, <1>3
<1> HIDE DEF f, n
<1>5. \A k, l \in 1..n : unfiltered[k] = unfiltered[l] => k = l
  BY <1>3 DEF ReplayInv, ListedInv, Once
<1>6. \A k \in 1..(n - 1) : k + 1 \in 1..n /\ k + 1 # 1
  BY <1>3
<1>7. Once(unfiltered') /\ ~Holds(unfiltered', f)
  <2>1. \A k, l \in 1..(n - 1) : k + 1 = l + 1 => k = l
    BY <1>3
  <2>2. \A k, l \in 1..(n - 1) : unfiltered'[k] = unfiltered'[l] => k = l
    BY <1>4, <1>5, <1>6, <2>1
  <2>3. 1 \in 1..n
    BY <1>3
  <2>4. \A k \in 1..(n - 1) : unfiltered'[k] # f
    BY <1>3, <1>4, <1>5, <1>6, <2>3
  <2>5. QED
    BY <1>4, <2>2, <2>4 DEF Once, Holds
<1>8. \A g : Holds(unfiltered, g) <=> g = f \/ Holds(unfiltered', g)
  <2>1. ASSUME NEW g, Holds(unfiltered, g) PROVE g = f \/ Holds(unfiltered', g)
    <3>1. PICK k \in 1..n : unfiltered[k] = g
      BY <1>3, <2>1 DEF Holds
    <3>2. CASE k = 1
      BY <1>3, <3>1, <3>2
    <3>3. CASE k # 1
      <4>1. k - 1 \in 1..(n - 1) /\ (k - 1) + 1 = k
        BY <1>3, <3>3
      <4>2. unfiltered'[k - 1] = g
        BY <1>4, <3>1, <4>1
      <4>3. QED
        BY <1>4, <4>1, <4>2 DEF Holds
    <3>4. QED
      BY <3>2, <3>3
  <2>2. ASSUME NEW g, Holds(unfiltered', g) PROVE Holds(unfiltered, g)
    BY <1>3, <1>4, <1>6, <2>2 DEF Holds
  <2>3. Holds(unfiltered, f)
    <3>1. 1 \in 1..n
      BY <1>3
    <3>2. QED
      BY <1>3, <3>1 DEF Holds
  <2>4. QED
    BY <2>1, <2>2, <2>3
<1>9. /\ files' \in Seq(Entries) /\ Once(files')
      /\ \A g : Holds(files', g) <=> Holds(files, g) \/ (g = f /\ directory[f].kind = "file")
  <2>1. Once(files) /\ ~Holds(files, f)
    BY <1>3, <1>8 DEF ReplayInv, ListedInv, Holds
  <2>2. CASE directory[f].kind # "file"
    BY <1>1, <1>2, <2>1, <2>2 DEF f
  <2>3. CASE directory[f].kind = "file"
    <3>1. files' = Append(files, f)
      BY <1>1, <2>3 DEF f
    <3>2. /\ Len(files) \in Nat /\ DOMAIN files = 1..Len(files) /\ files' \in Seq(Entries)
          /\ DOMAIN files' = 1..(Len(files) + 1) /\ files'[Len(files) + 1] = f
          /\ \A k \in 1..Len(files) : files'[k] = files[k]
      BY <1>2, <1>3, <3>1
    <3>3. \A k \in 1..(Len(files) + 1) : k \in 1..Len(files) \/ k = Len(files) + 1
      BY <3>2
    <3>4. \A k \in 1..Len(files) : k \in 1..(Len(files) + 1)
      BY <3>2
    <3>5. Len(files) + 1 \in 1..(Len(files) + 1)
      BY <3>2
    <3>6. Once(files')
      BY <2>1, <3>2, <3>3 DEF Once, Holds
    <3>7. \A g : Holds(files', g) <=> Holds(files, g) \/ g = f
      BY <3>2, <3>3, <3>4, <3>5 DEF Holds
    <3>8. QED
      BY <2>3, <3>2, <3>6, <3>7
  <2>4. QED
    BY <2>2, <2>3
<1>10. DirectoryInv'
  BY <1>1 DEF ReplayInv, DirectoryInv, Entries
<1>11. ListedInv'
  <2>1. \A k \in DOMAIN files' : Holds(files', files'[k])
    BY DEF Holds
  <2>2. \A k \in DOMAIN files' : Holds(files, files'[k]) \/ (files'[k] = f /\ directory[f].kind = "file")
    BY <1>9, <2>1
  <2>3. \A k \in DOMAIN files' : ~Holds(unfiltered', files'[k])
    <3>1. \A g : Holds(files, g) => ~Holds(unfiltered, g)
      BY DEF ReplayInv, ListedInv, Holds
    <3>2. QED
      BY <1>7, <1>8, <2>2, <3>1
  <2>4. \A k \in DOMAIN files' : directory[files'[k]].kind # "dir"
    <3>1. \A g : Holds(files, g) => directory[g].kind # "dir"
      BY DEF ReplayInv, ListedInv, Holds
    <3>2. QED
      BY <2>2, <3>1
  <2>5. \A g \in Entries : directory[g].kind = "file" => Holds(files', g) \/ Holds(unfiltered', g)
    <3>1. \A g \in Entries : directory[g].kind = "file" => Holds(files, g) \/ Holds(unfiltered, g)
      BY <1>1 DEF ReplayInv, ListedInv
    <3>2. QED
      BY <1>8, <1>9, <3>1
  <2>6. phase' = "filter" /\ Entries' = Entries /\ directory' = directory
    BY <1>1 DEF Entries
  <2>7. \A g : (Holds(files, g) <=> Holds(files, g))
    OBVIOUS
  <2>8. /\ files' \in Seq(Entries') /\ unfiltered' \in Seq(Entries')
        /\ Once(files') /\ Once(unfiltered') /\ \A k \in DOMAIN files' : ~Holds(unfiltered', files'[k])
        /\ \A g \in Entries' : directory'[g].kind = "file" => Holds(files', g) \/ Holds(unfiltered', g)
        /\ \A k \in DOMAIN files' : directory'[files'[k]].kind # "dir"
    BY <1>4, <1>7, <1>9, <2>3, <2>4, <2>5, <2>6
  <2>9. QED
    BY <2>6, <2>8 DEF ListedInv, Once, Holds
<1>12. /\ SortInv'
       /\ OrderInv'
  <2>1. /\ ordered = <<>> /\ run = None /\ DOMAIN cache = {} /\ ~failed
    BY <1>1 DEF ReplayInv, SortInv
  <2>2. FirstOfTheFiles(ordered)'
    <3>1. Len(files') \in Nat
      BY <1>9
    <3>2. QED
      BY <1>1, <2>1, <3>1 DEF FirstOfTheFiles, Once
  <2>3. DOMAIN cache' = {} /\ failed' \in BOOLEAN /\ phase' = "filter" /\ ~failed'
    BY <1>1, <2>1 DEF ReplayInv, SortInv
  <2>4. SortInv'
    BY <1>1, <2>1, <2>2, <2>3 DEF SortInv
  <2>5. OrderInv'
    BY <2>3 DEF OrderInv, Undisturbed
  <2>6. QED
    BY <2>4, <2>5
<1>13. ReadingsInv'
  BY <1>1 DEF ReplayInv, ReadingsInv
<1>14. StillInv'
  <2>1. ASSUME changes = 0, NEW k \in DOMAIN files' PROVE Replay!there(files'[k])
    <3>1. Holds(files', files'[k])
      BY <2>1 DEF Holds
    <3>2. Holds(files, files'[k]) \/ Holds(unfiltered, files'[k])
      BY <1>8, <1>9, <3>1
    <3>3. QED
      BY <2>1, <3>2 DEF ReplayInv, StillInv, Holds
  <2>2. ASSUME changes = 0, NEW k \in DOMAIN unfiltered' PROVE Replay!there(unfiltered'[k])
    <3>1. Holds(unfiltered, unfiltered'[k])
      BY <1>8, <2>2 DEF Holds
    <3>2. QED
      BY <2>2, <3>1 DEF ReplayInv, StillInv, Holds
  <2>3. readings = <<>>
    BY <1>1 DEF ReplayInv, ReadingsInv
  <2>4. QED
    BY <1>1, <2>1, <2>2, <2>3 DEF ReplayInv, StillInv, Replay!there
<1>15. QED
  BY <1>10, <1>11, <1>12, <1>13, <1>14 DEF ReplayInv

LEMMA FilteredKeeps ==
  ASSUME Replay!LegalInputs, ReplayInv, Replay!Filtered
  PROVE  ReplayInv'
<1>1. /\ phase = "filter" /\ unfiltered = <<>>
      /\ UNCHANGED <<directory, changes, asked, unfiltered, files, cache, failed, span, readings>>
  BY DEF Replay!Filtered
<1>2. files \in Seq(Entries) /\ Once(files) /\ Len(files) \in Nat /\ DOMAIN files = 1..Len(files)
  BY DEF ReplayInv, ListedInv
<1>3. asked.sort \in {"date", "name"}
  BY DEF ReplayInv, DirectoryInv, Replay!LegalInputs
<1>4. readings = <<>> /\ ordered = <<>> /\ run = None /\ DOMAIN cache = {} /\ ~failed
  BY <1>1 DEF ReplayInv, ReadingsInv, SortInv
<1>5. CASE asked.sort = "name" \/ Len(files) < 2
  <2>1. phase' = "read" /\ run' = run /\ ordered' = IF asked.sort = "name" THEN Replay!by_name(files) ELSE files
    BY <1>5 DEF Replay!Filtered
  <2>2. /\ ordered' \in Seq(Entries) /\ Len(ordered') = Len(files) /\ Once(ordered')
        /\ \A k \in DOMAIN files : \E i \in DOMAIN files : ordered'[k] = files[i]
        /\ \A i \in DOMAIN files : \E k \in DOMAIN files : ordered'[k] = files[i]
    <3>1. CASE asked.sort = "name"
      BY <1>2, <2>1, <3>1, SortedByName DEF ReplayInv
    <3>2. CASE asked.sort # "name"
      BY <1>2, <2>1, <3>2
    <3>3. QED
      BY <3>1, <3>2
  <2>3. DOMAIN ordered' = DOMAIN files
    BY <1>2, <2>2
  <2>4. FirstOfTheFiles(ordered')
    BY <1>2, <2>2, <2>3 DEF FirstOfTheFiles
  <2>5. FirstOfTheFiles(ordered)'
    BY <1>1, <2>4 DEF FirstOfTheFiles, Entries, Once
  <2>6. SortInv'
    <3>1. DOMAIN cache' = {} /\ failed' \in BOOLEAN /\ run' = None /\ phase' = "read" /\ Len(ordered') = Len(files')
      BY <1>1, <1>4, <2>1, <2>2 DEF ReplayInv, SortInv
    <3>2. QED
      BY <2>5, <3>1 DEF SortInv
  <2>7. OrderInv'
    <3>1. ~(asked.sort = "date" /\ Len(files) > 1)
      BY <1>2, <1>5
    <3>2. QED
      BY <1>1, <3>1 DEF OrderInv, Undisturbed
  <2>8. ReadingsInv'
    BY <1>1, <1>2, <1>4, <2>2 DEF ReadingsInv
  <2>9. DirectoryInv' /\ ListedInv' /\ StillInv'
    BY <1>1, <1>4, <2>1 DEF ReplayInv, DirectoryInv, ListedInv, StillInv, Entries, Once, Holds, Replay!there
  <2>10. QED
    BY <2>6, <2>7, <2>8, <2>9 DEF ReplayInv
<1>6. CASE ~(asked.sort = "name" \/ Len(files) < 2)
  <2>1. phase' = "sort" /\ run' = "begun" /\ ordered' = <<Head(files)>>
    BY <1>6 DEF Replay!Filtered
  <2>2. Len(files) > 1 /\ asked.sort = "date" /\ files # <<>>
    BY <1>2, <1>3, <1>6
  <2>3. /\ ordered' \in Seq(Entries) /\ Len(ordered') = 1 /\ DOMAIN ordered' = {1} /\ ordered'[1] = files[1]
    BY <1>2, <2>1, <2>2
  <2>4. FirstOfTheFiles(ordered)'
    BY <1>1, <1>2, <2>2, <2>3 DEF FirstOfTheFiles, Entries, Once
  <2>5. SortInv'
    <3>1. /\ DOMAIN cache' = {} /\ failed' \in BOOLEAN /\ run' = "begun" /\ phase' = "sort" /\ Len(files') > 1
          /\ asked'.sort = "date" /\ Len(ordered') > 0
      BY <1>1, <1>4, <2>1, <2>2, <2>3 DEF ReplayInv, SortInv
    <3>2. QED
      BY <2>4, <3>1 DEF SortInv
  <2>6. OrderInv'
    BY <1>1, <1>4, <2>1, <2>3 DEF OrderInv
  <2>7. ReadingsInv'
    BY <1>1, <1>4, <2>3 DEF ReadingsInv
  <2>8. DirectoryInv' /\ ListedInv' /\ StillInv'
    BY <1>1, <1>4, <2>1 DEF ReplayInv, DirectoryInv, ListedInv, StillInv, Entries, Once, Holds, Replay!there
  <2>9. QED
    BY <2>5, <2>6, <2>7, <2>8 DEF ReplayInv
<1>7. QED
  BY <1>5, <1>6

-----------------------------------------------------------------------------
\* A step of the sort leaves all but its order as it was.
LEMMA SortStepKeeps ==
  ASSUME ReplayInv, phase = "sort", UNCHANGED <<directory, changes, asked, unfiltered, files, readings, phase>>,
         NEW f, NEW g, Holds(files, f), Holds(files, g), Replay!Stats(<<f, g>>),
         FirstOfTheFiles(ordered'), Len(ordered') > 0, run' \in {"up", "down", "insert"},
         run' = "insert" => span'[1] \in Int /\ span'[2] \in Int /\ 0 <= span'[1] /\ span'[1] < span'[2] /\ span'[2] <= Len(ordered')
  PROVE  DirectoryInv' /\ ListedInv' /\ SortInv' /\ ReadingsInv' /\ StillInv'
<1>1. DirectoryInv' /\ ListedInv'
  BY DEF ReplayInv, DirectoryInv, ListedInv, Entries, Once, Holds
<1>2. /\ failed' \in BOOLEAN
      /\ \A h \in DOMAIN cache' : cache'[h] \in Int /\ Holds(files, h)
      /\ changes = 0 => ~failed' /\ \A h \in DOMAIN cache' : cache'[h] = directory[h].mtime
  BY StatsAreOfFiles DEF ReplayInv
<1>3. FirstOfTheFiles(ordered)'
  BY DEF FirstOfTheFiles, Once, Entries
<1>4. asked.sort = "date" /\ Len(files) > 1
  BY DEF ReplayInv, SortInv
<1>5. SortInv'
  <2>1. \A h \in DOMAIN cache' : cache'[h] \in Int /\ Holds(files, h)'
    BY <1>2 DEF Holds
  <2>2. QED
    BY <1>2, <1>3, <1>4, <2>1 DEF SortInv
<1>6. readings = <<>>
  BY DEF ReplayInv, ReadingsInv
<1>7. ReadingsInv'
  BY <1>6, <1>3 DEF ReadingsInv, FirstOfTheFiles
<1>8. StillInv'
  BY <1>2, <1>6 DEF ReplayInv, StillInv, Replay!there
<1>9. QED
  BY <1>1, <1>5, <1>7, <1>8

\* The next file of the list and those the sort has are files of the directory.
LEMMA NextIsAFile ==
  ASSUME ListedInv, SortInv, Len(ordered) < Len(files)
  PROVE  /\ Len(ordered) + 1 \in DOMAIN files /\ Replay!Next1 = files[Len(ordered) + 1]
         /\ Replay!Next1 \in Entries /\ Holds(files, Replay!Next1)
         /\ \A k \in DOMAIN ordered : Holds(files, ordered[k])
         /\ \A i \in DOMAIN ordered : i \in DOMAIN files /\ Holds(files, files[i])
<1>1. /\ Len(ordered) \in Nat /\ DOMAIN ordered = 1..Len(ordered)
      /\ Len(files) \in Nat /\ DOMAIN files = 1..Len(files)
      /\ \A k \in DOMAIN files : files[k] \in Entries
  BY SortsOfFiles
<1>2. Len(ordered) + 1 \in DOMAIN files /\ \A i \in DOMAIN ordered : i \in DOMAIN files
  BY <1>1
<1>3. \A k \in DOMAIN ordered : \E i \in DOMAIN ordered : ordered[k] = files[i]
  BY DEF SortInv, FirstOfTheFiles
<1>4. QED
  BY <1>1, <1>2, <1>3 DEF Replay!Next1, Holds

\* Files the sort has compared stay in the order it found.
LEMMA OrderStays ==
  ASSUME UNCHANGED <<files, ordered>>, \A h \in DOMAIN cache : h \in DOMAIN cache' /\ cache'[h] = cache[h],
         \A k \in DOMAIN ordered : ordered[k] \in DOMAIN cache,
         \A k, l \in DOMAIN ordered : k < l => ComesFirst(ordered[k], ordered[l])
  PROVE  /\ \A k, l \in DOMAIN ordered' : k < l => ComesFirst(ordered[k], ordered[l])'
         /\ \A k \in DOMAIN ordered' : ordered'[k] \in DOMAIN cache'
<1>1. ASSUME NEW k \in DOMAIN ordered', NEW l \in DOMAIN ordered', k < l
      PROVE  ComesFirst(ordered[k], ordered[l])'
  <2>1. ComesFirst(ordered[k], ordered[l]) /\ ordered[k] \in DOMAIN cache /\ ordered[l] \in DOMAIN cache
    BY <1>1
  <2>2. cache'[ordered[k]] = cache[ordered[k]] /\ cache'[ordered[l]] = cache[ordered[l]]
    BY <2>1
  <2>3. QED
    BY <2>1, <2>2 DEF ComesFirst
<1>2. QED
  BY <1>1

LEMMA CountRunKeeps ==
  ASSUME ReplayInv, Replay!CountRun
  PROVE  ReplayInv'
<1> DEFINE m == Len(ordered)
           last == files[m]
           next == Replay!Next1
           less == Replay!compare(<<next, last>>) = -1
           taken == run = "begun" \/ ((run = "down") = less)
<1>1. /\ phase = "sort" /\ run \in {"begun", "up", "down"} /\ m < Len(files)
      /\ Replay!Stats(<<next, last>>)
      /\ UNCHANGED <<directory, changes, asked, unfiltered, files, readings, phase>>
      /\ taken => ordered' = (IF less THEN <<next>> \o ordered ELSE Append(ordered, next)) /\ run' = IF less THEN "down" ELSE "up"
      /\ ~taken => ordered' = ordered /\ run' = "insert" /\ span' = <<0, m>>
  BY DEF Replay!CountRun
<1>2. less \in BOOLEAN /\ taken \in BOOLEAN
  OBVIOUS
<1>3. ListedInv /\ SortInv /\ OrderInv
  BY DEF ReplayInv
<1>4. m \in Nat /\ DOMAIN ordered = 1..m /\ m > 0 /\ m \in DOMAIN ordered /\ ordered \in Seq(Entries)
  BY <1>1, <1>3, SortsOfFiles DEF SortInv, FirstOfTheFiles
<1>5. /\ next \in Entries /\ next = files[m + 1] /\ Holds(files, next) /\ Holds(files, last)
  BY <1>1, <1>3, <1>4, NextIsAFile
<1>6. asked.sort = "date" /\ Len(files) > 1
  BY <1>1, <1>3 DEF SortInv
<1>7. /\ \A h \in DOMAIN cache : h \in DOMAIN cache' /\ cache'[h] = cache[h]
      /\ failed' <=> failed \/ ~(next \in DOMAIN cache' /\ last \in DOMAIN cache')
      /\ next \in DOMAIN cache' /\ last \in DOMAIN cache' => (less <=> ~(cache'[next] > cache'[last]) /\ cache'[next] < cache'[last])
  <2> HIDE DEF next, last
  <2>1. QED
    BY <1>1, Asking DEF less
<1>8. \A h \in DOMAIN cache' : cache'[h] \in Int
  <2> HIDE DEF next, last
  <2>1. QED
    BY <1>1, <1>5, StatsAreOfFiles DEF ReplayInv
<1>9. ASSUME ~failed'
      PROVE  /\ ~failed /\ Undisturbed
             /\ next \in DOMAIN cache' /\ last \in DOMAIN cache' /\ cache'[next] \in Int /\ cache'[last] \in Int
             /\ less => cache'[next] < cache'[last]
             /\ ~less => cache'[last] <= cache'[next]
  <2>1. ~failed /\ next \in DOMAIN cache' /\ last \in DOMAIN cache'
    BY <1>7, <1>9
  <2>2. cache'[next] \in Int /\ cache'[last] \in Int
    BY <1>8, <2>1
  <2> HIDE DEF less, next, last
  <2>3. (less => cache'[next] < cache'[last]) /\ (~less => cache'[last] <= cache'[next])
    BY <1>7, <2>1, <2>2
  <2>4. QED
    BY <1>1, <1>6, <2>1, <2>2, <2>3 DEF Undisturbed
<1> HIDE DEF less, next, last
<1>10. CASE taken
  <2> DEFINE a == IF less THEN 0 ELSE m
  <2>1. a \in 0..m /\ ordered' \in Seq(Entries) /\ Widens(ordered', ordered, a, next) /\ run' = IF less THEN "down" ELSE "up"
    <3>1. ordered' = (IF less THEN <<next>> \o ordered ELSE Append(ordered, next)) /\ run' = IF less THEN "down" ELSE "up"
      BY <1>1, <1>10
    <3>2. <<next>> \o ordered \in Seq(Entries) /\ Widens(<<next>> \o ordered, ordered, 0, next)
      BY <1>4, <1>5, Prepending
    <3>3. Append(ordered, next) \in Seq(Entries) /\ Widens(Append(ordered, next), ordered, m, next)
      BY <1>4, <1>5, Appending
    <3>4. CASE less
      BY <1>4, <3>1, <3>2, <3>4
    <3>5. CASE ~less
      BY <1>4, <3>1, <3>3, <3>5
    <3>6. QED
      BY <3>4, <3>5
  <2> HIDE DEF a, taken
  <2>2. FirstOfTheFiles(ordered') /\ Len(ordered') = m + 1 /\ DOMAIN ordered' = 1..(m + 1)
    BY <1>1, <1>3, <2>1, TakingOneIn DEF Widens, next
  <2>3. DirectoryInv' /\ ListedInv' /\ SortInv' /\ ReadingsInv' /\ StillInv'
    <3>1. Len(ordered') > 0
      BY <1>4, <2>2
    <3>2. QED
      BY <1>1, <1>5, <2>1, <2>2, <3>1, SortStepKeeps
  <2>4. ASSUME ~failed'
        PROVE  /\ \A k \in DOMAIN ordered : ordered[k] \in DOMAIN cache'
               /\ \A k \in DOMAIN ordered : less => cache'[next] < cache'[ordered[k]]
               /\ \A k \in DOMAIN ordered : ~less => cache'[ordered[k]] <= cache'[next]
    <3>1. ~failed /\ Undisturbed /\ next \in DOMAIN cache' /\ last \in DOMAIN cache' /\ cache'[next] \in Int /\ cache'[last] \in Int
          /\ (less => cache'[next] < cache'[last]) /\ (~less => cache'[last] <= cache'[next])
      BY <1>9, <2>4
    <3>2. CASE run = "begun"
      <4>1. m = 1 /\ ordered[1] = last
        BY <1>1, <1>3, <3>1, <3>2 DEF OrderInv, last
      <4>2. \A k \in DOMAIN ordered : ordered[k] = last
        BY <1>4, <4>1
      <4>3. QED
        BY <3>1, <4>2
    <3>3. CASE run # "begun"
      <4>1. \A k \in DOMAIN ordered : ordered[k] \in DOMAIN cache /\ cache'[ordered[k]] = cache[ordered[k]] /\ ordered[k] \in DOMAIN cache'
        BY <1>1, <1>3, <1>7, <3>1, <3>3 DEF OrderInv
      <4>2. \A k \in DOMAIN ordered : cache[ordered[k]] \in Int
        BY <1>3, <4>1 DEF SortInv
      <4>3. CASE run = "down"
        <5>1. less
          BY <1>2, <1>10, <4>3 DEF taken
        <5>2. 1 \in DOMAIN ordered /\ ordered[1] = last
          BY <1>1, <1>3, <1>4, <3>1, <4>3 DEF OrderInv, last
        <5>3. \A k \in DOMAIN ordered : k = 1 \/ cache[ordered[1]] < cache[ordered[k]]
          <6>1. \A k \in DOMAIN ordered : k = 1 \/ 1 < k
            BY <1>4
          <6>2. QED
            BY <1>1, <1>3, <3>1, <4>3, <5>2, <6>1 DEF OrderInv
        <5>4. ASSUME NEW k \in DOMAIN ordered PROVE cache'[next] < cache'[ordered[k]]
          <6>1. cache'[next] < cache'[ordered[1]]
            BY <3>1, <5>1, <5>2
          <6>2. cache'[ordered[1]] = cache[ordered[1]] /\ cache'[ordered[k]] = cache[ordered[k]]
                /\ cache[ordered[1]] \in Int /\ cache[ordered[k]] \in Int
            BY <4>1, <4>2, <5>2
          <6>3. k = 1 \/ cache[ordered[1]] < cache[ordered[k]]
            BY <5>3
          <6>4. QED
            BY <3>1, <6>1, <6>2, <6>3
        <5>5. QED
          BY <4>1, <5>1, <5>4
      <4>4. CASE run = "up"
        <5>1. ~less
          BY <1>2, <1>10, <3>3, <4>4 DEF taken
        <5>2. ordered[m] = last
          BY <1>1, <1>3, <3>1, <4>4 DEF OrderInv, last
        <5>3. ASSUME NEW k \in DOMAIN ordered PROVE cache'[ordered[k]] <= cache'[next]
          <6>1. k = m \/ k < m
            BY <1>4
          <6>2. k < m => ComesFirst(ordered[k], ordered[m])
            BY <1>3, <1>4, <3>1 DEF OrderInv
          <6>3. cache'[ordered[m]] = cache[ordered[m]] /\ cache'[ordered[k]] = cache[ordered[k]]
                /\ cache[ordered[m]] \in Int /\ cache[ordered[k]] \in Int
            BY <1>4, <4>1, <4>2
          <6>4. cache[ordered[k]] <= cache[ordered[m]]
            BY <6>1, <6>2, <6>3 DEF ComesFirst
          <6>5. QED
            BY <3>1, <5>1, <5>2, <6>3, <6>4
        <5>4. QED
          BY <4>1, <5>1, <5>3
      <4>5. QED
        BY <1>1, <3>3, <4>3, <4>4
    <3>4. QED
      BY <3>2, <3>3
  <2>5. ASSUME Undisturbed'
        PROVE  /\ \A k, l \in DOMAIN ordered' : k < l => ComesFirst(ordered[k], ordered[l])'
               /\ \A k \in DOMAIN ordered' : ordered'[k] \in DOMAIN cache'
    <3>1. ~failed' /\ ~failed /\ Undisturbed /\ next \in DOMAIN cache'
      BY <1>9, <2>5 DEF Undisturbed
    <3>2. \A k \in DOMAIN ordered : ordered[k] \in DOMAIN cache'
      BY <2>4, <3>1
    <3>3. /\ \A k, l \in DOMAIN ordered : k < l => ComesFirst(ordered[k], ordered[l])
          /\ Len(ordered) > 1 => \A k \in DOMAIN ordered : ordered[k] \in DOMAIN cache
      BY <1>3, <3>1 DEF OrderInv
    <3>4. \A k \in DOMAIN ordered : k <= a => cache'[ordered[k]] <= cache'[next]
      BY <1>4, <2>4, <3>1 DEF a
    <3>5. \A k \in DOMAIN ordered : a < k => cache'[next] < cache'[ordered[k]]
      BY <1>4, <2>4, <3>1 DEF a
    <3>6. QED
      BY <1>1, <1>3, <1>7, <1>8, <2>1, <3>1, <3>2, <3>3, <3>4, <3>5, TakingOneInOrder DEF next
  <2>6. ASSUME Undisturbed', less
        PROVE  /\ ordered'[1] = files[m + 1]
               /\ \A k, l \in DOMAIN ordered' : k < l => cache'[ordered'[k]] < cache'[ordered'[l]]
    <3>1. ~failed' /\ ~failed /\ Undisturbed
      BY <1>9, <2>6 DEF Undisturbed
    <3>2. \A k \in 1..(m + 1) : ordered'[k] = IF k <= 0 THEN ordered[k] ELSE IF k = 0 + 1 THEN next ELSE ordered[k - 1]
      BY <2>1, <2>6 DEF Widens, a
    <3>3. /\ ordered'[1] = next /\ \A k \in 1..(m + 1) : k # 1 => k - 1 \in 1..m /\ ordered'[k] = ordered[k - 1]
      BY <1>4, <3>2
    <3>4. \A k \in DOMAIN ordered : cache'[next] < cache'[ordered[k]]
      BY <2>4, <2>6, <3>1
    <3>5. ASSUME NEW k \in 1..m, NEW l \in 1..m, k < l PROVE cache'[ordered[k]] < cache'[ordered[l]]
      <4>1. m > 1
        BY <1>4, <3>5
      <4>2. run = "down"
        <5>1. run # "begun"
          BY <1>1, <1>3, <3>1, <4>1 DEF OrderInv
        <5>2. QED
          BY <1>1, <1>2, <1>10, <2>6, <5>1 DEF taken
      <4>3. cache[ordered[k]] < cache[ordered[l]] /\ ordered[k] \in DOMAIN cache /\ ordered[l] \in DOMAIN cache
        BY <1>1, <1>3, <1>4, <3>1, <3>5, <4>1, <4>2 DEF OrderInv
      <4>4. QED
        BY <1>7, <4>3
    <3>6. ASSUME NEW k \in 1..(m + 1), NEW l \in 1..(m + 1), k < l PROVE cache'[ordered'[k]] < cache'[ordered'[l]]
      <4>1. l # 1 /\ l - 1 \in 1..m /\ ordered'[l] = ordered[l - 1]
        BY <1>4, <3>3, <3>6
      <4>2. CASE k = 1
        BY <1>4, <3>3, <3>4, <4>1, <4>2
      <4>3. CASE k # 1
        <5>1. k - 1 \in 1..m /\ ordered'[k] = ordered[k - 1] /\ k - 1 < l - 1
          BY <1>4, <3>3, <3>6, <4>3
        <5>2. QED
          BY <3>5, <4>1, <5>1
      <4>4. QED
        BY <4>2, <4>3
    <3>7. QED
      BY <1>5, <2>2, <3>3, <3>6
  <2>7. ASSUME ~less PROVE ordered'[m + 1] = files[m + 1]
    BY <1>4, <1>5, <2>1, <2>7 DEF Widens, a
  <2>8. OrderInv'
    <3>1. ASSUME Undisturbed'
          PROVE  /\ Len(ordered)' > 1
                 /\ run' = "down" => ordered'[1] = files'[Len(ordered)'] /\ \A k, l \in DOMAIN ordered' : k < l => cache'[ordered'[k]] < cache'[ordered'[l]]
                 /\ run' = "up" => ordered'[Len(ordered)'] = files'[Len(ordered)']
                 /\ run' \in {"up", "down"}
      BY <1>1, <1>2, <1>4, <2>1, <2>2, <2>6, <2>7, <3>1
    <3>2. QED
      BY <2>5, <3>1 DEF OrderInv
  <2>9. QED
    BY <2>3, <2>8 DEF ReplayInv
<1>11. CASE ~taken
  <2>1. ordered' = ordered /\ run' = "insert" /\ span' = <<0, m>>
    BY <1>1, <1>11
  <2> HIDE DEF taken
  <2>2. DirectoryInv' /\ ListedInv' /\ SortInv' /\ ReadingsInv' /\ StillInv'
    BY <1>1, <1>3, <1>4, <1>5, <2>1, SortStepKeeps DEF SortInv
  <2>3. ASSUME Undisturbed'
        PROVE  /\ \A k, l \in DOMAIN ordered' : k < l => ComesFirst(ordered[k], ordered[l])'
               /\ \A k \in DOMAIN ordered' : ordered'[k] \in DOMAIN cache'
               /\ m > 1
    <3>1. ~failed' /\ Undisturbed
      BY <1>9, <2>3 DEF Undisturbed
    <3>2. run # "begun"
      BY <1>11 DEF taken
    <3>3. /\ \A k, l \in DOMAIN ordered : k < l => ComesFirst(ordered[k], ordered[l])
          /\ m > 1 /\ \A k \in DOMAIN ordered : ordered[k] \in DOMAIN cache
      BY <1>1, <1>3, <3>1, <3>2 DEF OrderInv
    <3>4. QED
      BY <1>1, <1>7, <2>1, <3>3, OrderStays
  <2>4. OrderInv'
    <3>1. \A k \in DOMAIN ordered' : ~(k <= span'[1]) /\ ~(span'[2] < k)
      BY <1>4, <2>1
    <3>2. QED
      BY <1>4, <2>1, <2>3, <3>1 DEF OrderInv
  <2>5. QED
    BY <2>2, <2>4 DEF ReplayInv
<1>12. QED
  BY <1>10, <1>11

LEMMA InsertKeeps ==
  ASSUME ReplayInv, Replay!Insert
  PROVE  ReplayInv'
<1> DEFINE m == Len(ordered)
           mid == (span[1] + span[2]) \div 2
           there == ordered[mid + 1]
           next == Replay!Next1
           less == Replay!compare(<<next, there>>) = -1
           low == IF less THEN span[1] ELSE mid + 1
           high == IF less THEN mid ELSE span[2]
<1>1. /\ phase = "sort" /\ run = "insert" /\ m < Len(files)
      /\ Replay!Stats(<<next, there>>)
      /\ UNCHANGED <<directory, changes, asked, unfiltered, files, readings, phase, run>>
      /\ low < high => span' = <<low, high>> /\ ordered' = ordered
      /\ ~(low < high) => ordered' = Replay!InsertAt(ordered, low + 1, next) /\ span' = <<0, m + 1>>
  BY DEF Replay!Insert
<1>2. ListedInv /\ SortInv /\ OrderInv
  BY DEF ReplayInv
<1>3. m \in Nat /\ DOMAIN ordered = 1..m /\ m > 0 /\ ordered \in Seq(Entries)
  BY <1>1, <1>2, SortsOfFiles DEF SortInv, FirstOfTheFiles
<1>4. span[1] \in Int /\ span[2] \in Int /\ 0 <= span[1] /\ span[1] < span[2] /\ span[2] <= m
  BY <1>1, <1>2 DEF SortInv
<1>5. mid \in Int /\ span[1] <= mid /\ mid < span[2] /\ mid + 1 \in DOMAIN ordered
  BY <1>3, <1>4
<1>6. asked.sort = "date" /\ Len(files) > 1
  BY <1>1, <1>2 DEF SortInv
<1> HIDE DEF mid
<1>7. next \in Entries /\ Holds(files, next) /\ Holds(files, there)
  BY <1>1, <1>2, <1>5, NextIsAFile
<1>8. /\ \A h \in DOMAIN cache : h \in DOMAIN cache' /\ cache'[h] = cache[h]
      /\ failed' <=> failed \/ ~(next \in DOMAIN cache' /\ there \in DOMAIN cache')
      /\ next \in DOMAIN cache' /\ there \in DOMAIN cache' => (less <=> ~(cache'[next] > cache'[there]) /\ cache'[next] < cache'[there])
  <2> HIDE DEF next, there
  <2>1. QED
    BY <1>1, Asking DEF less
<1>9. \A h \in DOMAIN cache' : cache'[h] \in Int
  <2> HIDE DEF next, there
  <2>1. QED
    BY <1>1, <1>7, StatsAreOfFiles DEF ReplayInv
<1>10. low \in 0..m /\ high \in 0..m /\ low <= high
  <2> HIDE DEF less
  <2>1. QED
    BY <1>3, <1>4, <1>5
<1> HIDE DEF less, next, there
<1>11. ASSUME ~failed'
       PROVE  /\ ~failed /\ Undisturbed /\ m > 1
              /\ next \in DOMAIN cache'
              /\ \A k \in DOMAIN ordered : ordered[k] \in DOMAIN cache /\ ordered[k] \in DOMAIN cache'
              /\ \A k, l \in DOMAIN ordered : k < l => ComesFirst(ordered[k], ordered[l])
              /\ \A k \in DOMAIN ordered : k <= low => cache'[ordered[k]] <= cache'[next]
              /\ \A k \in DOMAIN ordered : high < k => cache'[next] < cache'[ordered[k]]
  <2>1. ~failed /\ next \in DOMAIN cache' /\ there \in DOMAIN cache'
    BY <1>8, <1>11
  <2>2. Undisturbed
    BY <1>1, <1>6, <2>1 DEF Undisturbed
  <2>3. /\ m > 1 /\ \A k \in DOMAIN ordered : ordered[k] \in DOMAIN cache
        /\ \A k, l \in DOMAIN ordered : k < l => ComesFirst(ordered[k], ordered[l])
        /\ \A k \in DOMAIN ordered : k <= span[1] => next \in DOMAIN cache /\ cache[ordered[k]] <= cache[next]
        /\ \A k \in DOMAIN ordered : span[2] < k => next \in DOMAIN cache /\ cache[next] < cache[ordered[k]]
    BY <1>1, <1>2, <2>2 DEF OrderInv, next
  <2>4. \A k \in DOMAIN ordered : cache'[ordered[k]] = cache[ordered[k]] /\ ordered[k] \in DOMAIN cache'
    BY <1>8, <2>3
  <2>5. next \in DOMAIN cache => cache'[next] = cache[next]
    BY <1>8
  <2>6. cache'[next] \in Int /\ \A k \in DOMAIN ordered : cache'[ordered[k]] \in Int
    BY <1>9, <2>1, <2>4
  <2>7. \A k, l \in DOMAIN ordered : k <= l => cache'[ordered[k]] <= cache'[ordered[l]]
    <3>1. ASSUME NEW k \in DOMAIN ordered, NEW l \in DOMAIN ordered, k <= l
          PROVE  cache'[ordered[k]] <= cache'[ordered[l]]
      <4>1. k = l \/ k < l
        BY <1>3, <3>1
      <4>2. k < l => ComesFirst(ordered[k], ordered[l])
        BY <2>3
      <4>3. cache'[ordered[k]] = cache[ordered[k]] /\ cache'[ordered[l]] = cache[ordered[l]]
            /\ cache'[ordered[k]] \in Int /\ cache'[ordered[l]] \in Int
        BY <2>4, <2>6
      <4>4. QED
        BY <4>1, <4>2, <4>3 DEF ComesFirst
    <3>2. QED
      BY <3>1
  <2>8. (less => cache'[next] < cache'[there]) /\ (~less => cache'[there] <= cache'[next])
    <3>1. cache'[there] \in Int
      BY <1>9, <2>1
    <3>2. QED
      BY <1>8, <2>1, <2>6, <3>1
  <2>9. ASSUME NEW k \in DOMAIN ordered, k <= low PROVE cache'[ordered[k]] <= cache'[next]
    <3>1. CASE less
      <4>1. next \in DOMAIN cache /\ cache[ordered[k]] <= cache[next]
        BY <2>3, <2>9, <3>1
      <4>2. QED
        BY <2>4, <2>5, <4>1
    <3>2. CASE ~less
      <4>1. k <= mid + 1
        BY <2>9, <3>2
      <4>2. cache'[ordered[k]] <= cache'[ordered[mid + 1]]
        BY <1>5, <2>7, <4>1
      <4>3. cache'[ordered[mid + 1]] <= cache'[next]
        BY <2>8, <3>2 DEF there
      <4>4. QED
        BY <1>5, <2>6, <4>2, <4>3
    <3>3. QED
      BY <3>1, <3>2
  <2>10. ASSUME NEW k \in DOMAIN ordered, high < k PROVE cache'[next] < cache'[ordered[k]]
    <3>1. CASE less
      <4>1. mid + 1 <= k
        BY <1>3, <1>5, <2>10, <3>1
      <4>2. cache'[ordered[mid + 1]] <= cache'[ordered[k]]
        BY <1>5, <2>7, <4>1
      <4>3. cache'[next] < cache'[ordered[mid + 1]]
        BY <2>8, <3>1 DEF there
      <4>4. QED
        BY <1>5, <2>6, <4>2, <4>3
    <3>2. CASE ~less
      <4>1. next \in DOMAIN cache /\ cache[next] < cache[ordered[k]]
        BY <2>3, <2>10, <3>2
      <4>2. QED
        BY <2>4, <2>5, <4>1
    <3>3. QED
      BY <3>1, <3>2
  <2>11. QED
    BY <2>1, <2>2, <2>3, <2>4, <2>9, <2>10
<1>12. CASE low < high
  <2>1. span' = <<low, high>> /\ ordered' = ordered
    BY <1>1, <1>12
  <2> HIDE DEF low, high
  <2>2. span'[1] = low /\ span'[2] = high
    BY <2>1
  <2>3. DirectoryInv' /\ ListedInv' /\ SortInv' /\ ReadingsInv' /\ StillInv'
    <3>1. span'[1] \in Int /\ span'[2] \in Int /\ 0 <= span'[1] /\ span'[1] < span'[2] /\ span'[2] <= Len(ordered')
      BY <1>3, <1>10, <1>12, <2>1, <2>2
    <3>2. FirstOfTheFiles(ordered') /\ Len(ordered') > 0 /\ run' = "insert"
      BY <1>1, <1>2, <1>3, <2>1 DEF SortInv
    <3>3. QED
      BY <1>1, <1>7, <3>1, <3>2, SortStepKeeps
  <2>4. ASSUME Undisturbed'
        PROVE  /\ m > 1
               /\ \A k, l \in DOMAIN ordered' : k < l => ComesFirst(ordered[k], ordered[l])'
               /\ \A k \in DOMAIN ordered' : ordered'[k] \in DOMAIN cache'
               /\ \A k \in DOMAIN ordered' : k <= span'[1] => next \in DOMAIN cache' /\ cache'[ordered'[k]] <= cache'[next]
               /\ \A k \in DOMAIN ordered' : span'[2] < k => next \in DOMAIN cache' /\ cache'[next] < cache'[ordered'[k]]
    <3>1. ~failed'
      BY <2>4 DEF Undisturbed
    <3>2. UNCHANGED <<files, ordered>>
      BY <1>1, <2>1
    <3>3. /\ \A k, l \in DOMAIN ordered' : k < l => ComesFirst(ordered[k], ordered[l])'
          /\ \A k \in DOMAIN ordered' : ordered'[k] \in DOMAIN cache'
      BY <1>8, <1>11, <3>1, <3>2, OrderStays
    <3>4. QED
      BY <1>11, <2>1, <2>2, <3>1, <3>3
  <2>5. next' = next
    BY <1>1, <2>1 DEF next, Replay!Next1
  <2>6. OrderInv'
    BY <1>1, <2>1, <2>4, <2>5 DEF OrderInv, next
  <2>7. QED
    BY <2>3, <2>6 DEF ReplayInv
<1>13. CASE ~(low < high)
  <2>1. ordered' = Replay!InsertAt(ordered, low + 1, next) /\ span' = <<0, m + 1>> /\ low = high
    BY <1>1, <1>10, <1>13
  <2> HIDE DEF low, high
  <2>2. ordered' \in Seq(Entries) /\ Widens(ordered', ordered, low, next)
    BY <1>3, <1>7, <1>10, <2>1, Inserting
  <2>3. FirstOfTheFiles(ordered') /\ Len(ordered') = m + 1 /\ DOMAIN ordered' = 1..(m + 1)
    BY <1>1, <1>2, <1>10, <2>2, TakingOneIn DEF Widens, next
  <2>4. DirectoryInv' /\ ListedInv' /\ SortInv' /\ ReadingsInv' /\ StillInv'
    <3>1. span'[1] \in Int /\ span'[2] \in Int /\ 0 <= span'[1] /\ span'[1] < span'[2] /\ span'[2] <= Len(ordered')
      BY <1>3, <2>1, <2>3
    <3>2. Len(ordered') > 0 /\ run' = "insert"
      BY <1>1, <1>3, <2>3
    <3>3. QED
      BY <1>1, <1>7, <2>3, <3>1, <3>2, SortStepKeeps
  <2>5. ASSUME Undisturbed'
        PROVE  /\ \A k, l \in DOMAIN ordered' : k < l => ComesFirst(ordered[k], ordered[l])'
               /\ \A k \in DOMAIN ordered' : ordered'[k] \in DOMAIN cache'
    <3>1. ~failed'
      BY <2>5 DEF Undisturbed
    <3>2. /\ next \in DOMAIN cache'
          /\ \A k \in DOMAIN ordered : ordered[k] \in DOMAIN cache /\ ordered[k] \in DOMAIN cache'
          /\ \A k, l \in DOMAIN ordered : k < l => ComesFirst(ordered[k], ordered[l])
          /\ \A k \in DOMAIN ordered : k <= low => cache'[ordered[k]] <= cache'[next]
          /\ \A k \in DOMAIN ordered : low < k => cache'[next] < cache'[ordered[k]]
      BY <1>11, <2>1, <3>1
    <3>3. QED
      BY <1>1, <1>2, <1>8, <1>9, <1>10, <2>2, <3>2, TakingOneInOrder DEF next
  <2>6. \A k \in DOMAIN ordered' : ~(k <= span'[1]) /\ ~(span'[2] < k)
    BY <1>3, <2>1, <2>3
  <2>7. OrderInv'
    BY <1>1, <1>3, <2>3, <2>5, <2>6 DEF OrderInv
  <2>8. QED
    BY <2>4, <2>7 DEF ReplayInv
<1>14. QED
  BY <1>12, <1>13

LEMMA SortedKeeps ==
  ASSUME ReplayInv, Replay!Sorted
  PROVE  ReplayInv'
<1>1. /\ phase = "sort" /\ phase' = "read" /\ Len(ordered) = Len(files)
      /\ UNCHANGED <<directory, changes, asked, unfiltered, files, cache, failed, run, ordered, span, readings>>
  BY DEF Replay!Sorted, Replay!Sorting
<1>2. DirectoryInv' /\ ListedInv' /\ StillInv'
  <2>1. DirectoryInv'
    BY <1>1 DEF ReplayInv, DirectoryInv, Entries
  <2>2. ListedInv'
    BY <1>1 DEF ReplayInv, ListedInv, Entries, Once, Holds, Replay!there
  <2>3. ASSUME changes' = 0 PROVE changes = 0
    BY <1>1, <2>3
  <2>4. StillInv'
    BY <1>1 DEF ReplayInv, StillInv, Entries, Holds, Replay!there, Replay!reading, Replay!compat_reading, Replay!names_a_time,
                Replay!refusal, Replay!stem, Replay!last_modified
  <2>5. QED
    BY <2>1, <2>2, <2>4
<1>3. SortInv'
  <2>1. FirstOfTheFiles(ordered)'
    BY <1>1 DEF ReplayInv, SortInv, FirstOfTheFiles, Once, Entries
  <2>2. QED
    BY <1>1, <2>1 DEF ReplayInv, SortInv, Holds
<1>4. OrderInv'
  <2>1. ASSUME Undisturbed' PROVE Undisturbed
    BY <1>1, <2>1 DEF Undisturbed
  <2>2. QED
    BY <1>1, <2>1 DEF ReplayInv, OrderInv, ComesFirst
<1>5. ReadingsInv'
  BY <1>1 DEF ReplayInv, ReadingsInv, Readings, Entries
<1>6. QED
  BY <1>2, <1>3, <1>4, <1>5 DEF ReplayInv

\* What the clock says of a file, by each of its ways.
LEMMA ReadingsAreSound ==
  ASSUME Replay!LegalInputs, DirectoryInv, NEW f \in Entries
  PROVE  /\ Replay!reading(f) \in Readings /\ Replay!reading(f).file = f /\ ReadingHolds(Replay!reading(f))
         /\ Replay!reading(f).source # "skipped" /\ Replay!reading(f).millis \in Int
<1> DEFINE r == Replay!reading(f)
           c == Replay!compat_reading(f)
<1>1. asked.sort \in {"date", "name"} /\ asked.at \in Int \cup {None} /\ None \notin Int /\ NOW \in Int
      /\ \A s \in DOMAIN Instant : Instant[s] \in Int
  BY DEF Replay!LegalInputs, DirectoryInv
<1>2. Replay!last_modified(f) \in Int
  BY DEF DirectoryInv, Replay!last_modified
<1>3. Replay!refusal(f) \in {None, "name_too_short", "unparsable"}
  BY DEF Replay!refusal
<1>4. CASE asked.at # None
  <2>1. r = [file |-> f, millis |-> asked.at, source |-> "fixed", fallback_reason |-> None]
    BY <1>4 DEF Replay!reading
  <2> HIDE DEF r
  <2>2. r.file = f /\ r.millis = asked.at /\ r.source = "fixed" /\ r \in Readings
    BY <1>1, <1>4, <2>1 DEF Readings
  <2>3. QED
    BY <1>1, <1>4, <2>2 DEF ReadingHolds, r
<1>5. CASE asked.at = None /\ ~asked.directory_replay
  <2>1. r = [file |-> f, millis |-> NOW, source |-> "now", fallback_reason |-> None]
    BY <1>5 DEF Replay!reading
  <2> HIDE DEF r
  <2>2. r.file = f /\ r.millis = NOW /\ r.source = "now" /\ r \in Readings
    BY <1>1, <2>1 DEF Readings
  <2>3. QED
    BY <1>1, <1>5, <2>2 DEF ReadingHolds, r
<1>6. CASE asked.at = None /\ asked.directory_replay /\ Replay!names_a_time(f)
  <2>1. r = [file |-> f, millis |-> Instant[Replay!stem(f)], source |-> "file_name", fallback_reason |-> None]
    BY <1>6 DEF Replay!reading, Replay!compat_reading
  <2>2. Replay!stem(f) \in DOMAIN Instant \/ Replay!refusal(f) = "unparsable" \/ Replay!refusal(f) = "name_too_short"
    BY DEF Replay!refusal
  <2>3. asked.sort = "name" /\ Replay!refusal(f) \notin {"name_too_short", "unparsable"}
    BY <1>6 DEF Replay!names_a_time, Replay!LegalInputs
  <2> HIDE DEF r
  <2>4. r.file = f /\ r.millis = Instant[Replay!stem(f)] /\ r.source = "file_name" /\ r.fallback_reason = None
    BY <2>1
  <2>5. Instant[Replay!stem(f)] \in Int
    BY <1>1, <2>2, <2>3
  <2>6. r \in Readings
    BY <2>1, <2>5 DEF Readings
  <2>7. QED
    BY <1>1, <1>6, <2>4, <2>5, <2>6 DEF ReadingHolds, r
<1>7. CASE asked.at = None /\ asked.directory_replay /\ ~Replay!names_a_time(f)
  <2> DEFINE reason == IF asked.sort = "name" THEN Replay!refusal(f) ELSE None
  <2>1. r = [file |-> f, millis |-> Replay!last_modified(f), source |-> "last_modified", fallback_reason |-> reason]
    BY <1>7 DEF Replay!reading, Replay!compat_reading
  <2>2. reason # None <=> asked.sort = "name"
    BY <1>7 DEF Replay!names_a_time
  <2>3. reason \in {None, "name_too_short", "unparsable"}
    BY <1>3
  <2> HIDE DEF r, reason
  <2>4. r.file = f /\ r.millis = Replay!last_modified(f) /\ r.source = "last_modified" /\ r.fallback_reason = reason
    BY <2>1
  <2>5. r \in Readings
    BY <1>2, <2>1, <2>3 DEF Readings
  <2>6. QED
    BY <1>2, <1>7, <2>2, <2>4, <2>5 DEF ReadingHolds, r
<1>8. QED
  BY <1>4, <1>5, <1>6, <1>7

LEMMA ReadKeeps ==
  ASSUME Replay!LegalInputs, ReplayInv, Replay!Read
  PROVE  ReplayInv'
<1> DEFINE n == Len(readings)
           f == ordered[n + 1]
           r == IF Replay!there(f) THEN Replay!reading(f)
                ELSE [file |-> f, millis |-> None, source |-> "skipped", fallback_reason |-> None]
<1>1. /\ phase = "read" /\ phase' = phase /\ n < Len(ordered) /\ readings' = Append(readings, r)
      /\ UNCHANGED <<directory, changes, asked, unfiltered, files, cache, failed, run, ordered, span>>
  BY DEF Replay!Read, Replay!Sorting
<1>2. readings \in Seq(Readings) /\ ordered \in Seq(Entries) /\ DirectoryInv
  BY DEF ReplayInv, ReadingsInv, SortInv, FirstOfTheFiles
<1>3. n \in Nat /\ DOMAIN readings = 1..n /\ n + 1 \in DOMAIN ordered /\ f \in Entries
  BY <1>1, <1>2
<1> HIDE DEF f, r
<1>4. r \in Readings /\ r.file = f /\ ReadingHolds(r)
  <2>1. CASE Replay!there(f)
    <3>1. r = Replay!reading(f)
      BY <2>1 DEF r
    <3>2. QED
      BY <1>2, <1>3, <3>1, ReadingsAreSound
  <2>2. CASE ~Replay!there(f)
    <3>1. r = [file |-> f, millis |-> None, source |-> "skipped", fallback_reason |-> None]
      BY <2>2 DEF r
    <3>2. r \in Readings /\ r.file = f /\ r.source = "skipped"
      BY <1>3, <3>1 DEF Readings
    <3>3. QED
      BY <3>2 DEF ReadingHolds
  <2>3. QED
    BY <2>1, <2>2
<1>5. /\ readings' \in Seq(Readings) /\ Len(readings') = n + 1 /\ DOMAIN readings' = 1..(n + 1)
      /\ readings'[n + 1] = r /\ \A k \in 1..n : readings'[k] = readings[k]
  BY <1>1, <1>2, <1>3, <1>4
<1>6. \A k \in 1..(n + 1) : k \in 1..n \/ k = n + 1
  BY <1>3
<1>7. DirectoryInv' /\ ListedInv'
  BY <1>1 DEF ReplayInv, DirectoryInv, ListedInv, Entries, Once, Holds
<1>8. SortInv'
  <2>1. FirstOfTheFiles(ordered)'
    BY <1>1 DEF ReplayInv, SortInv, FirstOfTheFiles, Once, Entries
  <2>2. QED
    BY <1>1, <2>1 DEF ReplayInv, SortInv, Holds
<1>9. OrderInv'
  BY <1>1 DEF ReplayInv, OrderInv, Undisturbed, ComesFirst, Replay!Next1
<1>10. ReadingsInv'
  <2>1. \A x : ReadingHolds(x)' <=> ReadingHolds(x)
    BY <1>1 DEF ReadingHolds, Replay!stem
  <2>2. \A k \in DOMAIN readings' : readings'[k].file = ordered[k] /\ ReadingHolds(readings'[k])
    BY <1>3, <1>4, <1>5, <1>6 DEF ReplayInv, ReadingsInv, f
  <2>3. \A k \in DOMAIN readings' : ReadingHolds(readings[k])'
    <3>1. ASSUME NEW k \in DOMAIN readings' PROVE ReadingHolds(readings[k])'
      <4>1. ReadingHolds(readings'[k])
        BY <2>2
      <4>2. QED
        BY <1>1, <4>1 DEF ReadingHolds, Replay!stem
    <3>2. QED
      BY <3>1
  <2>4. Len(readings') <= Len(ordered)
    BY <1>1, <1>2, <1>3, <1>5
  <2>5. Readings' = Readings
    BY <1>1 DEF Readings, Entries
  <2>6. QED
    BY <1>1, <1>5, <2>2, <2>3, <2>4, <2>5 DEF ReadingsInv
<1>11. StillInv'
  <2>1. changes = 0 => r = Replay!reading(f)
    <3>1. PICK i \in DOMAIN ordered : f = files[i]
      BY <1>3 DEF ReplayInv, SortInv, FirstOfTheFiles, f
    <3>2. i \in DOMAIN files
      BY <1>2, <3>1, SortsOfFiles DEF ReplayInv
    <3>3. changes = 0 => Replay!there(f)
      BY <3>1, <3>2 DEF ReplayInv, StillInv
    <3>4. QED
      BY <3>3 DEF r
  <2>2. \A g : Replay!reading(g)' = Replay!reading(g)
    BY <1>1 DEF Replay!reading, Replay!compat_reading, Replay!names_a_time, Replay!refusal, Replay!stem, Replay!last_modified
  <2>3. changes = 0 => \A k \in DOMAIN readings' : readings'[k] = Replay!reading(ordered[k])
    BY <1>3, <1>5, <1>6, <2>1 DEF ReplayInv, StillInv, f
  <2>4. changes = 0 => \A k \in DOMAIN readings' : readings'[k] = Replay!reading(ordered[k])'
    BY <1>1, <2>3 DEF Replay!reading, Replay!compat_reading, Replay!names_a_time, Replay!refusal, Replay!stem, Replay!last_modified
  <2>5. QED
    BY <1>1, <2>4 DEF ReplayInv, StillInv, Replay!there
<1>12. QED
  BY <1>7, <1>8, <1>9, <1>10, <1>11 DEF ReplayInv

\* A step that ends the run or does nothing.
LEMMA StandingStillKeeps ==
  ASSUME ReplayInv, phase' \in {phase} \cup {p \in {"done"} : phase = "read"},
         UNCHANGED <<directory, changes, asked, unfiltered, files, cache, failed, run, ordered, span, readings>>
  PROVE  ReplayInv'
<1>1. phase' = phase \/ (phase = "read" /\ phase' = "done")
  OBVIOUS
<1>2. DirectoryInv' /\ ListedInv'
  BY <1>1 DEF ReplayInv, DirectoryInv, ListedInv, Entries, Once, Holds
<1>3. SortInv'
  <2>1. FirstOfTheFiles(ordered)'
    BY DEF ReplayInv, SortInv, FirstOfTheFiles, Once, Entries
  <2>2. QED
    BY <1>1, <2>1 DEF ReplayInv, SortInv, Holds
<1>4. OrderInv'
  <2>1. ASSUME Undisturbed' PROVE Undisturbed
    BY <1>1, <2>1 DEF Undisturbed
  <2>2. QED
    BY <1>1, <2>1 DEF ReplayInv, OrderInv, ComesFirst, Replay!Next1
<1>5. ReadingsInv'
  BY <1>1 DEF ReplayInv, ReadingsInv, Readings, Entries, ReadingHolds, Replay!stem
<1>6. StillInv'
  BY DEF ReplayInv, StillInv, Replay!there, Replay!reading, Replay!compat_reading, Replay!names_a_time,
         Replay!refusal, Replay!stem, Replay!last_modified
<1>7. QED
  BY <1>2, <1>3, <1>4, <1>5, <1>6 DEF ReplayInv

LEMMA ReplayInvariance ==
  ASSUME Replay!LegalInputs PROVE Replay!Spec => []ReplayInv
<1>1. ASSUME Replay!Init PROVE ReplayInv
  BY <1>1, ReplayInit
<1>2. ASSUME ReplayInv, [Replay!Next]_(Replay!vars) PROVE ReplayInv'
  <2>1. ASSUME NEW f \in DOMAIN directory, Replay!Touch(f) \/ Replay!Unlink(f) PROVE ReplayInv'
    BY <1>2, <2>1, TouchKeeps, UnlinkKeeps
  <2>2. CASE Replay!List
    BY <1>2, <2>2, ListKeeps
  <2>3. CASE Replay!Filter
    BY <1>2, <2>3, FilterKeeps
  <2>4. CASE Replay!Filtered
    BY <1>2, <2>4, FilteredKeeps
  <2>5. CASE Replay!CountRun
    BY <1>2, <2>5, CountRunKeeps
  <2>6. CASE Replay!Insert
    BY <1>2, <2>6, InsertKeeps
  <2>7. CASE Replay!Sorted
    BY <1>2, <2>7, SortedKeeps
  <2>8. CASE Replay!Read
    BY <1>2, <2>8, ReadKeeps
  <2>9. CASE Replay!Done
    BY <1>2, <2>9, StandingStillKeeps DEF Replay!Done, Replay!Sorting
  <2>10. CASE UNCHANGED Replay!vars
    BY <1>2, <2>10, StandingStillKeeps DEF Replay!vars
  <2>11. QED
    BY <1>2, <2>1, <2>2, <2>3, <2>4, <2>5, <2>6, <2>7, <2>8, <2>9, <2>10 DEF Replay!Next
<1>3. QED
  BY <1>1, <1>2, PTL DEF Replay!Spec

-----------------------------------------------------------------------------
\* However the directory changes under a replay, its variables hold what the code
\* could hold there (dedupe.py, sources.py).
THEOREM ReplayTypeOK ==
  ASSUME Replay!LegalInputs PROVE Replay!Spec => []Replay!TypeOK
<1>1. ReplayInv => Replay!TypeOK
  BY DEF ReplayInv, DirectoryInv, SortInv, ReadingsInv, Replay!TypeOK, Replay!Range, Holds
<1>2. QED
  BY <1>1, ReplayInvariance, PTL

\* Whatever is written or taken away meanwhile, the sort loses no file and doubles
\* none, by name or by date (dedupe.walk).
THEOREM NoFileIsEverLost ==
  ASSUME Replay!LegalInputs PROVE Replay!Spec => []Replay!NoFileIsLost
<1>1. ASSUME ReplayInv, phase \in {"read", "done"}
      PROVE  /\ Replay!IsInjective(ordered) /\ Replay!Range(ordered) = Replay!Range(files)
             /\ \A f \in DOMAIN directory : directory[f].kind = "file" => f \in Replay!Range(ordered)
             /\ \A f \in Replay!Range(ordered) : directory[f].kind # "dir"
  <2>1. Len(ordered) = Len(files) /\ DOMAIN ordered = DOMAIN files /\ unfiltered = <<>>
    BY <1>1, SortsOfFiles DEF ReplayInv, SortInv, ListedInv
  <2>2. Once(ordered) /\ \A f : Holds(ordered, f) <=> Holds(files, f)
    BY <1>1, <2>1 DEF ReplayInv, SortInv, FirstOfTheFiles, Holds
  <2>3. \A list, f : f \in Replay!Range(list) <=> Holds(list, f)
    BY DEF Replay!Range, Holds
  <2>4. \A f \in DOMAIN directory : directory[f].kind = "file" => Holds(files, f)
    BY <1>1, <2>1 DEF ReplayInv, ListedInv, Entries, Holds
  <2>5. \A f : Holds(files, f) => directory[f].kind # "dir"
    BY <1>1 DEF ReplayInv, ListedInv, Holds
  <2>6. QED
    BY <2>2, <2>3, <2>4, <2>5 DEF Replay!IsInjective, Once
<1>2. ReplayInv => Replay!NoFileIsLost
  BY <1>1 DEF Replay!NoFileIsLost
<1>3. QED
  BY <1>2, ReplayInvariance, PTL

\* Where no stat failed, the files come in the order of one instant each, and those
\* of one instant as they were listed, whatever was written between two comparisons
\* (_compare_by_date_modified).
THEOREM FilesComeInOrder ==
  ASSUME Replay!LegalInputs PROVE Replay!Spec => []Replay!OneInstantEach
<1>1. ASSUME ReplayInv, phase \in {"read", "done"}, asked.sort = "date", Len(files) > 1, ~failed
      PROVE  /\ DOMAIN cache = Replay!Range(files)
             /\ \A k \in 2..Len(ordered) : ComesFirst(ordered[k - 1], ordered[k])
  <2>1. Undisturbed /\ Len(ordered) = Len(files) /\ DOMAIN ordered = DOMAIN files /\ DOMAIN ordered = 1..Len(ordered) /\ Len(ordered) \in Nat
    BY <1>1, SortsOfFiles DEF ReplayInv, SortInv, Undisturbed
  <2>2. \A k \in DOMAIN ordered : ordered[k] \in DOMAIN cache
    BY <1>1, <2>1 DEF ReplayInv, OrderInv
  <2>3. \A f : Holds(files, f) => Holds(ordered, f)
    BY <1>1, <2>1 DEF ReplayInv, SortInv, FirstOfTheFiles, Holds
  <2>4. \A f : f \in DOMAIN cache <=> Holds(files, f)
    <3>1. \A f : f \in DOMAIN cache => Holds(files, f)
      BY <1>1 DEF ReplayInv, SortInv
    <3>2. \A f : Holds(ordered, f) => f \in DOMAIN cache
      BY <2>2 DEF Holds
    <3>3. QED
      BY <2>3, <3>1, <3>2
  <2>5. DOMAIN cache = Replay!Range(files)
    BY <2>4 DEF Replay!Range, Holds
  <2>6. \A k \in 2..Len(ordered) : k - 1 \in DOMAIN ordered /\ k \in DOMAIN ordered /\ k - 1 < k
    BY <2>1
  <2>7. \A k \in 2..Len(ordered) : ComesFirst(ordered[k - 1], ordered[k])
    BY <1>1, <2>1, <2>6 DEF ReplayInv, OrderInv
  <2>8. QED
    BY <2>5, <2>7
<1>2. ReplayInv => Replay!OneInstantEach
  BY <1>1 DEF Replay!OneInstantEach, ComesFirst
<1>3. QED
  BY <1>2, ReplayInvariance, PTL

\* In a directory left alone a replay skips nothing and its clocks by date never run
\* backwards; one stem has one clock, a pinned clock is one clock, and a reading says
\* why the name's instant was not had (clock.py).
THEOREM ClocksFollow ==
  ASSUME Replay!LegalInputs PROVE Replay!Spec => []Replay!ClocksFollowTheFiles
<1>1. ASSUME ReplayInv, NEW j \in DOMAIN readings, NEW k \in DOMAIN readings
      PROVE  LET one == readings[j]
                 two == readings[k]
             IN  /\ changes = 0 => one.source # "skipped"
                 /\ changes = 0 /\ asked.sort = "date" /\ j < k => one.millis <= two.millis
                 /\ one.source = "file_name" /\ two.source = "file_name" /\ Replay!stem(one.file) = Replay!stem(two.file) => one.millis = two.millis
                 /\ one.source # "skipped" /\ asked.at # None => one.millis = asked.at
                 /\ one.source = "last_modified" => (one.fallback_reason # None <=> asked.sort = "name")
  <2>1. ReadingHolds(readings[j]) /\ ReadingHolds(readings[k])
    BY <1>1 DEF ReplayInv, ReadingsInv
  <2>2. /\ j \in DOMAIN ordered /\ k \in DOMAIN ordered /\ ordered[j] \in Entries /\ ordered[k] \in Entries
        /\ Len(ordered) \in Nat /\ DOMAIN ordered = 1..Len(ordered)
    <3>1. ordered \in Seq(Entries) /\ readings \in Seq(Readings) /\ Len(readings) <= Len(ordered)
      BY <1>1 DEF ReplayInv, ReadingsInv, SortInv, FirstOfTheFiles
    <3>2. QED
      BY <3>1
  <2>3. changes = 0 => /\ readings[j] = Replay!reading(ordered[j]) /\ readings[k] = Replay!reading(ordered[k])
    BY <1>1 DEF ReplayInv, StillInv
  <2>4. changes = 0 => readings[j].source # "skipped" /\ readings[j].millis \in Int /\ readings[k].millis \in Int
    BY <1>1, <2>2, <2>3, ReadingsAreSound DEF ReplayInv
  <2>5. ASSUME changes = 0, asked.sort = "date", j < k PROVE readings[j].millis <= readings[k].millis
    <3>1. CASE asked.at # None \/ ~asked.directory_replay
      BY <2>3, <2>4, <2>5, <3>1 DEF Replay!reading
    <3>2. CASE asked.at = None /\ asked.directory_replay
      <4>1. readings[j].millis = directory[ordered[j]].mtime /\ readings[k].millis = directory[ordered[k]].mtime
        BY <2>3, <2>5, <3>2 DEF Replay!reading, Replay!compat_reading, Replay!names_a_time, Replay!last_modified
      <4>2. Len(ordered) > 1 /\ phase \in {"read", "done"}
        <5>1. readings # <<>>
          OBVIOUS
        <5>2. QED
          BY <1>1, <2>2, <2>5, <5>1 DEF ReplayInv, ReadingsInv, DirectoryInv
      <4>3. Len(files) > 1 /\ ~failed
        BY <1>1, <2>5, <4>2 DEF ReplayInv, SortInv, StillInv
      <4>4. Undisturbed
        BY <2>5, <4>2, <4>3 DEF Undisturbed
      <4>5. ComesFirst(ordered[j], ordered[k]) /\ ordered[j] \in DOMAIN cache /\ ordered[k] \in DOMAIN cache
        BY <1>1, <2>2, <2>5, <4>2, <4>4 DEF ReplayInv, OrderInv
      <4>6. cache[ordered[j]] = directory[ordered[j]].mtime /\ cache[ordered[k]] = directory[ordered[k]].mtime
        BY <1>1, <2>5, <4>5 DEF ReplayInv, StillInv
      <4>7. QED
        BY <2>4, <2>5, <4>1, <4>5, <4>6 DEF ComesFirst
    <3>3. QED
      BY <3>1, <3>2
  <2>6. QED
    BY <2>1, <2>4, <2>5 DEF ReadingHolds
<1>2. ReplayInv => Replay!ClocksFollowTheFiles
  BY <1>1 DEF Replay!ClocksFollowTheFiles
<1>3. QED
  BY <1>2, ReplayInvariance, PTL

-----------------------------------------------------------------------------
\* The ids of each walk's rules.
OfTimestamps ==
    {"E001", "E012", "E017", "E018", "E022", "E025", "E048", "E050", "W001", "W007",
     "W008"}
OfDescriptors ==
    {"E003", "E004", "E016", "E020", "E021", "E023", "E024", "E030", "E031", "E032",
     "E033", "E034", "E035", "W006", "W009"}
OfVehicles ==
    {"E026", "E027", "E028", "E029", "E052", "W002", "W004"}
OfStopTimeUpdates ==
    {"E002", "E009", "E036", "E037", "E040", "E041", "E042", "E043", "E044", "E045",
     "E046", "E051"}

WalkOf(id) ==
  IF id \in OfTimestamps THEN "timestamps" ELSE IF id \in OfDescriptors THEN "trip_descriptors"
  ELSE IF id \in OfVehicles THEN "vehicles" ELSE "stop_time_updates"

LEMMA TableOfTimestamps ==
  \A r \in {Upstream!E001, Upstream!E012, Upstream!E017, Upstream!E018, Upstream!E022,
     Upstream!E025, Upstream!E048, Upstream!E050, Upstream!W001, Upstream!W007,
     Upstream!W008} :
    r = [id |-> r.id, walk |-> "timestamps"] /\ r.id \in OfTimestamps
BY
   DEF OfTimestamps, Upstream!Reads, Upstream!occurrences_for, Upstream!timestamps, Upstream!E001, Upstream!E012,
     Upstream!E017, Upstream!E018, Upstream!E022, Upstream!E025, Upstream!E048, Upstream!E050,
     Upstream!W001, Upstream!W007, Upstream!W008

LEMMA TableOfDescriptors ==
  \A r \in {Upstream!E003, Upstream!E004, Upstream!E016, Upstream!E020, Upstream!E021,
     Upstream!E023, Upstream!E024, Upstream!E030, Upstream!E031, Upstream!E032,
     Upstream!E033, Upstream!E034, Upstream!E035, Upstream!W006, Upstream!W009} :
    r = [id |-> r.id, walk |-> "trip_descriptors"] /\ r.id \in OfDescriptors
BY
   DEF OfDescriptors, Upstream!Reads, Upstream!occurrences_for, Upstream!trip_descriptors, Upstream!E003,
     Upstream!E004, Upstream!E016, Upstream!E020, Upstream!E021, Upstream!E023, Upstream!E024,
     Upstream!E030, Upstream!E031, Upstream!E032, Upstream!E033, Upstream!E034, Upstream!E035,
     Upstream!W006, Upstream!W009

LEMMA TableOfVehicles ==
  \A r \in {Upstream!E026, Upstream!E027, Upstream!E028, Upstream!E029, Upstream!E052,
     Upstream!W002, Upstream!W004} :
    r = [id |-> r.id, walk |-> "vehicles"] /\ r.id \in OfVehicles
BY
   DEF OfVehicles, Upstream!Reads, Upstream!occurrences_for, Upstream!vehicles, Upstream!E026, Upstream!E027,
     Upstream!E028, Upstream!E029, Upstream!E052, Upstream!W002, Upstream!W004

LEMMA TableOfStopTimeUpdates ==
  \A r \in {Upstream!E002, Upstream!E009, Upstream!E036, Upstream!E037, Upstream!E040,
     Upstream!E041, Upstream!E042, Upstream!E043, Upstream!E044, Upstream!E045,
     Upstream!E046, Upstream!E051} :
    r = [id |-> r.id, walk |-> "stop_time_updates"] /\ r.id \in OfStopTimeUpdates
BY
   DEF OfStopTimeUpdates, Upstream!Reads, Upstream!occurrences_for, Upstream!stop_time_updates, Upstream!E002,
     Upstream!E009, Upstream!E036, Upstream!E037, Upstream!E040, Upstream!E041, Upstream!E042,
     Upstream!E043, Upstream!E044, Upstream!E045, Upstream!E046, Upstream!E051

\* No two rules of the table have one id, and each is of the walk it reads.
LEMMA TableIsOne ==
  /\ \A r \in Upstream!Shared : r = [id |-> r.id, walk |-> r.walk] /\ r.id \notin Upstream!Alone /\ r.walk \in Upstream!Walks
  /\ \A r, q \in Upstream!Shared : r.id = q.id => r = q
<1>1. ASSUME NEW r \in Upstream!Shared
      PROVE  \/ r = [id |-> r.id, walk |-> "timestamps"] /\ r.id \in OfTimestamps
             \/ r = [id |-> r.id, walk |-> "trip_descriptors"] /\ r.id \in OfDescriptors
             \/ r = [id |-> r.id, walk |-> "vehicles"] /\ r.id \in OfVehicles
             \/ r = [id |-> r.id, walk |-> "stop_time_updates"] /\ r.id \in OfStopTimeUpdates
  BY <1>1, TableOfTimestamps, TableOfDescriptors, TableOfVehicles, TableOfStopTimeUpdates DEF Upstream!Shared
<1>2. OfTimestamps \cap OfDescriptors = {} /\ OfTimestamps \cap OfVehicles = {} /\ OfTimestamps \cap OfStopTimeUpdates = {}
  BY DEF OfTimestamps, OfDescriptors, OfVehicles, OfStopTimeUpdates
<1>3. OfDescriptors \cap OfVehicles = {} /\ OfDescriptors \cap OfStopTimeUpdates = {} /\ OfVehicles \cap OfStopTimeUpdates = {}
  BY DEF OfTimestamps, OfDescriptors, OfVehicles, OfStopTimeUpdates
<1>4. Upstream!Alone \cap (OfTimestamps \cup OfDescriptors \cup OfVehicles \cup OfStopTimeUpdates) = {}
  BY DEF Upstream!Alone, OfTimestamps, OfDescriptors, OfVehicles, OfStopTimeUpdates
<1>5. Upstream!Walks = {"timestamps", "trip_descriptors", "vehicles", "stop_time_updates"}
  BY DEF Upstream!Walks, Upstream!timestamps, Upstream!trip_descriptors, Upstream!vehicles, Upstream!stop_time_updates
<1>6. ASSUME NEW r \in Upstream!Shared
      PROVE  /\ r = [id |-> r.id, walk |-> WalkOf(r.id)] /\ r = [id |-> r.id, walk |-> r.walk]
             /\ r.walk \in {"timestamps", "trip_descriptors", "vehicles", "stop_time_updates"}
             /\ r.id \in OfTimestamps \cup OfDescriptors \cup OfVehicles \cup OfStopTimeUpdates
  <2>1. CASE r = [id |-> r.id, walk |-> "timestamps"] /\ r.id \in OfTimestamps
    BY <2>1 DEF WalkOf
  <2>2. CASE r = [id |-> r.id, walk |-> "trip_descriptors"] /\ r.id \in OfDescriptors
    BY <1>2, <2>2 DEF WalkOf
  <2>3. CASE r = [id |-> r.id, walk |-> "vehicles"] /\ r.id \in OfVehicles
    BY <1>2, <1>3, <2>3 DEF WalkOf
  <2>4. CASE r = [id |-> r.id, walk |-> "stop_time_updates"] /\ r.id \in OfStopTimeUpdates
    BY <1>2, <1>3, <2>4 DEF WalkOf
  <2>5. QED
    BY <1>1, <2>1, <2>2, <2>3, <2>4
<1>7. ASSUME NEW r \in Upstream!Shared, NEW q \in Upstream!Shared, r.id = q.id PROVE r = q
  <2>1. r = [id |-> r.id, walk |-> WalkOf(r.id)] /\ q = [id |-> q.id, walk |-> WalkOf(q.id)]
    BY <1>6
  <2>2. QED
    BY <1>7, <2>1
<1>8. QED
  BY <1>4, <1>5, <1>6, <1>7

\* The rule of an id, and what it reports of a walk's events.
RuleOf(id) == CHOOSE r \in Upstream!Shared : r.id = id
WalksFor(id) == RuleOf(id).walk
HasId(events, id) == {k \in DOMAIN events : events[k].id = id}
Own(id) == Picked(fed.events[WalksFor(id)], HasId(fed.events[WalksFor(id)], id))

LEMMA RuleOfIs ==
  ASSUME NEW r \in Upstream!Shared
  PROVE  RuleOf(r.id) = r /\ WalksFor(r.id) = r.walk
<1>1. RuleOf(r.id) \in Upstream!Shared /\ RuleOf(r.id).id = r.id
  BY DEF RuleOf
<1>2. RuleOf(r.id) = r
  BY <1>1, TableIsOne
<1>3. QED
  BY <1>2 DEF WalksFor

\* What a list has at some of its places are what is at those places.
LEMMA PickedHas ==
  ASSUME NEW S, NEW list \in Seq(S), NEW P \in SUBSET DOMAIN list
  PROVE  /\ Picked(list, P) \in Seq({list[k] : k \in P})
         /\ \A k \in P : \E i \in DOMAIN Picked(list, P) : Picked(list, P)[i] = list[k]
<1> DEFINE f == Ranked(P, Upwards(P))
<1>1. Len(list) \in Nat /\ DOMAIN list = 1..Len(list)
  OBVIOUS
<1>2. Cardinality(P) \in Nat /\ Lists(f, P, Upwards(P))
  BY <1>1, PlacesAreListed
<1>3. Picked(list, P) = [k \in 1..Cardinality(P) |-> list[f[k]]]
  BY DEF Picked
<1> HIDE DEF f
<1>4. \A k \in 1..Cardinality(P) : f[k] \in P
  BY <1>2 DEF Lists
<1>5. Picked(list, P) \in [1..Cardinality(P) -> {list[k] : k \in P}]
  BY <1>3, <1>4
<1>6. ASSUME NEW k \in P PROVE \E i \in DOMAIN Picked(list, P) : Picked(list, P)[i] = list[k]
  <2>1. PICK i \in 1..Cardinality(P) : f[i] = k
    BY <1>2 DEF Lists
  <2>2. QED
    BY <1>3, <2>1
<1>7. QED
  BY <1>2, <1>5, <1>6

LEMMA UpstreamCounts == \A S : Upstream!Cardinality(S) = Cardinality(S)
BY DEF Upstream!Cardinality, Cardinality

LEMMA UpstreamRanks ==
  \A S : Upstream!Ranked(S, Upstream!Upwards(S)) = Ranked(S, Upwards(S))
<1>1. \A S : Upstream!Upwards(S) = Upwards(S)
  BY DEF Upstream!Upwards, Upwards
<1>2. \A i, S, order : Upstream!Ahead(i, S, order) = Ahead(i, S, order)
  BY DEF Upstream!Ahead, Ahead
<1>3. ASSUME NEW S, NEW order PROVE Upstream!Ranked(S, order) = Ranked(S, order)
  BY <1>2, UpstreamCounts DEF Upstream!Ranked, Ranked
<1>4. QED
  BY <1>1, <1>3

LEMMA UpstreamPicks ==
  ASSUME NEW list, NEW P PROVE Upstream!Picked(list, P) = Picked(list, P)
BY UpstreamCounts, UpstreamRanks DEF Upstream!Picked, Picked

\* What reaches every number from the one below it, and nought, is of all numbers.
LEMMA OneByOne ==
  ASSUME NEW S, 0 \in S, \A n \in Nat : n \in S => n + 1 \in S
  PROVE  \A n \in Nat : n \in S
<1> DEFINE Rest == Nat \ S
<1>1. SUFFICES ASSUME Rest # {} PROVE FALSE
  OBVIOUS
<1>2. PICK n \in Rest : \A m \in Rest : ~(<<m, n>> \in OpToRel(<, Nat))
  BY <1>1, NatLessThanWellFounded, WFMin
<1>3. \A m \in Rest : ~(m < n)
  BY <1>2 DEF OpToRel
<1>4. n \in Nat /\ n \notin S
  BY <1>2
<1>5. n # 0
  BY <1>4
<1>6. n - 1 \in Nat /\ (n - 1) + 1 = n /\ n - 1 < n
  BY <1>4, <1>5
<1>7. n - 1 \in S
  BY <1>3, <1>6
<1>8. QED
  BY <1>4, <1>6, <1>7

\* Lists laid end to end hold what they held.
Laid(f, lists, n) == f = [i \in 1..n |-> IF i = 1 THEN lists[i] ELSE f[i - 1] \o lists[i]]

LEMMA LaidEndToEnd ==
  ASSUME NEW S, NEW lists, NEW m \in Nat, DOMAIN lists = 1..m, \A i \in 1..m : lists[i] \in Seq(S)
  PROVE  \A n \in Nat : n <= m => \E f : Laid(f, lists, n) /\ \A i \in 1..n : f[i] \in Seq(S)
<1> DEFINE P(n) == \E f : Laid(f, lists, n) /\ \A i \in 1..n : f[i] \in Seq(S)
           N == {n \in Nat : n <= m => P(n)}
<1>1. 0 \in N
  <2> DEFINE f == [i \in 1..0 |-> {}]
  <2>1. Laid(f, lists, 0)
    BY DEF Laid
  <2>2. QED
    BY <2>1
<1>2. ASSUME NEW n \in Nat, n \in N PROVE n + 1 \in N
  <2>1. SUFFICES ASSUME n + 1 <= m PROVE P(n + 1)
    OBVIOUS
  <2>2. PICK f : Laid(f, lists, n) /\ \A i \in 1..n : f[i] \in Seq(S)
    BY <1>2, <2>1
  <2> DEFINE last == IF n = 0 THEN lists[1] ELSE f[n] \o lists[n + 1]
             g == [i \in 1..n + 1 |-> IF i = n + 1 THEN last ELSE f[i]]
  <2>3. ASSUME NEW i \in 1..n + 1 PROVE g[i] = (IF i = 1 THEN lists[i] ELSE g[i - 1] \o lists[i]) /\ g[i] \in Seq(S)
    <3>1. lists[i] \in Seq(S)
      BY <2>1
    <3>2. CASE i = n + 1 /\ n = 0
      BY <3>1, <3>2
    <3>3. CASE i = n + 1 /\ n # 0
      <4>1. i # 1 /\ i - 1 = n /\ n \in 1..n /\ g[i - 1] = f[n] /\ g[i] = f[n] \o lists[i]
        <5>1. n \in 1..n + 1 /\ n \in 1..n /\ n # n + 1 /\ (n + 1) - 1 = n
          BY <3>3
        <5>2. last = f[n] \o lists[n + 1]
          BY <3>3
        <5> HIDE DEF last
        <5>3. g[n] = f[n] /\ g[n + 1] = last
          BY <5>1
        <5> HIDE DEF g
        <5>4. QED
          BY <3>3, <5>1, <5>2, <5>3
      <4>2. f[n] \o lists[i] \in Seq(S)
        BY <2>2, <3>1, <4>1
      <4> HIDE DEF g
      <4>3. QED
        BY <4>1, <4>2
    <3>4. CASE i # n + 1
      <4>1. i \in 1..n /\ g[i] = f[i] /\ (i # 1 => g[i - 1] = f[i - 1])
        BY <3>4
      <4> HIDE DEF g
      <4>2. f[i] = IF i = 1 THEN lists[i] ELSE f[i - 1] \o lists[i]
        BY <2>2, <4>1 DEF Laid
      <4>3. QED
        BY <2>2, <4>1, <4>2
    <3>5. QED
      BY <3>2, <3>3, <3>4
  <2>4. g = [i \in 1..n + 1 |-> g[i]]
    OBVIOUS
  <2> HIDE DEF g
  <2>5. Laid(g, lists, n + 1)
    BY <2>3, <2>4 DEF Laid
  <2>6. QED
    BY <2>3, <2>5
<1>3. \A n \in Nat : n \in N
  <2> HIDE DEF N
  <2>1. QED
    BY <1>1, <1>2, OneByOne
<1>4. QED
  BY <1>3

LEMMA LaidOneWay ==
  ASSUME NEW lists, NEW n \in Nat, NEW f, NEW g, Laid(f, lists, n), Laid(g, lists, n)
  PROVE  f = g
<1> DEFINE N == {k \in Nat : k \in 1..n => f[k] = g[k]}
<1>1. 0 \in N
  OBVIOUS
<1>2. ASSUME NEW k \in Nat, k \in N PROVE k + 1 \in N
  <2>1. SUFFICES ASSUME k + 1 \in 1..n PROVE f[k + 1] = g[k + 1]
    OBVIOUS
  <2>2. /\ f[k + 1] = IF k + 1 = 1 THEN lists[k + 1] ELSE f[(k + 1) - 1] \o lists[k + 1]
        /\ g[k + 1] = IF k + 1 = 1 THEN lists[k + 1] ELSE g[(k + 1) - 1] \o lists[k + 1]
    BY <2>1 DEF Laid
  <2>3. (k + 1) - 1 = k /\ (k + 1 # 1 => k \in 1..n)
    BY <2>1
  <2>4. QED
    BY <1>2, <2>2, <2>3
<1>3. \A k \in Nat : k \in N
  <2> HIDE DEF N
  <2>1. QED
    BY <1>1, <1>2, OneByOne
<1>4. \A k \in 1..n : f[k] = g[k]
  BY <1>3
<1>5. f = [k \in 1..n |-> f[k]] /\ g = [k \in 1..n |-> g[k]]
  BY DEF Laid
<1>6. QED
  BY <1>4, <1>5

LEMMA FlattenedHolds ==
  ASSUME NEW S, NEW lists, NEW m \in Nat, lists = [i \in 1..m |-> lists[i]], \A i \in 1..m : lists[i] \in Seq(S)
  PROVE  Upstream!FlattenSeq(lists) \in Seq(S)
<1>1. Len(lists) = m /\ DOMAIN lists = 1..m
  OBVIOUS
<1>2. CASE m = 0
  <2>1. Upstream!FlattenSeq(lists) = lists
    BY <1>1, <1>2 DEF Upstream!FlattenSeq
  <2>2. lists = <<>>
    BY <1>1, <1>2
  <2>3. <<>> \in Seq(S)
    OBVIOUS
  <2>4. QED
    BY <2>1, <2>2, <2>3, Zenon
<1>3. CASE m # 0
  <2> DEFINE G == CHOOSE f : Laid(f, lists, m)
  <2>1. PICK f : Laid(f, lists, m) /\ \A i \in 1..m : f[i] \in Seq(S)
    <3>1. m <= m
      OBVIOUS
    <3>2. QED
      BY <1>1, <3>1, LaidEndToEnd
  <2>2. Laid(G, lists, m)
    BY <2>1
  <2>3. G = f
    BY <2>1, <2>2, LaidOneWay
  <2>4. Upstream!FlattenSeq(lists) = G[m]
    BY <1>1, <1>3 DEF Upstream!FlattenSeq, Laid
  <2> HIDE DEF G
  <2>5. m \in 1..m
    BY <1>3
  <2>6. QED
    BY <2>1, <2>3, <2>4, <2>5
<1>4. QED
  BY <1>2, <1>3

-----------------------------------------------------------------------------
\* Which of the registry's rules have spoken, and which are to do.
TodoInv ==
  /\ fed \in Feeds /\ stand \in {"rules", "contract error"}
  /\ \E order \in RuleOrders : \E n \in 0..Len(order) :
       /\ todo \in Seq(Upstream!Range(order)) /\ Len(todo) = Len(order) - n /\ \A k \in 1..Len(todo) : todo[k] = order[n + k]
       /\ Listed(occurrences) /\ Len(occurrences) = n /\ \A o \in 1..n : occurrences[o].rule = order[o]

\* What is kept is what a walk that ran yields, under its name, and no walk ran twice.
KeptInv ==
  /\ \A key \in DOMAIN memo :
       LET walk == memo[key].walk
       IN  /\ walk \in Upstream!Walks /\ walk \in Upstream!Range(ran)
           /\ name[walk] = key /\ memo[key].events = fed.events[walk]
  /\ ran \in Seq(Upstream!Walks)
  /\ \A k \in DOMAIN ran : name[ran[k]] \in DOMAIN memo /\ memo[name[ran[k]]].walk = ran[k]
  /\ \A j, k \in DOMAIN ran : ran[j] = ran[k] => j = k

\* A rule of a walk that ran has reported its own events; the others, no event.
Things == UNION {Upstream!Met(e) : e \in Upstream!Range(fed.entity)}
ReportedInv ==
  \A o \in DOMAIN occurrences :
    LET id == occurrences[o].rule
    IN  \/ id \in Upstream!Alone /\ occurrences[o].found \in Seq(Things)
        \/ id \in {r.id : r \in Upstream!Shared} /\ WalksFor(id) \in Upstream!Range(ran) /\ occurrences[o].found = Own(id)

UpstreamInv == TodoInv /\ KeptInv /\ ReportedInv

LEMMA UpstreamBegins ==
  ASSUME Upstream!LegalInputs, Upstream!Init PROVE UpstreamInv
<1> USE DEF Upstream!Init
<1>1. TodoInv
  <2>1. todo \in RuleOrders /\ todo \in Seq({r.id : r \in Upstream!Shared} \cup Upstream!Alone)
    BY DEF Upstream!LegalInputs
  <2> DEFINE S == {r.id : r \in Upstream!Shared} \cup Upstream!Alone
  <2>2. todo \in Seq(S)
    BY <2>1
  <2> HIDE DEF S
  <2>3. Len(todo) \in Nat /\ todo \in Seq(Upstream!Range(todo)) /\ \A k \in 1..Len(todo) : todo[0 + k] = todo[k]
    BY <2>2 DEF Upstream!Range
  <2>4. Listed(occurrences) /\ Len(occurrences) = 0 /\ 0 \in 0..Len(todo) /\ Len(todo) = Len(todo) - 0
    BY <2>3 DEF Listed
  <2>5. QED
    BY <2>1, <2>3, <2>4 DEF TodoInv
<1>2. KeptInv
  BY DEF KeptInv
<1>3. ReportedInv
  BY DEF ReportedInv
<1>4. QED
  BY <1>1, <1>2, <1>3 DEF UpstreamInv

\* The rule in hand: the next of the registry's.
LEMMA RuleInHand ==
  ASSUME Upstream!LegalInputs, UpstreamInv, todo # <<>>
  PROVE  /\ Upstream!Rule.id = Head(todo)
         /\ Head(todo) \notin Upstream!Alone =>
              /\ Upstream!Rule \in Upstream!Shared /\ Upstream!Rule.walk \in Upstream!Walks
              /\ WalksFor(Head(todo)) = Upstream!Rule.walk
<1>1. PICK order \in RuleOrders : todo \in Seq(Upstream!Range(order))
  BY DEF UpstreamInv, TodoInv
<1> DEFINE S == {r.id : r \in Upstream!Shared} \cup Upstream!Alone
<1>2. order \in Seq(S)
  BY DEF Upstream!LegalInputs
<1>3. Head(todo) \in S
  <2> HIDE DEF S
  <2>1. Head(todo) \in Upstream!Range(order)
    BY <1>1
  <2>2. \A k \in DOMAIN order : order[k] \in S
    BY <1>2
  <2>3. QED
    BY <2>1, <2>2 DEF Upstream!Range
<1>4. CASE Head(todo) \in Upstream!Alone
  BY <1>4 DEF Upstream!Rule
<1>5. CASE Head(todo) \notin Upstream!Alone
  <2>1. PICK r \in Upstream!Shared : r.id = Head(todo)
    BY <1>3, <1>5
  <2>2. Upstream!Rule = RuleOf(Head(todo))
    BY <1>5 DEF Upstream!Rule, RuleOf
  <2>3. Upstream!Rule = r /\ WalksFor(Head(todo)) = r.walk
    BY <2>1, <2>2, RuleOfIs
  <2>4. QED
    BY <1>5, <2>1, <2>3, TableIsOne
<1>6. QED
  BY <1>4, <1>5

\* A rule that has spoken is no longer to do.
LEMMA ReportedKeepsTodo ==
  ASSUME Upstream!LegalInputs, UpstreamInv, todo # <<>>, NEW found, Upstream!Reported(found), fed' = fed, stand' = stand
  PROVE  /\ TodoInv' /\ DOMAIN occurrences' = 1..Len(occurrences) + 1 /\ Len(occurrences) \in Nat
         /\ DOMAIN occurrences = 1..Len(occurrences)
         /\ \A o \in DOMAIN occurrences : occurrences'[o] = occurrences[o]
         /\ occurrences'[Len(occurrences) + 1] = [rule |-> Head(todo), found |-> found]
<1>1. PICK order \in RuleOrders : \E n \in 0..Len(order) :
        /\ todo \in Seq(Upstream!Range(order)) /\ Len(todo) = Len(order) - n /\ \A k \in 1..Len(todo) : todo[k] = order[n + k]
        /\ Listed(occurrences) /\ Len(occurrences) = n /\ \A o \in 1..n : occurrences[o].rule = order[o]
  BY DEF UpstreamInv, TodoInv
<1>2. PICK n \in 0..Len(order) :
        /\ todo \in Seq(Upstream!Range(order)) /\ Len(todo) = Len(order) - n /\ \A k \in 1..Len(todo) : todo[k] = order[n + k]
        /\ Listed(occurrences) /\ Len(occurrences) = n /\ \A o \in 1..n : occurrences[o].rule = order[o]
  BY <1>1
<1> DEFINE x == [rule |-> Head(todo), found |-> found]
<1>3. occurrences' = Append(occurrences, x) /\ todo' = Tail(todo)
  BY RuleInHand DEF Upstream!Reported
<1>4. x.rule = Head(todo)
  OBVIOUS
<1> HIDE DEF x
<1>5. Len(todo) \in Nat \ {0} /\ Len(order) \in Int /\ n \in Nat /\ Head(todo) = order[n + 1]
  <2>1. Len(todo) \in Nat \ {0}
    BY <1>2
  <2>2. Head(todo) = todo[1] /\ 1 \in 1..Len(todo)
    BY <1>2, <2>1
  <2>3. Len(order) \in Int
    <3>1. order \in Seq({r.id : r \in Upstream!Shared} \cup Upstream!Alone)
      BY DEF Upstream!LegalInputs
    <3> DEFINE S == {r.id : r \in Upstream!Shared} \cup Upstream!Alone
    <3> HIDE DEF S
    <3>2. order \in Seq(S)
      BY <3>1 DEF S
    <3>3. QED
      BY <3>2
  <2>4. QED
    BY <1>2, <2>1, <2>2, <2>3
<1>6. /\ Listed(occurrences') /\ DOMAIN occurrences = 1..n /\ Len(occurrences') = n + 1 /\ DOMAIN occurrences' = 1..n + 1
      /\ occurrences'[n + 1] = x /\ \A o \in DOMAIN occurrences : occurrences'[o] = occurrences[o]
  BY <1>2, <1>3, OneMoreListed
<1>7. \A o \in 1..n + 1 : occurrences'[o].rule = order[o]
  BY <1>2, <1>4, <1>5, <1>6
<1>8. /\ todo' \in Seq(Upstream!Range(order)) /\ Len(todo') = Len(order) - (n + 1)
      /\ \A k \in 1..Len(todo') : todo'[k] = order[(n + 1) + k] /\ n + 1 \in 0..Len(order)
  <2> DEFINE S == Upstream!Range(order)
  <2>1. todo \in Seq(S)
    BY <1>2
  <2> HIDE DEF S
  <2>2. Tail(todo) \in Seq(S) /\ Len(Tail(todo)) = Len(todo) - 1 /\ \A k \in 1..Len(todo) - 1 : Tail(todo)[k] = todo[k + 1]
    BY <1>5, <2>1
  <2>3. \A k \in 1..Len(todo) - 1 : k + 1 \in 1..Len(todo) /\ n + (k + 1) = (n + 1) + k
    BY <1>5
  <2>4. n + 1 \in 0..Len(order) /\ Len(todo) - 1 = Len(order) - (n + 1)
    BY <1>2, <1>5
  <2>5. todo' = Tail(todo) /\ Len(todo') = Len(order) - (n + 1)
    BY <1>3, <2>2, <2>4
  <2>6. ASSUME NEW k \in 1..Len(todo')
        PROVE  todo'[k] = order[(n + 1) + k]
    <3>1. k \in 1..Len(todo) - 1
      BY <2>4, <2>5
    <3>2. todo'[k] = todo[k + 1] /\ k + 1 \in 1..Len(todo) /\ n + (k + 1) = (n + 1) + k
      BY <2>2, <2>3, <2>5, <3>1
    <3>3. todo[k + 1] = order[n + (k + 1)]
      BY <1>2, <3>2
    <3> QED
      BY <3>2, <3>3
  <2>7. QED
    BY <2>2, <2>4, <2>5, <2>6 DEF S
<1>9. n + 1 \in 0..Len(order)
  BY <1>2, <1>5
<1>10. TodoInv'
  BY <1>6, <1>7, <1>8, <1>9 DEF UpstreamInv, TodoInv
<1>11. QED
  BY <1>2, <1>5, <1>6, <1>10 DEF x

\* Some of a list's entries are a list of what the list has.
LEMMA SomeOf ==
  ASSUME NEW S, NEW T, NEW list \in Seq(S), NEW P \in SUBSET DOMAIN list, \A k \in DOMAIN list : list[k] \in T
  PROVE  Upstream!Picked(list, P) \in Seq(T)
<1>1. Picked(list, P) \in Seq({list[k] : k \in P})
  BY PickedHas
<1>2. {list[k] : k \in P} \subseteq T
  OBVIOUS
<1> DEFINE V == {list[k] : k \in P}
           q == Picked(list, P)
<1> HIDE DEF V, q
<1>3. q \in Seq(V) /\ V \subseteq T
  BY <1>1, <1>2 DEF V, q
<1>4. q \in Seq(T)
  BY <1>3
<1>5. QED
  BY <1>4, UpstreamPicks DEF q

\* The stops of an entity, and those of its alerts after them.
LEMMA StopsAreMet ==
  ASSUME Upstream!LegalInputs, fed \in Feeds, NEW e \in Upstream!Range(fed.entity)
  PROVE  LET own == Upstream!StopsOf(e)
             all == own \o e.alert_stops
         IN  /\ \E S : own \in Seq(S) /\ all \in Seq(S)
             /\ \A k \in DOMAIN own : own[k] \in Upstream!Met(e)
             /\ \A k \in DOMAIN all : all[k] \in Upstream!Met(e)
             /\ e.halves \in Seq(Upstream!Range(e.halves)) /\ \A k \in DOMAIN e.halves : e.halves[k] \in Upstream!Met(e)
<1> DEFINE A == Upstream!Range(e.stop_time_updates)
           B == Upstream!Range(e.alert_stops)
           S == A \cup B \cup {e.vehicle_stop}
           own == Upstream!StopsOf(e)
           late == e.alert_stops
           all == own \o late
<1>1. e.stop_time_updates \in Seq(A) /\ late \in Seq(B) /\ e.halves \in Seq(Upstream!Range(e.halves))
  BY DEF Upstream!LegalInputs
<1> HIDE DEF A, B, late
<1>2. A \subseteq S /\ B \subseteq S /\ e.vehicle_stop \in S
  OBVIOUS
<1> HIDE DEF S
<1>3. e.stop_time_updates \in Seq(S) /\ late \in Seq(S) /\ <<e.vehicle_stop>> \in Seq(S) /\ <<>> \in Seq(S)
  BY <1>1, <1>2
<1>4. own \in Seq(S)
  BY <1>3 DEF Upstream!StopsOf
<1>5. \A k \in DOMAIN all : all[k] \in Upstream!Met(e)
  BY DEF Upstream!Met, Upstream!Range, late
<1> HIDE DEF own
<1>6. all \in Seq(S) /\ \A k \in DOMAIN own : k \in DOMAIN all /\ all[k] = own[k]
  BY <1>3, <1>4
<1> HIDE DEF all
<1>7. \A k \in DOMAIN e.halves : e.halves[k] \in Upstream!Met(e)
  BY DEF Upstream!Met, Upstream!Range
<1>8. \A k \in DOMAIN own : own[k] \in Upstream!Met(e)
  BY <1>5, <1>6
<1>9. QED
  BY <1>1, <1>4, <1>5, <1>6, <1>7, <1>8 DEF own, all, late

\* What the rules that walk for themselves report are stops and halves.
LEMMA AloneFinds ==
  ASSUME Upstream!LegalInputs, fed \in Feeds
  PROVE  Upstream!E011 \in Seq(Things) /\ Upstream!E015 \in Seq(Things) /\ Upstream!W005 \in Seq(Things)
<1> DEFINE n == Len(fed.entity)
<1>1. n \in Nat /\ DOMAIN fed.entity = 1..n
  <2> DEFINE S == Upstream!Range(fed.entity)
  <2>1. fed.entity \in Seq(S)
    BY DEF Upstream!LegalInputs
  <2> HIDE DEF S
  <2>2. QED
    BY <2>1
<1>2. ASSUME NEW i \in 1..n PROVE fed.entity[i] \in Upstream!Range(fed.entity) /\ Upstream!Met(fed.entity[i]) \subseteq Things
  BY <1>1 DEF Upstream!Range, Things
<1> HIDE DEF n
<1>3. ASSUME NEW lists, lists = [i \in DOMAIN fed.entity |-> lists[i]], \A i \in 1..n : lists[i] \in Seq(Things)
      PROVE  Upstream!FlattenSeq(lists) \in Seq(Things)
  BY <1>1, <1>3, FlattenedHolds
<1>4. Upstream!E011 \in Seq(Things)
  <2> DEFINE stops(i) == Upstream!StopsOf(fed.entity[i]) \o fed.entity[i].alert_stops
             lists == [i \in DOMAIN fed.entity |->
                         Upstream!Picked(stops(i), {k \in DOMAIN stops(i) : stops(i)[k] \notin DOMAIN fed.stops})]
  <2>1. ASSUME NEW i \in 1..n PROVE lists[i] \in Seq(Things)
    <3>1. /\ \E S : stops(i) \in Seq(S)
          /\ \A k \in DOMAIN stops(i) : stops(i)[k] \in Things
      BY <1>2, StopsAreMet
    <3>2. lists[i] = Upstream!Picked(stops(i), {k \in DOMAIN stops(i) : stops(i)[k] \notin DOMAIN fed.stops})
      BY <1>1
    <3> HIDE DEF stops, lists
    <3>3. QED
      BY <3>1, <3>2, SomeOf
  <2>2. Upstream!E011 = Upstream!FlattenSeq(lists)
    BY DEF Upstream!E011
  <2>3. lists = [i \in DOMAIN fed.entity |-> lists[i]]
    OBVIOUS
  <2> HIDE DEF lists
  <2>4. QED
    BY <1>3, <2>1, <2>2, <2>3
<1>5. Upstream!E015 \in Seq(Things)
  <2> DEFINE stops(i) == Upstream!StopsOf(fed.entity[i])
             lists == [i \in DOMAIN fed.entity |->
                         Upstream!Picked(stops(i), {k \in DOMAIN stops(i) : Upstream!_misplaced(stops(i)[k])})]
  <2>1. ASSUME NEW i \in 1..n PROVE lists[i] \in Seq(Things)
    <3>1. /\ \E S : stops(i) \in Seq(S)
          /\ \A k \in DOMAIN stops(i) : stops(i)[k] \in Things
      BY <1>2, StopsAreMet
    <3>2. lists[i] = Upstream!Picked(stops(i), {k \in DOMAIN stops(i) : Upstream!_misplaced(stops(i)[k])})
      BY <1>1
    <3> HIDE DEF stops, lists
    <3>3. QED
      BY <3>1, <3>2, SomeOf
  <2>2. Upstream!E015 = Upstream!FlattenSeq(lists)
    BY DEF Upstream!E015
  <2>3. lists = [i \in DOMAIN fed.entity |-> lists[i]]
    OBVIOUS
  <2> HIDE DEF lists
  <2>4. QED
    BY <1>3, <2>1, <2>2, <2>3
<1>6. Upstream!W005 \in Seq(Things)
  <2> DEFINE halves(i) == fed.entity[i].halves
             lists == [i \in DOMAIN fed.entity |->
                         Upstream!Picked(halves(i), {k \in DOMAIN halves(i) : halves(i)[k].frequency_zero /\ halves(i)[k].vehicle_id = Nothing})]
  <2>1. ASSUME NEW i \in 1..n PROVE lists[i] \in Seq(Things)
    <3>1. /\ \E S : halves(i) \in Seq(S)
          /\ \A k \in DOMAIN halves(i) : halves(i)[k] \in Things
      BY <1>2, StopsAreMet
    <3>2. lists[i] = Upstream!Picked(halves(i), {k \in DOMAIN halves(i) : halves(i)[k].frequency_zero /\ halves(i)[k].vehicle_id = Nothing})
      BY <1>1
    <3> HIDE DEF halves, lists
    <3>3. QED
      BY <3>1, <3>2, SomeOf
  <2>2. Upstream!W005 = Upstream!FlattenSeq(lists)
    BY DEF Upstream!W005
  <2>3. lists = [i \in DOMAIN fed.entity |-> lists[i]]
    OBVIOUS
  <2> HIDE DEF lists
  <2>4. QED
    BY <1>3, <2>1, <2>2, <2>3
<1>7. QED
  BY <1>4, <1>5, <1>6

\* A rule that speaks of its own walk, or of what no walk yields, keeps what is reported.
LEMMA SpokenKeeps ==
  ASSUME Upstream!LegalInputs, UpstreamInv, todo # <<>>, NEW found, Upstream!Reported(found), fed' = fed, stand' = stand,
         Upstream!Range(ran) \subseteq Upstream!Range(ran'),
         \/ Head(todo) \in Upstream!Alone /\ found \in Seq(Things)
         \/ Head(todo) \notin Upstream!Alone /\ WalksFor(Head(todo)) \in Upstream!Range(ran') /\ found = Own(Head(todo))
  PROVE  TodoInv' /\ ReportedInv'
<1> DEFINE n == Len(occurrences)
<1>1. /\ TodoInv' /\ DOMAIN occurrences' = 1..n + 1 /\ n \in Nat /\ DOMAIN occurrences = 1..n
      /\ \A o \in DOMAIN occurrences : occurrences'[o] = occurrences[o]
      /\ occurrences'[n + 1] = [rule |-> Head(todo), found |-> found]
  BY ReportedKeepsTodo
<1>2. Things' = Things /\ \A id : Own(id)' = Own(id)
  BY DEF Things, Own
<1> HIDE DEF n
<1>3. ASSUME NEW o \in DOMAIN occurrences'
      PROVE  LET id == occurrences'[o].rule
             IN  \/ id \in Upstream!Alone /\ occurrences'[o].found \in Seq(Things)
                 \/ id \in {r.id : r \in Upstream!Shared} /\ WalksFor(id) \in Upstream!Range(ran') /\ occurrences'[o].found = Own(id)
  <2>1. CASE o = n + 1
    <3>1. occurrences'[o].rule = Head(todo) /\ occurrences'[o].found = found
      BY <1>1, <2>1
    <3>2. Head(todo) \notin Upstream!Alone => Head(todo) \in {r.id : r \in Upstream!Shared}
      BY RuleInHand
    <3>3. QED
      BY <3>1, <3>2
  <2>2. CASE o # n + 1
    <3>1. o \in DOMAIN occurrences /\ occurrences'[o] = occurrences[o]
      BY <1>1, <2>2
    <3>2. QED
      BY <3>1 DEF UpstreamInv, ReportedInv
  <2>3. QED
    BY <2>1, <2>2
<1>4. ReportedInv'
  BY <1>2, <1>3 DEF ReportedInv
<1>5. QED
  BY <1>1, <1>4

LEMMA CheckAloneKeeps ==
  ASSUME Upstream!LegalInputs, UpstreamInv, Upstream!CheckAlone PROVE UpstreamInv'
<1>1. /\ stand = "rules" /\ todo # <<>> /\ Upstream!Rule.id \in Upstream!Alone /\ fed' = fed /\ stand' = stand
      /\ name' = name /\ memo' = memo /\ ran' = ran
  BY DEF Upstream!CheckAlone
<1> DEFINE found == CASE Upstream!Rule.id = "E011" -> Upstream!E011 [] Upstream!Rule.id = "E015" -> Upstream!E015 [] OTHER -> Upstream!W005
<1>2. Upstream!Reported(found)
  BY DEF Upstream!CheckAlone
<1>3. found \in Seq(Things)
  <2>1. fed \in Feeds
    BY DEF UpstreamInv, TodoInv
  <2>2. Upstream!E011 \in Seq(Things) /\ Upstream!E015 \in Seq(Things) /\ Upstream!W005 \in Seq(Things)
    BY <2>1, AloneFinds
  <2>3. QED
    BY <2>2
<1> HIDE DEF found
<1>4. Head(todo) \in Upstream!Alone
  BY <1>1, RuleInHand
<1>5. TodoInv' /\ ReportedInv'
  BY <1>1, <1>2, <1>3, <1>4, SpokenKeeps
<1>6. KeptInv'
  BY <1>1 DEF UpstreamInv, KeptInv
<1>7. QED
  BY <1>5, <1>6 DEF UpstreamInv

LEMMA CheckKeeps ==
  ASSUME Upstream!LegalInputs, UpstreamInv, Upstream!Check PROVE UpstreamInv'
<1> DEFINE walk == Upstream!Rule.walk
           key == name[walk]
<1>1. stand = "rules" /\ todo # <<>> /\ Upstream!Rule.id \notin Upstream!Alone /\ fed' = fed /\ name' = name
  BY DEF Upstream!Check
<1>2. /\ Upstream!Rule.id = Head(todo) /\ Head(todo) \notin Upstream!Alone
      /\ walk \in Upstream!Walks /\ WalksFor(Head(todo)) = walk
  BY <1>1, RuleInHand
<1>3. \A events : events = fed.events[walk] => Upstream!Mine(events) = Own(Head(todo))
  BY <1>2, UpstreamPicks DEF Upstream!Mine, Own, HasId
<1>4. CASE /\ Upstream!cached(key) /\ memo[key].walk = walk
           /\ Upstream!Reported(Upstream!Mine(memo[key].events)) /\ UNCHANGED <<memo, ran, stand>>
  <2>1. key \in DOMAIN memo /\ memo[key].events = fed.events[walk] /\ walk \in Upstream!Range(ran)
    BY <1>4 DEF Upstream!cached, UpstreamInv, KeptInv
  <2>2. Upstream!Mine(memo[key].events) = Own(Head(todo))
    BY <1>3, <2>1
  <2>3. TodoInv' /\ ReportedInv'
    BY <1>1, <1>2, <1>4, <2>1, <2>2, SpokenKeeps
  <2>4. KeptInv'
    BY <1>1, <1>4 DEF UpstreamInv, KeptInv
  <2>5. QED
    BY <2>3, <2>4 DEF UpstreamInv
<1>5. CASE /\ stand' = "contract error" /\ UNCHANGED <<todo, memo, ran, occurrences>>
  <2>1. TodoInv'
    BY <1>1, <1>5 DEF UpstreamInv, TodoInv
  <2>2. KeptInv'
    BY <1>1, <1>5 DEF UpstreamInv, KeptInv
  <2>3. ReportedInv'
    BY <1>1, <1>5 DEF UpstreamInv, ReportedInv, Things, Own
  <2>4. QED
    BY <2>1, <2>2, <2>3 DEF UpstreamInv
<1>6. CASE /\ ~Upstream!cached(key)
           /\ memo' = [k \in DOMAIN memo \cup {key} |->
                         IF k = key THEN [walk |-> walk, events |-> fed.events[walk]] ELSE memo[k]]
           /\ ran' = Append(ran, walk) /\ Upstream!Reported(Upstream!Mine(fed.events[walk])) /\ stand' = stand
  <2>1. ran \in Seq(Upstream!Walks) /\ \A k \in DOMAIN ran : name[ran[k]] \in DOMAIN memo /\ memo[name[ran[k]]].walk = ran[k]
    BY DEF UpstreamInv, KeptInv
  <2>2. key \notin DOMAIN memo /\ DOMAIN memo' = DOMAIN memo \cup {key}
    BY <1>6 DEF Upstream!cached
  <2>3. memo'[key].walk = walk /\ memo'[key].events = fed.events[walk] /\ \A k \in DOMAIN memo : memo'[k] = memo[k]
    BY <1>6, <2>2
  <2> DEFINE n == Len(ran)
  <2> HIDE DEF walk
  <2>4. n \in Nat /\ DOMAIN ran = 1..n
    BY <2>1
  <2>5. /\ ran' \in Seq(Upstream!Walks) /\ DOMAIN ran' = 1..n + 1
        /\ ran'[n + 1] = walk /\ \A k \in 1..n : ran'[k] = ran[k]
    BY <1>2, <1>6, <2>1
  <2> HIDE DEF n
  <2>6. Upstream!Range(ran') = Upstream!Range(ran) \cup {walk}
    BY <2>4, <2>5 DEF Upstream!Range
  <2>7. TodoInv' /\ ReportedInv'
    <3>1. Upstream!Mine(fed.events[walk]) = Own(Head(todo))
      BY <1>3 DEF walk
    <3>2. QED
      BY <1>1, <1>2, <1>6, <2>6, <3>1, SpokenKeeps DEF walk
  <2>8. \A k \in 1..n : ran[k] # walk
    BY <2>1, <2>2, <2>4
  <2>9. ASSUME NEW k \in DOMAIN memo'
        PROVE  LET w == memo'[k].walk
               IN  w \in Upstream!Walks /\ w \in Upstream!Range(ran') /\ name[w] = k /\ memo'[k].events = fed.events[w]
    <3>1. CASE k = key
      BY <1>2, <2>3, <2>6, <3>1
    <3>2. CASE k # key
      BY <2>2, <2>3, <2>6, <3>2 DEF UpstreamInv, KeptInv
    <3>3. QED
      BY <3>1, <3>2
  <2>10. \A k \in DOMAIN ran' : name[ran'[k]] \in DOMAIN memo' /\ memo'[name[ran'[k]]].walk = ran'[k]
    BY <2>1, <2>2, <2>3, <2>4, <2>5
  <2>11. \A j, k \in DOMAIN ran' : ran'[j] = ran'[k] => j = k
    <3>1. \A j, k \in 1..n : ran[j] = ran[k] => j = k
      BY <2>4 DEF UpstreamInv, KeptInv
    <3>2. QED
      BY <2>4, <2>5, <2>8, <3>1
  <2>12. KeptInv'
    BY <1>1, <2>5, <2>9, <2>10, <2>11 DEF KeptInv
  <2>13. QED
    BY <2>7, <2>12 DEF UpstreamInv
<1>7. QED
  BY <1>4, <1>5, <1>6 DEF Upstream!Check

LEMMA UpstreamInvariance ==
  ASSUME Upstream!LegalInputs PROVE Upstream!Spec => []UpstreamInv
<1>1. Upstream!Init => UpstreamInv
  BY UpstreamBegins
<1>2. UpstreamInv /\ [Upstream!Next]_Upstream!vars => UpstreamInv'
  <2>1. ASSUME UpstreamInv, UNCHANGED Upstream!vars PROVE UpstreamInv'
    <3>1. /\ fed' = fed /\ name' = name /\ todo' = todo /\ memo' = memo /\ ran' = ran /\ stand' = stand
          /\ occurrences' = occurrences
      BY <2>1 DEF Upstream!vars
    <3>2. TodoInv'
      BY <2>1, <3>1 DEF UpstreamInv, TodoInv
    <3>3. KeptInv'
      BY <2>1, <3>1 DEF UpstreamInv, KeptInv
    <3>4. ReportedInv'
      BY <2>1, <3>1 DEF UpstreamInv, ReportedInv, Things, Own
    <3>5. QED
      BY <3>2, <3>3, <3>4 DEF UpstreamInv
  <2>2. QED
    BY <2>1, CheckKeeps, CheckAloneKeeps DEF Upstream!Next
<1>3. QED
  BY <1>1, <1>2, PTL DEF Upstream!Spec

\* Every variable holds what the code could hold there.
THEOREM UpstreamTypeOK ==
  ASSUME Upstream!LegalInputs PROVE Upstream!Spec => []Upstream!TypeOK
<1>1. ASSUME UpstreamInv PROVE Upstream!TypeOK
  <2>1. stand \in {"rules", "contract error"}
    BY <1>1 DEF UpstreamInv, TodoInv
  <2>2. \A key \in DOMAIN memo : memo[key].walk \in Upstream!Walks
    BY <1>1 DEF UpstreamInv, KeptInv
  <2>3. Upstream!Range(ran) \subseteq Upstream!Walks
    <3>1. ran \in Seq(Upstream!Walks)
      BY <1>1 DEF UpstreamInv, KeptInv
    <3> DEFINE S == Upstream!Walks
    <3> HIDE DEF S
    <3>2. ran \in Seq(S)
      BY <3>1 DEF S
    <3>3. \A k \in DOMAIN ran : ran[k] \in S
      BY <3>2
    <3>4. QED
      BY <3>3 DEF S, Upstream!Range
  <2>4. \A o \in DOMAIN occurrences : occurrences[o].rule \in {r.id : r \in Upstream!Shared} \cup Upstream!Alone
    BY <1>1 DEF UpstreamInv, ReportedInv
  <2>5. QED
    BY <2>1, <2>2, <2>3, <2>4 DEF Upstream!TypeOK
<1>2. QED
  BY <1>1, UpstreamInvariance, PTL

\* However many rules share a walk, its body runs once in a message's context,
\* and no two walks of one name answer for each other (walk_events).
THEOREM EachWalkRunsOnceAlways ==
  ASSUME Upstream!LegalInputs PROVE Upstream!Spec => []Upstream!EachWalkRunsOnce
<1>1. ASSUME UpstreamInv PROVE Upstream!EachWalkRunsOnce
  <2>1. Upstream!IsInjective(ran)
    BY <1>1 DEF UpstreamInv, KeptInv, Upstream!IsInjective
  <2>2. ASSUME NEW o \in DOMAIN occurrences, occurrences[o].rule \in {r.id : r \in Upstream!Shared}
        PROVE  occurrences[o].rule \in {r.id : r \in {q \in Upstream!Shared : q.walk \in Upstream!Range(ran)}}
    <3>1. PICK r \in Upstream!Shared : r.id = occurrences[o].rule
      BY <2>2
    <3>2. r.id \notin Upstream!Alone /\ WalksFor(r.id) = r.walk
      BY TableIsOne, RuleOfIs
    <3>3. r.walk \in Upstream!Range(ran)
      BY <1>1, <3>1, <3>2 DEF UpstreamInv, ReportedInv
    <3>4. QED
      BY <3>1, <3>3
  <2>3. ASSUME NEW v \in Upstream!Range(ran), NEW w \in Upstream!Range(ran), name[v] = name[w] PROVE v = w
    BY <1>1, <2>3 DEF UpstreamInv, KeptInv, Upstream!Range
  <2> DEFINE Spoken == {occurrences[o].rule : o \in DOMAIN occurrences}
             Theirs == {r.id : r \in {q \in Upstream!Shared : q.walk \in Upstream!Range(ran)}}
             Ids == {r.id : r \in Upstream!Shared}
  <2>4. Spoken \cap Ids \subseteq Theirs
    <3>1. ASSUME NEW id \in Spoken, id \in Ids PROVE id \in Theirs
      <4>1. PICK o \in DOMAIN occurrences : id = occurrences[o].rule
        BY <3>1
      <4>2. QED
        BY <2>2, <3>1, <4>1
    <3> HIDE DEF Spoken, Ids, Theirs
    <3>2. QED
      BY <3>1
  <2>5. QED
    BY <2>1, <2>3, <2>4 DEF Upstream!EachWalkRunsOnce
<1>2. QED
  BY <1>1, UpstreamInvariance, PTL

\* Whatever the registry's order, each event a walk yields is reported once, by
\* the rule of its id, which takes its events in the order the walk yielded them
\* (walks.py, events_for).
THEOREM EachEventHasOneRuleAlways ==
  ASSUME Upstream!LegalInputs PROVE Upstream!Spec => []Upstream!EachEventHasOneRule
<1>1. ASSUME UpstreamInv, Upstream!Done, NEW walk \in Upstream!Walks, NEW k \in DOMAIN fed.events[walk]
      PROVE  LET event == fed.events[walk][k]
                 Told  == {o \in DOMAIN occurrences : Upstream!Contains(occurrences[o].found, event)}
             IN  /\ \E o \in Told : Told = {o}
                 /\ \A o \in Told :
                      /\ occurrences[o].rule = event.id
                      /\ occurrences[o].found = Upstream!Picked(fed.events[walk], {l \in DOMAIN fed.events[walk] : fed.events[walk][l].id = event.id})
  <2> DEFINE event == fed.events[walk][k]
             Has(o) == Upstream!Contains(occurrences[o].found, event)
             r == Upstream!Reads(event.id, walk)
             Ids == {q.id : q \in Upstream!Shared} \cup Upstream!Alone
  <2>1. fed \in Feeds /\ \A w \in Upstream!Walks : fed.events[w] \in Seq(Upstream!Range(fed.events[w]))
    BY <1>1 DEF UpstreamInv, TodoInv, Upstream!LegalInputs
  <2>2. r \in Upstream!Shared /\ r.id = event.id /\ r.walk = walk /\ event \notin Things
    <3>1. event \in Upstream!Range(fed.events[walk])
      BY DEF Upstream!Range
    <3>2. r \in Upstream!Shared /\ \A e \in Upstream!Range(fed.entity) : event \notin Upstream!Met(e)
      BY <2>1, <3>1 DEF Upstream!LegalInputs
    <3>3. QED
      BY <3>2 DEF Things, Upstream!Reads
  <2>3. WalksFor(event.id) = walk
    BY <2>2, RuleOfIs
  <2> HIDE DEF r
  <2>4. PICK order \in RuleOrders : \E n \in 0..Len(order) :
          /\ todo \in Seq(Upstream!Range(order)) /\ Len(todo) = Len(order) - n
          /\ Listed(occurrences) /\ Len(occurrences) = n /\ \A o \in 1..n : occurrences[o].rule = order[o]
    BY <1>1 DEF UpstreamInv, TodoInv
  <2>5. order \in Seq(Ids) /\ Upstream!IsInjective(order) /\ event.id \in Upstream!Range(order)
    BY <2>2 DEF Upstream!LegalInputs
  <2> HIDE DEF Ids
  <2>6. DOMAIN order = 1..Len(order) /\ Len(order) \in Nat
    BY <2>5
  <2>7. DOMAIN occurrences = DOMAIN order /\ \A o \in DOMAIN order : occurrences[o].rule = order[o]
    <3>1. Len(todo) = 0
      BY <1>1 DEF Upstream!Done
    <3>2. QED
      BY <2>4, <2>6, <3>1 DEF Listed
  <2>8. PICK mine \in DOMAIN occurrences : occurrences[mine].rule = event.id
    BY <2>5, <2>7 DEF Upstream!Range
  <2>9. occurrences[mine].found = Own(event.id)
    <3>1. event.id \notin Upstream!Alone
      BY <2>2, TableIsOne
    <3>2. QED
      BY <1>1, <2>8, <3>1 DEF UpstreamInv, ReportedInv
  <2> DEFINE Theirs(w, id) == Picked(fed.events[w], HasId(fed.events[w], id))
             OnlyTheirs(w, id) == \E S : Theirs(w, id) \in Seq(S) /\ \A e \in S : e.id = id
             AllTheirs(w, id) == \A l \in HasId(fed.events[w], id) : \E i \in DOMAIN Theirs(w, id) : Theirs(w, id)[i] = fed.events[w][l]
  <2>10. ASSUME NEW w \in Upstream!Walks, NEW id
         PROVE  OnlyTheirs(w, id) /\ AllTheirs(w, id)
    <3> DEFINE events == fed.events[w]
               R == Upstream!Range(events)
               P == HasId(events, id)
               S == {events[l] : l \in P}
    <3>1. events \in Seq(R)
      BY <2>1
    <3>2. P \in SUBSET DOMAIN events /\ \A e \in S : e.id = id
      BY DEF HasId
    <3> HIDE DEF events, R
    <3>3. /\ Picked(events, P) \in Seq(S)
          /\ \A l \in P : \E i \in DOMAIN Picked(events, P) : Picked(events, P)[i] = events[l]
      BY <3>1, <3>2, PickedHas
    <3>4. QED
      BY <3>2, <3>3 DEF events
  <2> HIDE DEF OnlyTheirs, AllTheirs
  <2>11. Has(mine)
    <3> DEFINE list == Theirs(walk, event.id)
    <3>1. OnlyTheirs(walk, event.id) /\ AllTheirs(walk, event.id)
      BY <2>10
    <3>2. k \in HasId(fed.events[walk], event.id)
      BY DEF HasId
    <3>3. \E i \in DOMAIN list : list[i] = event
      BY <3>1, <3>2 DEF AllTheirs
    <3>4. \E S : list \in Seq(S)
      BY <3>1 DEF OnlyTheirs
    <3>5. occurrences[mine].found = list
      BY <2>3, <2>9 DEF Own
    <3> HIDE DEF list, event
    <3>6. QED
      BY <3>3, <3>4, <3>5 DEF Upstream!Contains
  <2>12. ASSUME NEW o \in DOMAIN occurrences, Has(o) PROVE o = mine
    <3>1. PICK i \in 1..Len(occurrences[o].found) : occurrences[o].found[i] = event
      BY <2>12 DEF Upstream!Contains
    <3> DEFINE id == occurrences[o].rule
               found == occurrences[o].found
    <3>2. CASE id \in Upstream!Alone /\ found \in Seq(Things)
      <4> DEFINE T == Things
      <4> HIDE DEF T, found, event
      <4>1. found \in Seq(T)
        BY <3>2 DEF T
      <4>2. found[i] \in T
        BY <3>1, <4>1 DEF found
      <4>3. QED
        BY <2>2, <3>1, <4>2 DEF T, found
    <3>3. CASE id \in {q.id : q \in Upstream!Shared} /\ found = Own(id)
      <4>1. PICK q \in Upstream!Shared : q.id = id
        BY <3>3
      <4>2. WalksFor(id) \in Upstream!Walks
        BY <4>1, RuleOfIs, TableIsOne
      <4>3. PICK S : found \in Seq(S) /\ \A e \in S : e.id = id
        <5>1. OnlyTheirs(WalksFor(id), id)
          BY <2>10, <4>2
        <5>2. found = Theirs(WalksFor(id), id)
          BY <3>3 DEF Own
        <5> HIDE DEF Theirs, found
        <5>3. QED
          BY <5>1, <5>2 DEF OnlyTheirs
      <4> HIDE DEF found, event
      <4>4. found[i] \in S
        BY <3>1, <4>3 DEF found
      <4>5. event.id = id
        BY <3>1, <4>3, <4>4 DEF found
      <4>6. order[o] = order[mine]
        BY <2>7, <2>8, <4>5
      <4>7. QED
        BY <2>5, <2>7, <4>6 DEF Upstream!IsInjective
    <3>4. QED
      BY <1>1, <3>2, <3>3 DEF UpstreamInv, ReportedInv
  <2> DEFINE Told == {o \in DOMAIN occurrences : Has(o)}
  <2>13. Told = {mine}
    BY <2>11, <2>12
  <2>14. occurrences[mine].found = Upstream!Picked(fed.events[walk], {l \in DOMAIN fed.events[walk] : fed.events[walk][l].id = event.id})
    BY <2>3, <2>9, UpstreamPicks DEF Own, HasId
  <2> HIDE DEF Has, event
  <2>15. QED
    BY <2>8, <2>13, <2>14 DEF Has, event
<1>2. ASSUME UpstreamInv PROVE Upstream!EachEventHasOneRule
  BY <1>1, <1>2 DEF Upstream!EachEventHasOneRule
<1>3. QED
  BY <1>2, UpstreamInvariance, PTL
=============================================================================
