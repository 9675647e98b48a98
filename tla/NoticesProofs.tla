--------------------------- MODULE NoticesProofs ---------------------------
(***************************************************************************)
(* Facts about the container operators, and about what a list has of a     *)
(* rule, cited by the proofs of the modules that use them.                 *)
(***************************************************************************)
EXTENDS Notices, SequenceTheorems, WellFoundedInduction, TLAPS

-----------------------------------------------------------------------------
(* Induction over the naturals, in the form the proofs can cite.  The      *)
(* library states it for a predicate; here the predicate is a set, the     *)
(* numbers it holds of, and the step of a recursion is a function, so that *)
(* a proof gives both as terms.                                            *)

Before == {p \in Nat \X Nat : p[1] < p[2]}

\* A set that has 0, and with each number the next, has every number.
LEMMA NatSetInduction ==
  ASSUME NEW S, 0 \in S, \A n \in Nat : n \in S => n + 1 \in S
  PROVE  \A n \in Nat : n \in S
<1> DEFINE T == {n \in Nat : n \notin S}
<1>1. SUFFICES ASSUME T # {} PROVE FALSE
  OBVIOUS
<1>2. PICK x \in T : \A y \in T : ~ (<<y, x>> \in Before)
  <2>1. T \subseteq Nat
    OBVIOUS
  <2>2. IsWellFoundedOn(Before, Nat)
    BY NatLessThanWellFounded DEF OpToRel, Before
  <2> HIDE DEF T
  <2>3. QED
    BY <1>1, <2>1, <2>2, WFMin
<1>3. x \in Nat /\ x # 0
  OBVIOUS
<1>4. x - 1 \in Nat /\ x - 1 + 1 = x /\ x - 1 \in T
  BY <1>3
<1>5. <<x - 1, x>> \in Before
  <2> HIDE DEF T
  <2>1. x - 1 < x
    BY <1>3
  <2>2. QED
    BY <1>3, <1>4, <2>1 DEF Before
<1>6. QED
  BY <1>2, <1>4, <1>5

\* f is n steps of a recursion in T, the i-th of which takes f[i-1] and i.
Recursion(f, n, T, base, step) ==
  /\ f \in [0..n -> T]
  /\ f[0] = base
  /\ \A i \in 1..n : f[i] = step[<<f[i-1], i>>]

\* A recursion has a value after any number of steps.
LEMMA NatRecursion ==
  ASSUME NEW T, NEW base \in T, NEW step \in [T \X Nat -> T]
  PROVE  \A n \in Nat : \E f : Recursion(f, n, T, base, step)
<1> DEFINE P(n) == \E f : Recursion(f, n, T, base, step)
           S == {n \in Nat : P(n)}
<1>1. P(0)
  <2> DEFINE f == [i \in 0..0 |-> base]
  <2>1. f \in [0..0 -> T] /\ f[0] = base /\ 1..0 = {}
    OBVIOUS
  <2> HIDE DEF f
  <2>2. QED
    BY <2>1 DEF Recursion
<1>2. ASSUME NEW n \in Nat, P(n) PROVE P(n+1)
  <2>1. PICK f \in [0..n -> T] : f[0] = base /\ \A i \in 1..n : f[i] = step[<<f[i-1], i>>]
    BY <1>2 DEF Recursion
  <2> DEFINE g == [i \in 0..n+1 |-> IF i = n+1 THEN step[<<f[n], n+1>>] ELSE f[i]]
  <2>2. step[<<f[n], n+1>>] \in T
    OBVIOUS
  <2>3. g \in [0..n+1 -> T]
    BY <2>2
  <2>4. g[0] = base
    BY <2>1
  <2>5. ASSUME NEW i \in 1..n+1 PROVE g[i] = step[<<g[i-1], i>>]
    <3>1. CASE i = n+1
      <4>1. g[n+1] = step[<<f[n], n+1>>] /\ g[n] = f[n] /\ (n+1) - 1 = n
        OBVIOUS
      <4> HIDE DEF g
      <4>2. QED
        BY <3>1, <4>1
    <3>2. CASE i # n+1
      <4>1. i \in 1..n /\ g[i] = f[i] /\ g[i-1] = f[i-1]
        BY <3>2
      <4>2. QED
        BY <4>1, <2>1
    <3>3. QED
      BY <3>1, <3>2
  <2> HIDE DEF g
  <2>6. QED
    BY <2>3, <2>4, <2>5 DEF Recursion
<1>3. 0 \in S /\ \A n \in Nat : n \in S => n + 1 \in S
  BY <1>1, <1>2
<1>4. \A n \in Nat : n \in S
  <2> HIDE DEF S
  <2>1. QED
    BY <1>3, NatSetInduction
<1>5. QED
  BY <1>4

\* f and g take like steps from like values, n times; and are alike so far.
LikeSteps(f, g, n) == \A i \in 1..n : f[i-1] = g[i-1] => f[i] = g[i]
Alike(f, g, n) == \A i \in 0..n : f[i] = g[i]

\* Two functions that start alike and take like steps from like values are alike.
LEMMA Agreement ==
  ASSUME NEW n \in Nat, NEW f, NEW g, f[0] = g[0], LikeSteps(f, g, n)
  PROVE  Alike(f, g, n)
<1> DEFINE S == {i \in Nat : i \in 0..n => f[i] = g[i]}
<1>1. 0 \in S
  OBVIOUS
<1>2. ASSUME NEW i \in Nat, i \in S PROVE i + 1 \in S
  <2>1. SUFFICES ASSUME i + 1 \in 0..n PROVE f[i+1] = g[i+1]
    OBVIOUS
  <2>2. i \in 0..n /\ i + 1 \in 1..n /\ (i+1) - 1 = i
    BY <2>1
  <2>3. QED
    BY <1>2, <2>2 DEF LikeSteps
<1>3. \A i \in Nat : i \in S
  <2> HIDE DEF S
  <2>1. QED
    BY <1>1, <1>2, NatSetInduction
<1>4. QED
  BY <1>3 DEF Alike

\* A set of naturals that is not empty has a least element.
LEMMA LeastNatural ==
  ASSUME NEW S \in SUBSET Nat, S # {}
  PROVE  \E m \in S : \A n \in S : m <= n
<1>1. IsWellFoundedOn(Before, Nat)
  BY NatLessThanWellFounded DEF OpToRel, Before
<1>2. PICK m \in S : \A n \in S : ~ (<<n, m>> \in Before)
  BY <1>1, WFMin
<1>3. ASSUME NEW n \in S PROVE m <= n
  <2>1. m \in Nat /\ n \in Nat
    OBVIOUS
  <2>2. ~ (n < m)
    BY <1>2, <2>1 DEF Before
  <2>3. QED
    BY <2>1, <2>2
<1>4. QED
  BY <1>3

-----------------------------------------------------------------------------
(* Containers.                                                             *)

\* A new container is a container (NoticeContainer.__init__).
LEMMA NewContainerType ==
  ASSUME NEW t \in Nat, NEW p \in Nat
  PROVE  NewContainer(t, p) \in Container
BY DEF NewContainer, Container

\* The two containers a run creates are containers.
LEMMA DefaultsType ==
  DefaultContainer \in Container /\ UncappedContainer \in Container
BY CapsAreNatural, NewContainerType DEF DefaultContainer, UncappedContainer

\* A container recounted, field by field.
LEMMA Recounted ==
  ASSUME NEW c \in Container, NEW f \in [Rules -> Nat]
  PROVE  LET d == [c EXCEPT !.counts = f]
         IN  /\ d \in Container
             /\ d.max_total = c.max_total /\ d.max_per_rule = c.max_per_rule
             /\ d.occurrences = c.occurrences /\ d.counts = f /\ d.retained = c.retained
BY DEF Container

\* A container's fields, for the steps that look at one of them.
LEMMA Fields ==
  ASSUME NEW c \in Container
  PROVE  /\ c.max_total \in Nat /\ c.max_per_rule \in Nat
         /\ c.occurrences \in Seq(Occurrences) /\ Len(c.occurrences) \in Nat
         /\ c.counts \in [Rules -> Nat] /\ c.retained \in [Rules -> Nat]
BY DEF Container

LEMMA CountsType ==
  ASSUME NEW f \in [Rules -> Nat], NEW g \in [Rules -> Nat], NEW r \in Rules, NEW n \in Nat
  PROVE  plus(f, r, n) \in [Rules -> Nat] /\ summed(f, g) \in [Rules -> Nat]
BY DEF plus, summed

\* add, field by field: the count always moves, the rest only when there is room.
LEMMA AddFields ==
  ASSUME NEW c \in Container, NEW o \in Occurrences
  PROVE  LET d == add(c, o)
         IN  /\ d \in Container
             /\ d.max_total = c.max_total /\ d.max_per_rule = c.max_per_rule
             /\ d.counts = plus(c.counts, o.rule_id, 1)
             /\ HasRoomFor(c, o) =>
                  /\ d.occurrences = Append(c.occurrences, o)
                  /\ d.retained = plus(c.retained, o.rule_id, 1)
             /\ ~HasRoomFor(c, o) =>
                  d.occurrences = c.occurrences /\ d.retained = c.retained
<1> DEFINE s == Append(c.occurrences, o)
           f == plus(c.counts, o.rule_id, 1)
           g == plus(c.retained, o.rule_id, 1)
<1>1. o.rule_id \in Rules /\ 1 \in Nat
  BY OccurrencesHaveRules
<1>2. s \in Seq(Occurrences)
  BY Fields
<1>3. f \in [Rules -> Nat] /\ g \in [Rules -> Nat]
  BY <1>1, Fields DEF plus
<1>4. add(c, o) = IF HasRoomFor(c, o)
                  THEN [c EXCEPT !.occurrences = s, !.counts = f, !.retained = g]
                  ELSE [c EXCEPT !.counts = f]
  BY Zenon DEF add
<1> HIDE DEF s, f, g
<1>5. CASE HasRoomFor(c, o)
  <2>1. add(c, o) = [c EXCEPT !.occurrences = s, !.counts = f, !.retained = g]
    BY <1>4, <1>5
  <2> DEFINE d == add(c, o)
  <2>2. /\ d \in Container /\ d.max_total = c.max_total /\ d.max_per_rule = c.max_per_rule
        /\ d.occurrences = s /\ d.counts = f /\ d.retained = g
    BY <1>2, <1>3, <2>1 DEF Container
  <2>3. QED
    BY <1>5, <2>2 DEF s, f, g
<1>6. CASE ~HasRoomFor(c, o)
  <2>1. add(c, o) = [c EXCEPT !.counts = f]
    BY <1>4, <1>6
  <2>2. QED
    BY <1>3, <1>6, <2>1, Recounted DEF f
<1>7. QED
  BY <1>5, <1>6

\* observe_dropped moves one count and nothing else.
LEMMA ObserveFields ==
  ASSUME NEW c \in Container, NEW r \in Rules, NEW n \in Nat
  PROVE  LET d == observe_dropped(c, r, n)
         IN  /\ d \in Container
             /\ d.max_total = c.max_total /\ d.max_per_rule = c.max_per_rule
             /\ d.occurrences = c.occurrences /\ d.retained = c.retained
             /\ d.counts = plus(c.counts, r, n)
<1>1. plus(c.counts, r, n) \in [Rules -> Nat]
  BY Fields, CountsType
<1>2. QED
  BY <1>1, Recounted DEF observe_dropped

\* merge, field by field.
LEMMA MergeFields ==
  ASSUME NEW c \in Container, NEW d \in Container
  PROVE  LET e == merge(c, d)
         IN  /\ e \in Container
             /\ e.max_total = c.max_total /\ e.max_per_rule = c.max_per_rule
             /\ e.occurrences = c.occurrences \o d.occurrences
             /\ e.counts = summed(c.counts, d.counts)
             /\ e.retained = summed(c.retained, d.retained)
<1> DEFINE s == c.occurrences \o d.occurrences
           f == summed(c.counts, d.counts)
           g == summed(c.retained, d.retained)
<1>1. s \in Seq(Occurrences)
  BY Fields
<1>2. f \in [Rules -> Nat] /\ g \in [Rules -> Nat]
  BY Fields DEF summed
<1>3. merge(c, d) = [c EXCEPT !.occurrences = s, !.counts = f, !.retained = g]
  BY Zenon DEF merge
<1> HIDE DEF s, f, g
<1> DEFINE e == merge(c, d)
<1>4. /\ e \in Container /\ e.max_total = c.max_total /\ e.max_per_rule = c.max_per_rule
      /\ e.occurrences = s /\ e.counts = f /\ e.retained = g
  BY <1>1, <1>2, <1>3 DEF Container
<1>5. QED
  BY <1>4 DEF s, f, g

\* The two together: neither makes an ill-formed container.
LEMMA AddType ==
  ASSUME NEW c \in Container, NEW o \in Occurrences
  PROVE  add(c, o) \in Container
BY AddFields

LEMMA MergeType ==
  ASSUME NEW c \in Container, NEW d \in Container
  PROVE  merge(c, d) \in Container
BY MergeFields

-----------------------------------------------------------------------------
\* OfRule's recursion: what is kept of the first i entries, for every i.
Keeps(f, list, rule, S) ==
  /\ f \in [0..Len(list) -> Seq(S)]
  /\ f[0] = <<>>
  /\ \A i \in 1..Len(list) :
       f[i] = IF list[i].rule_id = rule THEN Append(f[i-1], list[i]) ELSE f[i-1]

LEMMA OfRuleKeeps ==
  ASSUME NEW S, NEW list \in Seq(S), NEW rule
  PROVE  \E f : Keeps(f, list, rule, S) /\ OfRule(list, rule) = f[Len(list)]
<1> DEFINE n == Len(list)
           T == Seq(S)
           step == [p \in T \X Nat |->
                      IF p[2] \in 1..n /\ list[p[2]].rule_id = rule
                      THEN Append(p[1], list[p[2]]) ELSE p[1]]
           body(g) == [i \in 0..n |->
                         IF i = 0 THEN <<>>
                         ELSE IF list[i].rule_id = rule THEN Append(g[i-1], list[i]) ELSE g[i-1]]
<1>1. n \in Nat /\ <<>> \in T /\ \A i \in 1..n : list[i] \in S
  BY EmptySeq
<1>2. step \in [T \X Nat -> T]
  <2>1. ASSUME NEW p \in T \X Nat PROVE step[p] \in T
    <3>1. CASE p[2] \in 1..n /\ list[p[2]].rule_id = rule
      <4>1. p[1] \in Seq(S) /\ list[p[2]] \in S
        BY <1>1, <3>1
      <4>2. QED
        BY <3>1, <4>1, AppendProperties
    <3>2. CASE ~(p[2] \in 1..n /\ list[p[2]].rule_id = rule)
      BY <3>2
    <3>3. QED
      BY <3>1, <3>2
  <2>2. QED
    BY <2>1
<1>3. PICK f : Recursion(f, n, T, <<>>, step)
  <2> HIDE DEF T, step, n
  <2>1. QED
    BY <1>1, <1>2, NatRecursion, Zenon
<1>0. f \in [0..n -> T] /\ f[0] = <<>>
  BY <1>3 DEF Recursion
<1>4. ASSUME NEW i \in 1..n
      PROVE  f[i] = IF list[i].rule_id = rule THEN Append(f[i-1], list[i]) ELSE f[i-1]
  <2>1. i - 1 \in 0..n /\ i \in Nat
    BY <1>1
  <2>2. <<f[i-1], i>> \in T \X Nat
    BY <1>0, <2>1
  <2>3. step[<<f[i-1], i>>] = IF list[i].rule_id = rule THEN Append(f[i-1], list[i]) ELSE f[i-1]
    <3> DEFINE q == <<f[i-1], i>>
    <3>1. q \in T \X Nat /\ q[1] = f[i-1] /\ q[2] = i
      BY <2>2
    <3> HIDE DEF q
    <3>2. step[q] = IF q[2] \in 1..n /\ list[q[2]].rule_id = rule
                    THEN Append(q[1], list[q[2]]) ELSE q[1]
      BY <3>1
    <3>3. QED
      BY <3>1, <3>2 DEF q
  <2>4. f[i] = step[<<f[i-1], i>>]
    <3> HIDE DEF step, n
    <3>1. QED
      BY <1>3 DEF Recursion
  <2>5. QED
    BY <2>3, <2>4, Zenon
<1>5. Keeps(f, list, rule, S)
  BY <1>0, <1>4 DEF Keeps
<1>6. f = body(f)
  <2>1. ASSUME NEW i \in 0..n
        PROVE  f[i] = IF i = 0 THEN <<>>
                      ELSE IF list[i].rule_id = rule THEN Append(f[i-1], list[i]) ELSE f[i-1]
    <3>1. CASE i = 0
      BY <1>0, <3>1, Zenon
    <3>2. CASE i # 0
      <4>1. i \in 1..n
        BY <1>1, <3>2
      <4>2. QED
        BY <1>4, <3>2, <4>1, Zenon
    <3>3. QED
      BY <3>1, <3>2
  <2>2. f = [i \in 0..n |-> f[i]]
    BY <1>0
  <2>3. QED
    BY <2>1, <2>2, Zenon
<1> DEFINE g == CHOOSE h : h = body(h)
<1>7. g = body(g)
  <2> HIDE DEF body
  <2>1. QED
    BY <1>6
<1>8. OfRule(list, rule) = g[n]
  BY DEF OfRule
<1>9. g[n] = f[n]
  <2>1. g[0] = f[0]
    <3>1. g[0] = body(g)[0]
      BY <1>7, Zenon
    <3> HIDE DEF g
    <3>2. 0 \in 0..n
      BY <1>1
    <3>3. QED
      BY <1>0, <3>1, <3>2
  <2>2. ASSUME NEW i \in 1..n, g[i-1] = f[i-1] PROVE g[i] = f[i]
    <3>1. i \in 0..n /\ i # 0
      BY <1>1
    <3>2. g[i] = body(g)[i]
      BY <1>7, Zenon
    <3> HIDE DEF g
    <3>3. g[i] = IF list[i].rule_id = rule THEN Append(g[i-1], list[i]) ELSE g[i-1]
      BY <3>1, <3>2
    <3>4. QED
      BY <1>4, <2>2, <3>3, Zenon
  <2> HIDE DEF g, n
  <2>3. n \in Nat /\ LikeSteps(g, f, n)
    BY <1>1, <2>2 DEF LikeSteps
  <2>4. Alike(g, f, n)
    BY <2>1, <2>3, Agreement
  <2>5. QED
    BY <1>1, <2>4 DEF Alike
<1>10. QED
  BY <1>5, <1>8, <1>9

LEMMA OfRuleType ==
  ASSUME NEW S, NEW list \in Seq(S), NEW rule
  PROVE  OfRule(list, rule) \in Seq(S) /\ Len(OfRule(list, rule)) \in Nat
<1>1. PICK f : Keeps(f, list, rule, S) /\ OfRule(list, rule) = f[Len(list)]
  BY OfRuleKeeps
<1>2. f \in [0..Len(list) -> Seq(S)] /\ Len(list) \in 0..Len(list)
  BY <1>1 DEF Keeps
<1>3. OfRule(list, rule) \in Seq(S)
  BY <1>1, <1>2
<1>4. QED
  BY <1>3, LenProperties

LEMMA OfRuleEmpty ==
  ASSUME NEW rule
  PROVE  OfRule(<<>>, rule) = <<>>
<1>1. <<>> \in Seq({}) /\ Len(<<>>) = 0
  BY EmptySeq
<1>2. PICK f : Keeps(f, <<>>, rule, {}) /\ OfRule(<<>>, rule) = f[Len(<<>>)]
  BY <1>1, OfRuleKeeps
<1>3. QED
  BY <1>1, <1>2 DEF Keeps

\* One more entry is one more kept, or none.
LEMMA OfRuleAppend ==
  ASSUME NEW S, NEW list \in Seq(S), NEW e \in S, NEW rule
  PROVE  OfRule(Append(list, e), rule) =
           IF e.rule_id = rule THEN Append(OfRule(list, rule), e) ELSE OfRule(list, rule)
<1> DEFINE n == Len(list)
           more == Append(list, e)
<1>1. /\ n \in Nat /\ more \in Seq(S) /\ Len(more) = n + 1 /\ more[n+1] = e
      /\ \A i \in 1..n : more[i] = list[i]
  BY AppendProperties
<1> HIDE DEF more, n
<1>2. PICK f : Keeps(f, list, rule, S) /\ OfRule(list, rule) = f[n]
  BY OfRuleKeeps DEF n
<1>3. PICK g : Keeps(g, more, rule, S) /\ OfRule(more, rule) = g[n+1]
  BY <1>1, OfRuleKeeps
<1>4. g[0] = f[0]
  BY <1>2, <1>3 DEF Keeps
<1>5. ASSUME NEW i \in 1..n, g[i-1] = f[i-1] PROVE g[i] = f[i]
  <2>1. i \in 1..n+1
    BY <1>1
  <2>2. g[i] = IF more[i].rule_id = rule THEN Append(g[i-1], more[i]) ELSE g[i-1]
    BY <1>1, <1>3, <2>1 DEF Keeps
  <2>3. f[i] = IF list[i].rule_id = rule THEN Append(f[i-1], list[i]) ELSE f[i-1]
    BY <1>2 DEF Keeps, n
  <2>4. QED
    BY <1>1, <1>5, <2>2, <2>3, Zenon
<1>6. g[n] = f[n]
  <2>1. n \in Nat /\ n \in 0..n /\ LikeSteps(g, f, n)
    BY <1>1, <1>5 DEF LikeSteps
  <2>2. Alike(g, f, n)
    BY <1>4, <2>1, Agreement
  <2>3. QED
    BY <2>1, <2>2 DEF Alike
<1>7. n + 1 \in 1..n+1 /\ (n + 1) - 1 = n
  BY <1>1
<1>8. g[n+1] = IF more[n+1].rule_id = rule THEN Append(g[n], more[n+1]) ELSE g[n]
  BY <1>1, <1>3, <1>7 DEF Keeps
<1>9. QED
  BY <1>1, <1>2, <1>3, <1>6, <1>8, Zenon DEF more

\* What two lists have of a rule, one behind the other.
LEMMA OfRuleConcat ==
  ASSUME NEW S, NEW s \in Seq(S), NEW t \in Seq(S), NEW rule
  PROVE  OfRule(s \o t, rule) = OfRule(s, rule) \o OfRule(t, rule)
<1> DEFINE n == Len(t)
           upto(i) == SubSeq(t, 1, i)
           Holds(i) == OfRule(s \o upto(i), rule) = OfRule(s, rule) \o OfRule(upto(i), rule)
           G == {i \in Nat : i <= n => Holds(i)}
<1>1. /\ n \in Nat /\ upto(0) = <<>> /\ upto(n) = t
      /\ \A i \in 1..n : t[i] \in S
      /\ \A i \in 0..n : upto(i) \in Seq(S)
      /\ \A i \in 0..n : i + 1 <= n => upto(i+1) = Append(upto(i), t[i+1])
  <2>1. n \in Nat /\ SubSeq(t, 1, 0) = <<>> /\ SubSeq(t, 1, n) = t
    BY LenProperties, SubSeqEmpty, SubSeqFull
  <2>2. \A i \in 1..n : t[i] \in S
    BY ElementOfSeq
  <2>3. \A i \in 0..n : SubSeq(t, 1, i) \in Seq(S)
    BY <2>1, SubSeqProperties
  <2>4. ASSUME NEW i \in 0..n, i + 1 <= n
        PROVE  SubSeq(t, 1, i+1) = Append(SubSeq(t, 1, i), t[i+1])
    <3>1. 1 \in 1..n+1 /\ i + 1 \in 1..n /\ (i + 1) - 1 = i
      BY <2>1, <2>4
    <3>2. QED
      BY <3>1, SubSeqRecursiveSecond
  <2>5. QED
    BY <2>1, <2>2, <2>3, <2>4
<1>2. 0 \in G
  <2>1. s \o <<>> = s /\ OfRule(<<>>, rule) = <<>>
    BY OfRuleEmpty, ConcatEmptySeq
  <2>2. OfRule(s, rule) \o <<>> = OfRule(s, rule)
    BY OfRuleType, ConcatEmptySeq
  <2>3. Holds(0)
    BY <1>1, <2>1, <2>2
  <2> HIDE DEF Holds
  <2>4. QED
    BY <2>3
<1>3. ASSUME NEW i \in Nat, i \in G PROVE i + 1 \in G
  <2>1. SUFFICES ASSUME i + 1 <= n PROVE Holds(i+1)
    OBVIOUS
  <2>2. i \in 0..n /\ i + 1 \in 1..n /\ Holds(i)
    BY <1>1, <1>3, <2>1
  <2> DEFINE u == upto(i)
             e == t[i+1]
  <2>3. u \in Seq(S) /\ e \in S /\ upto(i+1) = Append(u, e)
    BY <1>1, <2>1, <2>2
  <2>4. OfRule(s \o u, rule) = OfRule(s, rule) \o OfRule(u, rule)
    BY <2>2
  <2> HIDE DEF u, e
  <2>5. s \o u \in Seq(S) /\ s \o Append(u, e) = Append(s \o u, e)
    <3>1. s \o u \in Seq(S) /\ <<e>> \in Seq(S)
      BY <2>3, ConcatProperties
    <3>2. Append(u, e) = u \o <<e>> /\ Append(s \o u, e) = (s \o u) \o <<e>>
      BY <2>3, <3>1, AppendIsConcat
    <3>3. (s \o u) \o <<e>> = s \o (u \o <<e>>)
      BY <2>3, <3>1, ConcatAssociative
    <3>4. QED
      BY <3>1, <3>2, <3>3
  <2>6. CASE e.rule_id = rule
    <3>1. OfRule(Append(s \o u, e), rule) = Append(OfRule(s \o u, rule), e)
      BY <2>3, <2>5, <2>6, OfRuleAppend
    <3>2. OfRule(Append(u, e), rule) = Append(OfRule(u, rule), e)
      BY <2>3, <2>6, OfRuleAppend
    <3>3. OfRule(s, rule) \o Append(OfRule(u, rule), e) = Append(OfRule(s, rule) \o OfRule(u, rule), e)
      <4> DEFINE v == OfRule(s, rule)
                 w == OfRule(u, rule)
      <4>1. v \in Seq(S) /\ w \in Seq(S) /\ <<e>> \in Seq(S)
        BY <2>3, OfRuleType
      <4> HIDE DEF v, w
      <4>2. v \o w \in Seq(S)
        BY <4>1, ConcatProperties
      <4>3. Append(w, e) = w \o <<e>> /\ Append(v \o w, e) = (v \o w) \o <<e>>
        BY <2>3, <4>1, <4>2, AppendIsConcat
      <4>4. (v \o w) \o <<e>> = v \o (w \o <<e>>)
        BY <4>1, ConcatAssociative
      <4>5. QED
        BY <4>3, <4>4 DEF v, w
    <3>4. QED
      BY <2>3, <2>4, <2>5, <3>1, <3>2, <3>3
  <2>7. CASE e.rule_id # rule
    <3>1. OfRule(Append(s \o u, e), rule) = OfRule(s \o u, rule)
      BY <2>3, <2>5, <2>7, OfRuleAppend
    <3>2. OfRule(Append(u, e), rule) = OfRule(u, rule)
      BY <2>3, <2>7, OfRuleAppend
    <3>4. QED
      BY <2>3, <2>4, <2>5, <3>1, <3>2
  <2>8. QED
    BY <2>6, <2>7
<1>4. \A i \in Nat : i \in G
  <2> HIDE DEF G
  <2>1. QED
    BY <1>2, <1>3, NatSetInduction
<1>5. Holds(n)
  <2> HIDE DEF Holds
  <2>1. QED
    BY <1>1, <1>4
<1>6. QED
  BY <1>1, <1>5

\* How many of a rule: by the last entry, by the first, and over two lists.
LEMMA HowManyAppend ==
  ASSUME NEW S, NEW list \in Seq(S), NEW e \in S, NEW rule
  PROVE  Len(OfRule(Append(list, e), rule)) =
           Len(OfRule(list, rule)) + (IF e.rule_id = rule THEN 1 ELSE 0)
<1>1. OfRule(list, rule) \in Seq(S) /\ Len(OfRule(list, rule)) \in Nat
  BY OfRuleType
<1>2. CASE e.rule_id = rule
  <2>1. OfRule(Append(list, e), rule) = Append(OfRule(list, rule), e)
    BY <1>2, OfRuleAppend
  <2>2. QED
    BY <1>1, <1>2, <2>1, AppendProperties
<1>3. CASE e.rule_id # rule
  <2>1. OfRule(Append(list, e), rule) = OfRule(list, rule)
    BY <1>3, OfRuleAppend
  <2>2. QED
    BY <1>1, <1>3, <2>1
<1>4. QED
  BY <1>2, <1>3

LEMMA HowManyConcat ==
  ASSUME NEW S, NEW s \in Seq(S), NEW t \in Seq(S), NEW rule
  PROVE  Len(OfRule(s \o t, rule)) = Len(OfRule(s, rule)) + Len(OfRule(t, rule))
<1>1. OfRule(s, rule) \in Seq(S) /\ OfRule(t, rule) \in Seq(S)
  BY OfRuleType
<1>2. OfRule(s \o t, rule) = OfRule(s, rule) \o OfRule(t, rule)
  BY OfRuleConcat
<1>3. QED
  BY <1>1, <1>2, ConcatProperties

LEMMA HowManyTail ==
  ASSUME NEW S, NEW list \in Seq(S), list # <<>>, NEW rule
  PROVE  Len(OfRule(list, rule)) =
           Len(OfRule(Tail(list), rule)) + (IF Head(list).rule_id = rule THEN 1 ELSE 0)
<1> DEFINE h == Head(list)
           t == Tail(list)
<1>1. h \in S /\ t \in Seq(S) /\ <<h>> \in Seq(S) /\ <<>> \in Seq(S)
  BY HeadTailProperties, EmptySeq
<1>2. list = <<h>> \o t
  <2>1. Len(list) \in 1..Len(list) /\ 1 \in 1..Len(list) /\ h = list[1]
    BY EmptySeq
  <2>2. SubSeq(list, 1, Len(list)) = <<list[1]>> \o SubSeq(list, 1+1, Len(list))
    BY <2>1, SubSeqRecursiveFirst
  <2>3. QED
    BY <2>1, <2>2, SubSeqFull, TailIsSubSeq
<1>3. <<h>> = Append(<<>>, h)
  OBVIOUS
<1> HIDE DEF h, t
<1>4. Len(OfRule(<<h>>, rule)) = IF h.rule_id = rule THEN 1 ELSE 0
  <2>1. Len(OfRule(Append(<<>>, h), rule)) =
          Len(OfRule(<<>>, rule)) + (IF h.rule_id = rule THEN 1 ELSE 0)
    BY <1>1, HowManyAppend
  <2>2. OfRule(<<>>, rule) = <<>> /\ Len(<<>>) = 0
    BY OfRuleEmpty, EmptySeq
  <2>3. QED
    BY <1>3, <2>1, <2>2
<1>5. Len(OfRule(list, rule)) = Len(OfRule(<<h>>, rule)) + Len(OfRule(t, rule))
  BY <1>1, <1>2, HowManyConcat
<1>6. Len(OfRule(t, rule)) \in Nat
  BY <1>1, OfRuleType
<1>7. Len(OfRule(list, rule)) = Len(OfRule(t, rule)) + (IF h.rule_id = rule THEN 1 ELSE 0)
  BY <1>4, <1>5, <1>6
<1>8. QED
  BY <1>7 DEF h, t

-----------------------------------------------------------------------------
\* What a container has counted and holds, beside the list of what it was offered
\* and u[r] of each rule it was told of without seeing them.
Counted(c, list, u) ==
  \A r \in Rules :
    /\ c.counts[r] = Len(OfRule(list, r)) + u[r]
    /\ c.retained[r] = Len(OfRule(c.occurrences, r))

Full(c, r) == ~(Len(c.occurrences) < c.max_total /\ c.counts[r] + 1 <= c.max_per_rule)

\* A rule's retained occurrences are all it was offered until there is no room for
\* another, and the first of them from then on.
HoldsTheFirst(c, list) ==
  \A r \in Rules :
    /\ \E t \in Seq(Occurrences) : OfRule(list, r) = OfRule(c.occurrences, r) \o t
    /\ Full(c, r) \/ OfRule(list, r) = OfRule(c.occurrences, r)

LEMMA AddCounts ==
  ASSUME NEW c \in Container, NEW list \in Seq(Occurrences), NEW o \in Occurrences,
         NEW u \in [Rules -> Nat], Counted(c, list, u)
  PROVE  Counted(add(c, o), Append(list, o), u)
<1> DEFINE d == add(c, o)
           q == o.rule_id
<1>1. /\ d \in Container
      /\ d.counts = plus(c.counts, q, 1)
      /\ HasRoomFor(c, o) =>
           d.occurrences = Append(c.occurrences, o) /\ d.retained = plus(c.retained, q, 1)
      /\ ~HasRoomFor(c, o) => d.occurrences = c.occurrences /\ d.retained = c.retained
  BY AddFields
<1>2. /\ c.occurrences \in Seq(Occurrences)
      /\ c.counts \in [Rules -> Nat] /\ c.retained \in [Rules -> Nat]
  BY Fields
<1> HIDE DEF d
<1>3. ASSUME NEW r \in Rules
      PROVE  d.counts[r] = Len(OfRule(Append(list, o), r)) + u[r]
  <2>1. d.counts[r] = c.counts[r] + (IF q = r THEN 1 ELSE 0)
    BY <1>1, <1>2 DEF plus
  <2>2. Len(OfRule(Append(list, o), r)) = Len(OfRule(list, r)) + (IF q = r THEN 1 ELSE 0)
    BY HowManyAppend
  <2>3. c.counts[r] = Len(OfRule(list, r)) + u[r]
    BY DEF Counted
  <2>4. Len(OfRule(list, r)) \in Nat /\ u[r] \in Nat
    BY OfRuleType
  <2>5. QED
    BY <2>1, <2>2, <2>3, <2>4
<1>4. ASSUME NEW r \in Rules
      PROVE  d.retained[r] = Len(OfRule(d.occurrences, r))
  <2>1. c.retained[r] = Len(OfRule(c.occurrences, r))
    BY DEF Counted
  <2>2. CASE HasRoomFor(c, o)
    <3>1. d.retained[r] = c.retained[r] + (IF q = r THEN 1 ELSE 0)
      BY <1>1, <1>2, <2>2 DEF plus
    <3>2. Len(OfRule(Append(c.occurrences, o), r)) =
            Len(OfRule(c.occurrences, r)) + (IF q = r THEN 1 ELSE 0)
      BY <1>2, HowManyAppend
    <3>3. QED
      BY <1>1, <2>1, <2>2, <3>1, <3>2
  <2>3. CASE ~HasRoomFor(c, o)
    BY <1>1, <2>1, <2>3
  <2>4. QED
    BY <2>2, <2>3
<1>5. QED
  BY <1>3, <1>4 DEF Counted, d

LEMMA AddHoldsTheFirst ==
  ASSUME NEW c \in Container, NEW list \in Seq(Occurrences), NEW o \in Occurrences,
         HoldsTheFirst(c, list)
  PROVE  HoldsTheFirst(add(c, o), Append(list, o))
<1> DEFINE d == add(c, o)
           q == o.rule_id
<1>1. /\ d \in Container
      /\ d.max_total = c.max_total /\ d.max_per_rule = c.max_per_rule
      /\ d.counts = plus(c.counts, q, 1)
      /\ HasRoomFor(c, o) => d.occurrences = Append(c.occurrences, o)
      /\ ~HasRoomFor(c, o) => d.occurrences = c.occurrences
  BY AddFields
<1>2. /\ c.max_total \in Nat /\ c.max_per_rule \in Nat
      /\ c.occurrences \in Seq(Occurrences) /\ Len(c.occurrences) \in Nat
      /\ c.counts \in [Rules -> Nat]
  BY Fields
<1>3. HasRoomFor(c, o) <=> ~Full(c, q)
  BY DEF HasRoomFor, Full
<1> HIDE DEF d
<1> SUFFICES ASSUME NEW r \in Rules
             PROVE  /\ \E t \in Seq(Occurrences) :
                         OfRule(Append(list, o), r) = OfRule(d.occurrences, r) \o t
                    /\ Full(d, r) \/ OfRule(Append(list, o), r) = OfRule(d.occurrences, r)
  BY DEF HoldsTheFirst, d
<1> DEFINE told == OfRule(list, r)
           kept == OfRule(c.occurrences, r)
<1>4. told \in Seq(Occurrences) /\ kept \in Seq(Occurrences)
  BY <1>2, OfRuleType
<1>5. PICK t \in Seq(Occurrences) : told = kept \o t
  BY DEF HoldsTheFirst
<1>6. Full(c, r) \/ told = kept
  BY DEF HoldsTheFirst
<1>7. Full(c, r) => Full(d, r)
  <2>1. d.counts[r] = c.counts[r] + (IF q = r THEN 1 ELSE 0) /\ c.counts[r] \in Nat
    BY <1>1, <1>2 DEF plus
  <2>2. Len(d.occurrences) \in Nat /\ Len(c.occurrences) <= Len(d.occurrences)
    BY <1>1, <1>2, AppendProperties, Fields
  <2>3. QED
    BY <1>1, <1>2, <2>1, <2>2 DEF Full
<1>8. CASE q = r
  <2>1. OfRule(Append(list, o), r) = Append(told, o)
    BY <1>8, OfRuleAppend
  <2>2. CASE HasRoomFor(c, o)
    <3>1. told = kept
      BY <1>3, <1>6, <1>8, <2>2
    <3>2. OfRule(d.occurrences, r) = Append(kept, o)
      BY <1>1, <1>2, <1>8, <2>2, OfRuleAppend
    <3> HIDE DEF told, kept
    <3>3. Append(kept, o) \in Seq(Occurrences)
      BY <1>4, AppendProperties
    <3>4. Append(kept, o) = Append(kept, o) \o <<>> /\ <<>> \in Seq(Occurrences)
      BY <3>3, ConcatEmptySeq, EmptySeq
    <3>5. QED
      BY <2>1, <3>1, <3>2, <3>4
  <2>3. CASE ~HasRoomFor(c, o)
    <3>1. OfRule(d.occurrences, r) = kept /\ Full(d, r)
      BY <1>1, <1>3, <1>7, <1>8, <2>3
    <3> HIDE DEF told, kept
    <3>2. <<o>> \in Seq(Occurrences) /\ t \o <<o>> \in Seq(Occurrences)
      BY ConcatProperties
    <3>3. Append(told, o) = (kept \o t) \o <<o>>
      BY <1>4, <1>5, AppendIsConcat
    <3>4. (kept \o t) \o <<o>> = kept \o (t \o <<o>>)
      BY <1>4, <3>2, ConcatAssociative
    <3>5. QED
      BY <2>1, <3>1, <3>2, <3>3, <3>4
  <2>4. QED
    BY <2>2, <2>3
<1>9. CASE q # r
  <2>1. OfRule(Append(list, o), r) = told
    BY <1>9, OfRuleAppend
  <2>2. OfRule(d.occurrences, r) = kept
    <3>1. OfRule(Append(c.occurrences, o), r) = kept
      BY <1>2, <1>9, OfRuleAppend
    <3>2. d.occurrences = Append(c.occurrences, o) \/ d.occurrences = c.occurrences
      BY <1>1
    <3>3. QED
      BY <3>1, <3>2
  <2> HIDE DEF told, kept
  <2>3. QED
    BY <1>5, <1>6, <1>7, <2>1, <2>2
<1>10. QED
  BY <1>8, <1>9

=============================================================================
