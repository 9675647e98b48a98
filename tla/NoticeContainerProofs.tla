------------------------ MODULE NoticeContainerProofs ------------------------
(***************************************************************************)
(* What a container keeps and loses, for any caps and any number of        *)
(* occurrences and merges.                                                 *)
(***************************************************************************)
EXTENDS NoticeContainer, NoticesProofs, SequenceTheorems

LOCAL INSTANCE SequencesExt

-----------------------------------------------------------------------------
\* The three facts about one container, u[r] of whose count it never saw.
Held(c) == \A r \in Rules : c.retained[r] <= c.counts[r]

Capped(c) ==
  /\ Len(c.occurrences) <= c.max_total
  /\ \A r \in Rules : c.retained[r] <= c.max_per_rule

Kept(c, u) ==
  Len(c.occurrences) < c.max_total =>
    \A r \in Rules :
      c.retained[r] >= (IF c.counts[r] < c.max_per_rule
                        THEN c.counts[r] ELSE c.max_per_rule) - u[r]

LEMMA AddKeeps ==
  ASSUME NEW c \in Container, NEW o \in Occurrences, NEW u \in [Rules -> Nat], Held(c)
  PROVE  LET d == add(c, o)
         IN  /\ d \in Container /\ d.max_total = c.max_total
             /\ Held(d)
             /\ Capped(c) => Capped(d)
             /\ Kept(c, u) => Kept(d, u)
<1> DEFINE d == add(c, o)
           r == o.rule_id
<1>1. r \in Rules
  BY OccurrencesHaveRules
<1>2. /\ d \in Container
      /\ d.max_total = c.max_total /\ d.max_per_rule = c.max_per_rule
      /\ d.counts = plus(c.counts, r, 1)
      /\ HasRoomFor(c, o) =>
           /\ d.occurrences = Append(c.occurrences, o)
           /\ d.retained = plus(c.retained, r, 1)
      /\ ~HasRoomFor(c, o) => d.occurrences = c.occurrences /\ d.retained = c.retained
  BY AddFields
<1>3. /\ c.max_total \in Nat /\ c.max_per_rule \in Nat
      /\ c.occurrences \in Seq(Occurrences) /\ Len(c.occurrences) \in Nat
      /\ c.counts \in [Rules -> Nat] /\ c.retained \in [Rules -> Nat]
  BY Fields
<1>4. HasRoomFor(c, o) <=> Len(c.occurrences) < c.max_total /\ c.counts[r] + 1 <= c.max_per_rule
  BY DEF HasRoomFor
<1> HIDE DEF d, r
<1>5. \A q \in Rules : d.counts[q] = IF q = r THEN c.counts[q] + 1 ELSE c.counts[q]
  BY <1>2, <1>3 DEF plus
<1>6. \A q \in Rules : /\ c.counts[q] \in Nat /\ c.retained[q] \in Nat /\ u[q] \in Nat
                       /\ c.retained[q] <= c.counts[q]
  BY <1>3 DEF Held
<1>7. CASE HasRoomFor(c, o)
  <2>1. \A q \in Rules : d.retained[q] = IF q = r THEN c.retained[q] + 1 ELSE c.retained[q]
    BY <1>2, <1>3, <1>7 DEF plus
  <2>2. Len(d.occurrences) = Len(c.occurrences) + 1
    BY <1>2, <1>3, <1>7
  <2>3. Held(d)
    <3> SUFFICES ASSUME NEW q \in Rules PROVE d.retained[q] <= d.counts[q]
      BY DEF Held
    <3> DEFINE k == c.counts[q]   m == c.retained[q]
    <3>1. k \in Nat /\ m \in Nat /\ m <= k
      BY <1>6
    <3>2. \/ d.counts[q] = k + 1 /\ d.retained[q] = m + 1
          \/ d.counts[q] = k /\ d.retained[q] = m
      BY <1>5, <2>1
    <3> HIDE DEF k, m
    <3>3. QED
      BY <3>1, <3>2
  <2>4. Capped(c) => Capped(d)
    <3> SUFFICES ASSUME Capped(c) PROVE Capped(d)
      OBVIOUS
    <3>1. Len(d.occurrences) <= d.max_total
      BY <1>2, <1>3, <1>4, <1>7, <2>2
    <3>2. ASSUME NEW q \in Rules PROVE d.retained[q] <= d.max_per_rule
      <4>1. c.retained[q] <= c.max_per_rule
        BY DEF Capped
      <4>2. q = r => c.retained[q] + 1 <= c.max_per_rule
        BY <1>1, <1>3, <1>4, <1>6, <1>7
      <4>3. QED
        BY <1>2, <2>1, <4>1, <4>2
    <3>3. QED
      BY <3>1, <3>2 DEF Capped
  <2>5. Kept(c, u) => Kept(d, u)
    <3> SUFFICES ASSUME Kept(c, u), Len(d.occurrences) < d.max_total, NEW q \in Rules
                 PROVE  d.retained[q] >= (IF d.counts[q] < d.max_per_rule
                                          THEN d.counts[q] ELSE d.max_per_rule) - u[q]
      BY DEF Kept
    <3>1. c.retained[q] >= (IF c.counts[q] < c.max_per_rule
                            THEN c.counts[q] ELSE c.max_per_rule) - u[q]
      BY <1>2, <1>3, <2>2 DEF Kept
    <3> DEFINE k == c.counts[q]   m == c.retained[q]   w == u[q]   p == c.max_per_rule
    <3>2. k \in Nat /\ m \in Nat /\ w \in Nat /\ p \in Nat
      BY <1>3, <1>6
    <3>3. d.max_per_rule = p /\ m >= (IF k < p THEN k ELSE p) - w
      BY <1>2, <3>1
    <3>4. CASE q = r
      <4>1. d.retained[q] = m + 1 /\ d.counts[q] = k + 1 /\ k + 1 <= p
        BY <1>1, <1>4, <1>5, <1>7, <2>1, <3>4
      <4> HIDE DEF k, m, w, p
      <4>2. m + 1 >= (IF k + 1 < p THEN k + 1 ELSE p) - w
        BY <3>2, <3>3, <4>1
      <4>3. QED
        BY <3>3, <4>1, <4>2 DEF k, m, w, p
    <3>5. CASE q # r
      <4>1. d.retained[q] = m /\ d.counts[q] = k
        BY <1>5, <2>1, <3>5
      <4> HIDE DEF k, m, w, p
      <4>2. m >= (IF k < p THEN k ELSE p) - w
        BY <3>2, <3>3, <4>1
      <4>3. QED
        BY <3>3, <4>1, <4>2 DEF k, m, w, p
    <3>6. QED
      BY <3>4, <3>5
  <2>6. QED
    BY <1>2, <2>3, <2>4, <2>5 DEF d
<1>8. CASE ~HasRoomFor(c, o)
  <2>1. d.retained = c.retained /\ d.occurrences = c.occurrences
    BY <1>2, <1>8
  <2>2. Held(d)
    BY <1>5, <1>6, <2>1 DEF Held
  <2>3. Capped(c) => Capped(d)
    BY <1>2, <2>1 DEF Capped
  <2>4. Kept(c, u) => Kept(d, u)
    <3> SUFFICES ASSUME Kept(c, u), Len(d.occurrences) < d.max_total, NEW q \in Rules
                 PROVE  d.retained[q] >= (IF d.counts[q] < d.max_per_rule
                                          THEN d.counts[q] ELSE d.max_per_rule) - u[q]
      BY DEF Kept
    <3>1. c.retained[q] >= (IF c.counts[q] < c.max_per_rule
                            THEN c.counts[q] ELSE c.max_per_rule) - u[q]
      BY <1>2, <2>1 DEF Kept
    <3>2. ~(c.counts[r] + 1 <= c.max_per_rule)
      BY <1>2, <1>4, <1>8, <2>1
    <3> DEFINE k == c.counts[q]   m == c.retained[q]   w == u[q]   p == c.max_per_rule
    <3>3. k \in Nat /\ m \in Nat /\ w \in Nat /\ p \in Nat
      BY <1>3, <1>6
    <3>4. d.max_per_rule = p /\ d.retained[q] = m /\ m >= (IF k < p THEN k ELSE p) - w
      BY <1>2, <2>1, <3>1
    <3>5. CASE q = r
      <4>1. d.counts[q] = k + 1 /\ ~(k + 1 <= p)
        BY <1>1, <1>5, <3>2, <3>5
      <4> HIDE DEF k, m, w, p
      <4>2. m >= (IF k + 1 < p THEN k + 1 ELSE p) - w
        BY <3>3, <3>4, <4>1
      <4>3. QED
        BY <3>4, <4>1, <4>2 DEF k, m, w, p
    <3>6. CASE q # r
      <4>1. d.counts[q] = k
        BY <1>5, <3>6
      <4> HIDE DEF k, m, w, p
      <4>2. m >= (IF k < p THEN k ELSE p) - w
        BY <3>3, <3>4, <4>1
      <4>3. QED
        BY <3>4, <4>1, <4>2 DEF k, m, w, p
    <3>7. QED
      BY <3>5, <3>6
  <2>5. QED
    BY <1>2, <2>2, <2>3, <2>4 DEF d
<1>9. QED
  BY <1>7, <1>8

LEMMA ObserveKeeps ==
  ASSUME NEW c \in Container, NEW r \in Rules, NEW n \in Nat, NEW u \in [Rules -> Nat], Held(c)
  PROVE  LET d == observe_dropped(c, r, n)
         IN  /\ d \in Container /\ d.max_total = c.max_total
             /\ d.occurrences = c.occurrences
             /\ Held(d)
             /\ Capped(c) => Capped(d)
             /\ Kept(c, u) => Kept(d, [u EXCEPT ![r] = @ + n])
<1> DEFINE d == observe_dropped(c, r, n)
           v == [u EXCEPT ![r] = @ + n]
<1>1. /\ d \in Container
      /\ d.max_total = c.max_total /\ d.max_per_rule = c.max_per_rule
      /\ d.occurrences = c.occurrences /\ d.retained = c.retained
      /\ d.counts = plus(c.counts, r, n)
  BY ObserveFields
<1>2. /\ c.max_total \in Nat /\ c.max_per_rule \in Nat
      /\ c.counts \in [Rules -> Nat] /\ c.retained \in [Rules -> Nat]
  BY Fields
<1>3. \A q \in Rules : v[q] = IF q = r THEN u[q] + n ELSE u[q]
  OBVIOUS
<1> HIDE DEF d, v
<1>4. \A q \in Rules : d.counts[q] = IF q = r THEN c.counts[q] + n ELSE c.counts[q]
  BY <1>1, <1>2 DEF plus
<1>5. \A q \in Rules : /\ c.counts[q] \in Nat /\ c.retained[q] \in Nat /\ u[q] \in Nat
                       /\ c.retained[q] <= c.counts[q]
  BY <1>2 DEF Held
<1>6. Held(d)
  <2> SUFFICES ASSUME NEW q \in Rules PROVE d.retained[q] <= d.counts[q]
    BY DEF Held
  <2> DEFINE k == c.counts[q]   m == c.retained[q]
  <2>1. k \in Nat /\ m \in Nat /\ m <= k /\ d.retained[q] = m
    BY <1>1, <1>5
  <2>2. d.counts[q] = k + n \/ d.counts[q] = k
    BY <1>4
  <2> HIDE DEF k, m
  <2>3. QED
    BY <2>1, <2>2
<1>7. Capped(c) => Capped(d)
  BY <1>1 DEF Capped
<1>8. Kept(c, u) => Kept(d, v)
  <2> SUFFICES ASSUME Kept(c, u), Len(d.occurrences) < d.max_total, NEW q \in Rules
               PROVE  d.retained[q] >= (IF d.counts[q] < d.max_per_rule
                                        THEN d.counts[q] ELSE d.max_per_rule) - v[q]
    BY DEF Kept
  <2>1. c.retained[q] >= (IF c.counts[q] < c.max_per_rule
                          THEN c.counts[q] ELSE c.max_per_rule) - u[q]
    BY <1>1 DEF Kept
  <2> DEFINE k == c.counts[q]   m == c.retained[q]   w == u[q]   p == c.max_per_rule
  <2>2. k \in Nat /\ m \in Nat /\ w \in Nat /\ p \in Nat
    BY <1>2, <1>5
  <2>3. d.max_per_rule = p /\ d.retained[q] = m /\ m >= (IF k < p THEN k ELSE p) - w
    BY <1>1, <2>1
  <2>4. CASE q = r
    <3>1. d.counts[q] = k + n /\ v[q] = w + n
      BY <1>3, <1>4, <2>4
    <3> HIDE DEF k, m, w, p
    <3>2. QED
      BY <2>2, <2>3, <3>1
  <2>5. CASE q # r
    <3>1. d.counts[q] = k /\ v[q] = w
      BY <1>3, <1>4, <2>5
    <3> HIDE DEF k, m, w, p
    <3>2. QED
      BY <2>2, <2>3, <3>1
  <2>6. QED
    BY <2>4, <2>5
<1>9. QED
  BY <1>1, <1>6, <1>7, <1>8 DEF d, v

LEMMA MergeKeeps ==
  ASSUME NEW c \in Container, NEW d \in Container, Held(c), Held(d)
  PROVE  merge(c, d) \in Container /\ Held(merge(c, d))
<1> DEFINE e == merge(c, d)
<1>1. /\ e \in Container
      /\ e.counts = summed(c.counts, d.counts)
      /\ e.retained = summed(c.retained, d.retained)
  BY MergeFields
<1>2. /\ c.counts \in [Rules -> Nat] /\ c.retained \in [Rules -> Nat]
      /\ d.counts \in [Rules -> Nat] /\ d.retained \in [Rules -> Nat]
  BY Fields
<1> HIDE DEF e
<1>3. \A q \in Rules : /\ e.counts[q] = c.counts[q] + d.counts[q]
                       /\ e.retained[q] = c.retained[q] + d.retained[q]
  BY <1>1, <1>2 DEF summed
<1>4. Held(e)
  <2> SUFFICES ASSUME NEW q \in Rules PROVE e.retained[q] <= e.counts[q]
    BY DEF Held
  <2> DEFINE k == c.counts[q]   m == c.retained[q]   j == d.counts[q]   w == d.retained[q]
  <2>1. k \in Nat /\ m \in Nat /\ j \in Nat /\ w \in Nat /\ m <= k /\ w <= j
    BY <1>2 DEF Held
  <2>2. e.counts[q] = k + j /\ e.retained[q] = m + w
    BY <1>3
  <2> HIDE DEF k, m, j, w
  <2>3. QED
    BY <2>1, <2>2
<1>5. QED
  BY <1>1, <1>4 DEF e

-----------------------------------------------------------------------------
\* The inductive invariant: what is said of one container, of each.
BoxInv ==
  /\ TypeOK
  /\ \A b \in Boxes : Held(box[b])
  /\ \A b \in Boxes \ merged : Capped(box[b]) /\ Kept(box[b], unseen[b])

LEMMA BoxInit == Init => BoxInv
<1> SUFFICES ASSUME Init PROVE BoxInv
  OBVIOUS
<1>1. ASSUME NEW b \in Boxes
      PROVE  /\ box[b] = NewContainer(Caps[b][1], Caps[b][2]) /\ box[b] \in Container
             /\ Caps[b][1] \in Nat /\ Caps[b][2] \in Nat
  <2>1. Caps[b][1] \in Nat /\ Caps[b][2] \in Nat
    BY BoxAssumption
  <2>2. box[b] = NewContainer(Caps[b][1], Caps[b][2])
    BY DEF Init
  <2>3. QED
    BY <2>1, <2>2, NewContainerType
<1>2. TypeOK
  <2>1. box = [b \in Boxes |-> box[b]]
    BY DEF Init
  <2>2. box \in [Boxes -> Container]
    BY <1>1, <2>1
  <2>3. QED
    BY <2>2, BoxAssumption DEF Init, TypeOK
<1>3. ASSUME NEW b \in Boxes
      PROVE  /\ box[b].max_total = Caps[b][1] /\ box[b].max_per_rule = Caps[b][2]
             /\ Len(box[b].occurrences) = 0 /\ unseen[b] = [r \in Rules |-> 0]
             /\ \A r \in Rules : box[b].counts[r] = 0 /\ box[b].retained[r] = 0
  BY <1>1 DEF Init, NewContainer
<1>4. ASSUME NEW b \in Boxes
      PROVE  Held(box[b]) /\ Capped(box[b]) /\ Kept(box[b], unseen[b])
  BY <1>1, <1>3 DEF Held, Capped, Kept
<1>5. QED
  BY <1>2, <1>4 DEF BoxInv

\* A step changes one container and leaves the others.
LEMMA BoxNext == BoxInv /\ [Next]_vars => BoxInv'
<1> SUFFICES ASSUME BoxInv, [Next]_vars PROVE BoxInv'
  OBVIOUS
<1>1. /\ box \in [Boxes -> Container] /\ serial \in 0..MaxSerial
      /\ offered \in [Boxes -> Seq(Occurrences)] /\ unseen \in [Boxes -> [Rules -> Nat]]
      /\ merges \in 0..MaxMerges /\ merged \subseteq Boxes
  BY DEF BoxInv, TypeOK
<1>2. ASSUME NEW b \in Boxes, NEW r \in Rules, Add(b, r)
      PROVE  BoxInv'
  <2> DEFINE o == [rule_id |-> r, serial |-> serial']
             d == add(box[b], o)
  <2>1. serial' \in 1..MaxSerial
    BY <1>1, <1>2, BoxAssumption DEF Add
  <2>2. o \in Occurrences
    BY <2>1, BoxAssumption
  <2>3. /\ box' = [box EXCEPT ![b] = d]
        /\ offered' = [offered EXCEPT ![b] = Append(@, o)]
        /\ UNCHANGED <<unseen, merges, merged>>
    BY <1>2 DEF Add
  <2> HIDE DEF o
  <2>4. /\ d \in Container /\ Held(d)
        /\ Capped(box[b]) => Capped(d)
        /\ Kept(box[b], unseen[b]) => Kept(d, unseen[b])
    BY <1>1, <2>2, AddKeeps DEF BoxInv
  <2> HIDE DEF d
  <2>5. TypeOK'
    BY <1>1, <2>1, <2>2, <2>3, <2>4 DEF TypeOK
  <2>6. \A e \in Boxes : box'[e] = IF e = b THEN d ELSE box[e]
    BY <1>1, <2>3
  <2>7. QED
    BY <2>3, <2>4, <2>5, <2>6 DEF BoxInv
<1>3. ASSUME NEW b \in Boxes, NEW r \in Rules, NEW n \in 1..2, ObserveDropped(b, r, n)
      PROVE  BoxInv'
  <2> DEFINE d == observe_dropped(box[b], r, n)
             u == [unseen[b] EXCEPT ![r] = @ + n]
  <2>1. serial' \in 0..MaxSerial /\ n \in Nat
    BY <1>1, <1>3, BoxAssumption DEF ObserveDropped
  <2>2. /\ box' = [box EXCEPT ![b] = d] /\ unseen' = [unseen EXCEPT ![b] = u]
        /\ UNCHANGED <<offered, merges, merged>>
    BY <1>3 DEF ObserveDropped
  <2>3. u \in [Rules -> Nat]
    BY <1>1, <2>1
  <2>4. /\ d \in Container /\ Held(d)
        /\ Capped(box[b]) => Capped(d)
        /\ Kept(box[b], unseen[b]) => Kept(d, u)
    BY <1>1, <2>1, ObserveKeeps DEF BoxInv
  <2> HIDE DEF d, u
  <2>5. TypeOK'
    BY <1>1, <2>1, <2>2, <2>3, <2>4 DEF TypeOK
  <2>6. \A e \in Boxes : /\ box'[e] = IF e = b THEN d ELSE box[e]
                         /\ unseen'[e] = IF e = b THEN u ELSE unseen[e]
    BY <1>1, <2>2
  <2>7. QED
    BY <2>2, <2>4, <2>5, <2>6 DEF BoxInv
<1>4. ASSUME NEW b \in Boxes, NEW c \in Boxes, Merge(b, c)
      PROVE  BoxInv'
  <2> DEFINE d == merge(box[b], box[c])
             u == [r \in Rules |-> unseen[b][r] + unseen[c][r]]
  <2>1. /\ box' = [box EXCEPT ![b] = d] /\ unseen' = [unseen EXCEPT ![b] = u]
        /\ offered' = [offered EXCEPT ![b] = @ \o offered[c]]
        /\ merged' = merged \cup {b} /\ merges' \in 0..MaxMerges /\ serial' = serial
    BY <1>1, <1>4, BoxAssumption DEF Merge
  <2>2. u \in [Rules -> Nat]
    BY <1>1
  <2>3. d \in Container /\ Held(d)
    BY <1>1, MergeKeeps DEF BoxInv
  <2> HIDE DEF d, u
  <2>4. TypeOK'
    BY <1>1, <2>1, <2>2, <2>3 DEF TypeOK
  <2>5. \A e \in Boxes : /\ box'[e] = IF e = b THEN d ELSE box[e]
                         /\ unseen'[e] = IF e = b THEN u ELSE unseen[e]
    BY <1>1, <2>1
  <2>6. QED
    BY <2>1, <2>3, <2>4, <2>5 DEF BoxInv
<1>5. CASE UNCHANGED vars
  BY <1>5 DEF vars, BoxInv, TypeOK
<1>6. QED
  BY <1>2, <1>3, <1>4, <1>5 DEF Next

\* Whatever is called, what a container retains of a rule goes with what it counts.
THEOREM BoxInvariant == Spec => []BoxInv
BY BoxInit, BoxNext, PTL DEF Spec

\* The caps bound every container another was not merged into, whatever the
\* caps are and however the occurrences arrive.
THEOREM CapsHold == Spec => []CapsHoldUntilMerged
<1>1. BoxInv => CapsHoldUntilMerged
  BY DEF BoxInv, Capped, CapsHoldUntilMerged
<1>2. QED
  BY <1>1, BoxInvariant, PTL

\* An occurrence is lost to a full container or a full rule and nothing else.
THEOREM LossesAreCapped == Spec => []LostOnlyToACap
<1>1. BoxInv => LostOnlyToACap
  BY DEF BoxInv, Kept, LostOnlyToACap
<1>2. QED
  BY <1>1, BoxInvariant, PTL

-----------------------------------------------------------------------------
\* A sequence is a prefix of itself with another behind it.
LEMMA PrefixOfConcat ==
  ASSUME NEW S, NEW s \in Seq(S), NEW t \in Seq(S)
  PROVE  IsPrefix(s, s \o t)
<1>1. /\ s \o t \in Seq(S) /\ Len(s \o t) = Len(s) + Len(t)
      /\ Len(s) \in Nat /\ Len(t) \in Nat
      /\ \A i \in 1..Len(s) : (s \o t)[i] = s[i]
  BY ConcatProperties, LenProperties
<1> DEFINE u == s \o t
<1> HIDE DEF u
<1>2. u \in Seq(S) /\ Len(s) <= Len(u) /\ \A i \in 1..Len(s) : u[i] = s[i]
  BY <1>1 DEF u
<1>3. SubSeq(s, 1, Len(s)) = SubSeq(u, 1, Len(s))
  BY <1>1, <1>2, SubSeqProperties
<1>4. QED
  BY <1>2, <1>3 DEF IsPrefix, u

\* What a container has retained stays where it is, whatever is added, counted or
\* merged.
THEOREM RetainedNeverMoves == Spec => RetainedStay
<1>1. ASSUME BoxInv, [Next]_vars, NEW b \in Boxes
      PROVE  IsPrefix(box[b].occurrences, box'[b].occurrences)
  <2> DEFINE s == box[b].occurrences
  <2>1. box \in [Boxes -> Container] /\ s \in Seq(Occurrences)
    BY <1>1, Fields DEF BoxInv, TypeOK
  <2>2. SUFFICES \E t \in Seq(Occurrences) : box'[b].occurrences = s \o t
    BY <2>1, PrefixOfConcat
  <2>3. CASE box'[b].occurrences = s
    <3>1. s = s \o <<>> /\ <<>> \in Seq(Occurrences)
      BY <2>1, ConcatEmptySeq, EmptySeq
    <3>2. QED
      BY <2>3, <3>1
  <2>4. ASSUME NEW r \in Rules, Add(b, r), box'[b].occurrences # s
        PROVE  \E t \in Seq(Occurrences) : box'[b].occurrences = s \o t
    <3> DEFINE o == [rule_id |-> r, serial |-> serial']
    <3>1. serial' \in 1..MaxSerial
      <4>1. serial \in 0..MaxSerial /\ serial < MaxSerial /\ serial' = serial + 1
        BY <1>1, <2>4 DEF Add, BoxInv, TypeOK
      <4>2. MaxSerial \in Nat
        BY BoxAssumption
      <4>3. QED
        BY <4>1, <4>2
    <3>2. o \in Occurrences
      BY <3>1, BoxAssumption
    <3>3. box'[b] = add(box[b], o)
      BY <2>1, <2>4 DEF Add
    <3> HIDE DEF o
    <3>4. box'[b].occurrences = Append(s, o)
      BY <2>1, <2>4, <3>2, <3>3, AddFields
    <3>5. Append(s, o) = s \o <<o>> /\ <<o>> \in Seq(Occurrences)
      BY <2>1, <3>2, AppendIsConcat
    <3>6. QED
      BY <3>4, <3>5
  <2>5. ASSUME NEW r \in Rules, NEW n \in 1..2, ObserveDropped(b, r, n)
        PROVE  box'[b].occurrences = s
    <3>1. box'[b] = observe_dropped(box[b], r, n) /\ n \in Nat
      BY <2>1, <2>5 DEF ObserveDropped
    <3>2. QED
      BY <2>1, <3>1, ObserveFields
  <2>6. ASSUME NEW c \in Boxes, Merge(b, c)
        PROVE  \E t \in Seq(Occurrences) : box'[b].occurrences = s \o t
    <3>1. box'[b] = merge(box[b], box[c])
      BY <2>1, <2>6 DEF Merge
    <3> DEFINE p == box[b]
               q == box[c]
    <3>2. p \in Container /\ q \in Container
      BY <2>1
    <3> HIDE DEF p, q
    <3>3. merge(p, q).occurrences = p.occurrences \o q.occurrences
      BY <3>2, MergeFields
    <3>4. box'[b].occurrences = s \o box[c].occurrences
      BY <3>1, <3>3 DEF p, q
    <3>5. QED
      BY <2>1, <3>4, Fields
  <2>7. CASE box'[b] = box[b]
    BY <2>3, <2>7
  <2>8. ASSUME NEW e \in Boxes, e # b,
               \/ \E r \in Rules : Add(e, r)
               \/ \E r \in Rules, n \in 1..2 : ObserveDropped(e, r, n)
               \/ \E c \in Boxes : Merge(e, c)
        PROVE  box'[b] = box[b]
    BY <2>1, <2>8 DEF Add, ObserveDropped, Merge
  <2>9. QED
    BY <1>1, <2>3, <2>4, <2>5, <2>6, <2>7, <2>8 DEF Next, vars
<1>2. BoxInv /\ [Next]_vars =>
        \A b \in Boxes : IsPrefix(box[b].occurrences, box'[b].occurrences)
  BY <1>1
<1>3. QED
  BY <1>2, BoxInvariant, PTL DEF Spec, RetainedStay

-----------------------------------------------------------------------------
\* Counting without carrying leaves what is held, and only uses up room.
LEMMA ObserveCounts ==
  ASSUME NEW c \in Container, NEW list \in Seq(Occurrences), NEW q \in Rules, NEW n \in Nat,
         NEW u \in [Rules -> Nat], Counted(c, list, u)
  PROVE  /\ Counted(observe_dropped(c, q, n), list, [u EXCEPT ![q] = @ + n])
         /\ HoldsTheFirst(c, list) => HoldsTheFirst(observe_dropped(c, q, n), list)
<1> DEFINE d == observe_dropped(c, q, n)
           v == [u EXCEPT ![q] = @ + n]
<1>1. /\ d.max_total = c.max_total /\ d.max_per_rule = c.max_per_rule
      /\ d.occurrences = c.occurrences /\ d.retained = c.retained
      /\ d.counts = plus(c.counts, q, n)
  BY ObserveFields
<1>2. /\ c.max_total \in Nat /\ c.max_per_rule \in Nat /\ Len(c.occurrences) \in Nat
      /\ c.counts \in [Rules -> Nat]
  BY Fields
<1>3. \A r \in Rules : v[r] = u[r] + (IF r = q THEN n ELSE 0)
  OBVIOUS
<1> HIDE DEF d, v
<1>4. \A r \in Rules : d.counts[r] = c.counts[r] + (IF r = q THEN n ELSE 0)
  BY <1>1, <1>2 DEF plus
<1>5. Counted(d, list, v)
  <2> SUFFICES ASSUME NEW r \in Rules
               PROVE  /\ d.counts[r] = Len(OfRule(list, r)) + v[r]
                      /\ d.retained[r] = Len(OfRule(d.occurrences, r))
    BY DEF Counted
  <2>1. Len(OfRule(list, r)) \in Nat /\ u[r] \in Nat
    BY OfRuleType
  <2>2. c.counts[r] = Len(OfRule(list, r)) + u[r]
    BY DEF Counted
  <2>3. d.counts[r] = Len(OfRule(list, r)) + v[r]
    BY <1>3, <1>4, <2>1, <2>2
  <2>4. d.retained[r] = Len(OfRule(d.occurrences, r))
    BY <1>1 DEF Counted
  <2>5. QED
    BY <2>3, <2>4
<1>6. ASSUME NEW r \in Rules, Full(c, r) PROVE Full(d, r)
  <2>1. d.counts[r] = c.counts[r] + (IF r = q THEN n ELSE 0) /\ c.counts[r] \in Nat
    BY <1>2, <1>4
  <2>2. QED
    BY <1>1, <1>2, <1>6, <2>1 DEF Full
<1>7. HoldsTheFirst(c, list) => HoldsTheFirst(d, list)
  BY <1>1, <1>6 DEF HoldsTheFirst
<1>8. QED
  BY <1>5, <1>7 DEF d, v

\* A merge adds up both sides, lists and counts alike.
LEMMA MergeCounts ==
  ASSUME NEW c \in Container, NEW d \in Container,
         NEW s \in Seq(Occurrences), NEW t \in Seq(Occurrences),
         NEW u \in [Rules -> Nat], NEW v \in [Rules -> Nat],
         Counted(c, s, u), Counted(d, t, v)
  PROVE  Counted(merge(c, d), s \o t, [r \in Rules |-> u[r] + v[r]])
<1> DEFINE e == merge(c, d)
           w == [r \in Rules |-> u[r] + v[r]]
<1>1. /\ e.occurrences = c.occurrences \o d.occurrences
      /\ e.counts = summed(c.counts, d.counts)
      /\ e.retained = summed(c.retained, d.retained)
  BY MergeFields
<1>2. c.occurrences \in Seq(Occurrences) /\ d.occurrences \in Seq(Occurrences)
  BY Fields
<1>3. \A r \in Rules : w[r] = u[r] + v[r]
  OBVIOUS
<1> HIDE DEF e, w
<1> SUFFICES ASSUME NEW r \in Rules
             PROVE  /\ e.counts[r] = Len(OfRule(s \o t, r)) + w[r]
                    /\ e.retained[r] = Len(OfRule(e.occurrences, r))
  BY DEF Counted, e, w
<1>4. /\ c.counts[r] = Len(OfRule(s, r)) + u[r] /\ d.counts[r] = Len(OfRule(t, r)) + v[r]
      /\ c.retained[r] = Len(OfRule(c.occurrences, r))
      /\ d.retained[r] = Len(OfRule(d.occurrences, r))
  BY DEF Counted
<1>5. /\ Len(OfRule(s, r)) \in Nat /\ Len(OfRule(t, r)) \in Nat
      /\ u[r] \in Nat /\ v[r] \in Nat
  BY OfRuleType
<1>6. e.counts[r] = c.counts[r] + d.counts[r] /\ e.retained[r] = c.retained[r] + d.retained[r]
  BY <1>1 DEF summed
<1>7. /\ Len(OfRule(s \o t, r)) = Len(OfRule(s, r)) + Len(OfRule(t, r))
      /\ Len(OfRule(c.occurrences \o d.occurrences, r)) =
           Len(OfRule(c.occurrences, r)) + Len(OfRule(d.occurrences, r))
  BY <1>2, HowManyConcat
<1>8. e.counts[r] = Len(OfRule(s \o t, r)) + w[r]
  BY <1>3, <1>4, <1>5, <1>6, <1>7
<1>9. QED
  BY <1>1, <1>4, <1>6, <1>7, <1>8

-----------------------------------------------------------------------------
\* The inductive invariant: every box against what it was told.
CountInv ==
  /\ \A b \in Boxes : Counted(box[b], offered[b], unseen[b])
  /\ \A b \in Boxes \ merged : HoldsTheFirst(box[b], offered[b])

LEMMA CountInit == Init => CountInv
<1> SUFFICES ASSUME Init PROVE CountInv
  OBVIOUS
<1> SUFFICES ASSUME NEW b \in Boxes, NEW r \in Rules
             PROVE  /\ box[b].counts[r] = Len(OfRule(offered[b], r)) + unseen[b][r]
                    /\ box[b].retained[r] = Len(OfRule(box[b].occurrences, r))
                    /\ \E t \in Seq(Occurrences) :
                         OfRule(offered[b], r) = OfRule(box[b].occurrences, r) \o t
                    /\ OfRule(offered[b], r) = OfRule(box[b].occurrences, r)
  BY DEF CountInv, Counted, HoldsTheFirst
<1>1. /\ box[b].counts[r] = 0 /\ box[b].retained[r] = 0 /\ box[b].occurrences = <<>>
      /\ unseen[b][r] = 0 /\ offered[b] = <<>>
  BY DEF Init, NewContainer
<1>2. OfRule(<<>>, r) = <<>> /\ Len(<<>>) = 0 /\ <<>> = <<>> \o <<>> /\ <<>> \in Seq(Occurrences)
  BY OfRuleEmpty, EmptySeq, ConcatEmptySeq
<1>3. 0 = 0 + 0
  OBVIOUS
<1>4. QED
  BY <1>1, <1>2, <1>3, Zenon

LEMMA CountNext == TypeOK /\ TypeOK' /\ CountInv /\ [Next]_vars => CountInv'
<1> SUFFICES ASSUME TypeOK, TypeOK', CountInv, [Next]_vars PROVE CountInv'
  OBVIOUS
<1>1. /\ box \in [Boxes -> Container] /\ offered \in [Boxes -> Seq(Occurrences)]
      /\ unseen \in [Boxes -> [Rules -> Nat]] /\ merged \subseteq Boxes
  BY DEF TypeOK
<1>2. ASSUME NEW b \in Boxes, NEW r \in Rules, Add(b, r)
      PROVE  CountInv'
  <2> DEFINE o == [rule_id |-> r, serial |-> serial']
             d == add(box[b], o)
             told == Append(offered[b], o)
  <2>1. serial' \in 1..MaxSerial
    BY <1>2, BoxAssumption DEF Add, TypeOK
  <2>2. o \in Occurrences
    BY <2>1, BoxAssumption
  <2>3. /\ box' = [box EXCEPT ![b] = d] /\ offered' = [offered EXCEPT ![b] = told]
        /\ UNCHANGED <<unseen, merged>>
    BY <1>2 DEF Add
  <2> HIDE DEF o
  <2>4. Counted(d, told, unseen[b])
    BY <1>1, <2>2, AddCounts DEF CountInv
  <2>5. b \notin merged => HoldsTheFirst(d, told)
    BY <1>1, <2>2, AddHoldsTheFirst DEF CountInv
  <2> HIDE DEF d, told
  <2>6. \A e \in Boxes : /\ box'[e] = IF e = b THEN d ELSE box[e]
                         /\ offered'[e] = IF e = b THEN told ELSE offered[e]
    BY <1>1, <2>3
  <2>7. QED
    BY <2>3, <2>4, <2>5, <2>6 DEF CountInv
<1>3. ASSUME NEW b \in Boxes, NEW r \in Rules, NEW n \in 1..2, ObserveDropped(b, r, n)
      PROVE  CountInv'
  <2> DEFINE d == observe_dropped(box[b], r, n)
             u == [unseen[b] EXCEPT ![r] = @ + n]
  <2>1. /\ box' = [box EXCEPT ![b] = d] /\ unseen' = [unseen EXCEPT ![b] = u]
        /\ UNCHANGED <<offered, merged>>
    BY <1>3 DEF ObserveDropped
  <2>0. /\ box[b] \in Container /\ offered[b] \in Seq(Occurrences) /\ n \in Nat
        /\ unseen[b] \in [Rules -> Nat] /\ Counted(box[b], offered[b], unseen[b])
    BY <1>1 DEF CountInv
  <2>2. Counted(d, offered[b], u)
    BY <2>0, ObserveCounts
  <2>3. b \notin merged => HoldsTheFirst(d, offered[b])
    BY <2>0, ObserveCounts DEF CountInv
  <2> HIDE DEF d, u
  <2>4. \A e \in Boxes : /\ box'[e] = IF e = b THEN d ELSE box[e]
                         /\ unseen'[e] = IF e = b THEN u ELSE unseen[e]
    BY <1>1, <2>1
  <2>5. QED
    BY <2>1, <2>2, <2>3, <2>4 DEF CountInv
<1>4. ASSUME NEW b \in Boxes, NEW c \in Boxes, Merge(b, c)
      PROVE  CountInv'
  <2> DEFINE d == merge(box[b], box[c])
             u == [r \in Rules |-> unseen[b][r] + unseen[c][r]]
             told == offered[b] \o offered[c]
  <2>1. /\ box' = [box EXCEPT ![b] = d] /\ unseen' = [unseen EXCEPT ![b] = u]
        /\ offered' = [offered EXCEPT ![b] = told] /\ merged' = merged \cup {b}
    BY <1>4 DEF Merge
  <2>2. Counted(d, told, u)
    BY <1>1, MergeCounts DEF CountInv
  <2> HIDE DEF d, u, told
  <2>3. \A e \in Boxes : /\ box'[e] = IF e = b THEN d ELSE box[e]
                         /\ unseen'[e] = IF e = b THEN u ELSE unseen[e]
                         /\ offered'[e] = IF e = b THEN told ELSE offered[e]
    BY <1>1, <2>1
  <2>4. QED
    BY <2>1, <2>2, <2>3 DEF CountInv
<1>5. CASE UNCHANGED vars
  BY <1>5 DEF vars, CountInv
<1>6. QED
  BY <1>2, <1>3, <1>4, <1>5 DEF Next

\* What is printed of a rule is the first of what is retained of it.
LEMMA SamplesArePrefix ==
  ASSUME NEW s \in Seq(Occurrences), NEW t \in Seq(Occurrences), NEW k \in Nat, k <= Len(s)
  PROVE  IsPrefix(SubSeq(s, 1, k), s \o t)
<1>1. SubSeq(s, 1, k) \in Seq(Occurrences) /\ SubSeq(s, k+1, Len(s)) \in Seq(Occurrences)
  <2>1. \A i \in 1..Len(s) : s[i] \in Occurrences
    BY ElementOfSeq
  <2>2. Len(s) \in Nat
    BY LenProperties
  <2>3. QED
    BY <2>1, <2>2, SubSeqProperties
<1>2. SubSeq(s, 1, k) \o SubSeq(s, k+1, Len(s)) = s
  <2>1. Len(s) \in Nat /\ 1 \in 1..Len(s)+1 /\ k \in (1-1)..Len(s) /\ Len(s) \in k..Len(s)
    BY LenProperties
  <2>2. SubSeq(s, 1, k) \o SubSeq(s, k+1, Len(s)) = SubSeq(s, 1, Len(s))
    BY <2>1, ConcatAdjacentSubSeq
  <2>3. QED
    BY <2>2, SubSeqFull
<1> DEFINE p == SubSeq(s, 1, k)
           q == SubSeq(s, k+1, Len(s))
<1> HIDE DEF p, q
<1>3. s \o t = p \o (q \o t) /\ q \o t \in Seq(Occurrences)
  <2>1. p \in Seq(Occurrences) /\ q \in Seq(Occurrences) /\ s = p \o q
    BY <1>1, <1>2 DEF p, q
  <2>2. (p \o q) \o t = p \o (q \o t)
    BY <2>1, ConcatAssociative
  <2>3. QED
    BY <2>1, <2>2, ConcatProperties
<1>4. IsPrefix(p, p \o (q \o t))
  BY <1>1, <1>3, PrefixOfConcat DEF p
<1>5. QED
  BY <1>3, <1>4 DEF p

\* A container's totals are true, its retained counts are what it holds, and what it
\* prints is the first of what it was offered, for any caps, occurrences and merges.
THEOREM CountsAreTrue == Spec => []CountsHold
<1>1. TypeOK /\ CountInv => CountsHold
  <2> SUFFICES ASSUME TypeOK, CountInv PROVE CountsHold
    OBVIOUS
  <2>1. CountsEverything
    BY DEF CountInv, Counted, CountsEverything, OfferedOf
  <2>2. RetainedIsHeld
    BY DEF CountInv, Counted, RetainedIsHeld, Of
  <2>3. ASSUME NEW b \in Boxes \ merged, NEW r \in Rules
        PROVE  /\ IsPrefix(samples_for(box[b], r), OfferedOf(b, r))
               /\ IsPrefix(Of(box[b], r), OfferedOf(b, r))
    <3> DEFINE kept == Of(box[b], r)
               n == IF Len(kept) < MAX_EXPORTS_PER_RULE THEN Len(kept) ELSE MAX_EXPORTS_PER_RULE
    <3>1. kept \in Seq(Occurrences) /\ Len(kept) \in Nat
      <4>1. box[b].occurrences \in Seq(Occurrences)
        BY Fields DEF TypeOK
      <4>2. QED
        BY <4>1, OfRuleType DEF Of
    <3>2. PICK t \in Seq(Occurrences) : OfferedOf(b, r) = kept \o t
      BY DEF CountInv, HoldsTheFirst, OfferedOf, Of
    <3>3. n \in Nat /\ n <= Len(kept) /\ samples_for(box[b], r) = SubSeq(kept, 1, n)
      BY <3>1, CapsAreNatural DEF samples_for
    <3> HIDE DEF kept, n
    <3>4. QED
      BY <3>1, <3>2, <3>3, PrefixOfConcat, SamplesArePrefix DEF kept
  <2>4. QED
    BY <2>1, <2>2, <2>3 DEF CountsHold, SamplesAreTheFirst
<1>2. BoxInv => TypeOK
  BY DEF BoxInv
<1>3. Spec => []CountInv
  <2>1. CountInv /\ BoxInv /\ BoxInv' /\ [Next]_vars => CountInv'
    BY CountNext DEF BoxInv
  <2>2. QED
    BY <2>1, BoxInvariant, CountInit, PTL DEF Spec
<1>4. QED
  BY <1>1, <1>2, <1>3, BoxInvariant, PTL

=============================================================================
