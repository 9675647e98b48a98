----------------------------- MODULE RuleProofs -----------------------------
(***************************************************************************)
(* Proofs about what rules say of a feed: Headways (E019), MessagePairs    *)
(* (the rules on two messages), TripDescriptorWalk (fifteen rules in one   *)
(* pass), VehicleWalk (the vehicles and P015) and Translations (the walk   *)
(* over what is translated).  Each part's inductive invariant says what the*)
(* findings are, in closed form, of everything the rule is past; the       *)
(* properties are what that form says.                                     *)
(***************************************************************************)
EXTENDS Headways, FiniteSetTheorems, SequenceTheorems, WellFoundedInduction, TLAPS

-----------------------------------------------------------------------------
(* Headways: a start_time that is let pass is a departure, and where the   *)
(* gate lets a feed through the rule says what the jar says.  The two loops*)
(* are read as one: a Turn is what either does to where it stands.  What a *)
(* loop knows is said of the departures it has Behind it.                  *)

-----------------------------------------------------------------------------
(* Multiples: no prover has them, so they are reached by the factor.       *)

LEMMA Division ==
  ASSUME NEW a \in Int, NEW h \in Nat \ {0}
  PROVE  a = (a \div h) * h + (a % h) /\ a % h \in 0..h-1 /\ a \div h \in Int
<1>1. h \in Int /\ h > 0
  OBVIOUS
<1>2. a \div h \in Int /\ a % h \in Int
  BY <1>1, SMT
<1>3. a % h >= 0 /\ a % h < h
  BY <1>1, Z3
<1>4. a = (a \div h) * h + (a % h)
  BY <1>1, Z3
<1> QED
  BY <1>2, <1>3, <1>4

LEMMA SmallMultiple ==
  ASSUME NEW q \in Int, NEW h \in Nat \ {0}, q * h < h, q * h > -h
  PROVE  q = 0
BY Z3

LEMMA MultipleHasNoRemainder ==
  ASSUME NEW q \in Int, NEW h \in Nat \ {0}
  PROVE  (q * h) % h = 0
<1> DEFINE a == q * h
           p == a \div h
           r == a % h
<1>1. a \in Int
  OBVIOUS
<1>2. p \in Int /\ r \in 0..h-1 /\ a = p * h + r
  <2> HIDE DEF a
  <2> QED
    BY <1>1, Division
<1> HIDE DEF p, r
<1>3. (q - p) * h = r
  BY <1>2
<1>4. q - p = 0
  BY <1>2, <1>3, SmallMultiple
<1>5. r = 0
  BY <1>2, <1>3, <1>4
<1> QED
  BY <1>5 DEF r

\* The next multiple.
LEMMA NextMultiple ==
  ASSUME NEW a \in Int, NEW h \in Nat \ {0}, a % h = 0
  PROVE  (a + h) % h = 0
<1> DEFINE q == a \div h
<1>1. q \in Int /\ a = q * h
  BY Division
<1>2. a + h = (q + 1) * h
  BY <1>1
<1> HIDE DEF q
<1> QED
  BY <1>1, <1>2, MultipleHasNoRemainder

\* There is none between a multiple and the next.
LEMMA NoMultipleBetween ==
  ASSUME NEW a \in Int, NEW b \in Int, NEW h \in Nat \ {0}, a % h = 0, b % h = 0, a <= b, b < a + h
  PROVE  a = b
<1> DEFINE p == a \div h
           q == b \div h
<1>1. p \in Int /\ a = p * h
  BY Division
<1>2. q \in Int /\ b = q * h
  BY Division
<1> HIDE DEF p, q
<1> DEFINE d == q - p
<1>3. d \in Int /\ d * h = b - a
  BY <1>1, <1>2
<1> HIDE DEF d
<1>4. d = 0
  BY <1>3, SmallMultiple
<1> QED
  BY <1>3, <1>4

-----------------------------------------------------------------------------
(* Clocks.                                                                 *)

LEMMA ClockParts ==
  ASSUME NEW s \in Int
  PROVE  /\ seconds_after_midnight_to_clock(s) \in Int \X Int \X Int
         /\ Seconds(seconds_after_midnight_to_clock(s)) = s
         /\ seconds_after_midnight_to_clock(s)[2] < 60
         /\ seconds_after_midnight_to_clock(s)[3] < 60
BY DEF seconds_after_midnight_to_clock, _java_div, _java_mod, Seconds

LEMMA ClockOfATime ==
  ASSUME NEW w \in Nat \X Nat \X Nat, IsTime(w)
  PROVE  seconds_after_midnight_to_clock(Seconds(w)) = w /\ Seconds(w) \in Int
<1>1. PICK h \in Nat, m \in Nat, s \in Nat : w = <<h, m, s>>
  OBVIOUS
<1>2. m < 60 /\ s < 60 /\ Seconds(w) = h * 3600 + m * 60 + s
  BY <1>1 DEF IsTime, Seconds
<1>3. seconds_after_midnight_to_clock(h * 3600 + m * 60 + s) = <<h, m, s>>
  BY <1>2 DEF seconds_after_midnight_to_clock, _java_div, _java_mod
<1> QED
  BY <1>1, <1>2, <1>3

LEMMA ClockIsNumbers ==
  ASSUME NEW s \in Int
  PROVE  clock(s) \in Int \X Int \X Int
<1>1. s \div 3600 \in Int /\ s % 360 \in Int /\ s % 60 \in Int
  OBVIOUS
<1>2. vehicle_position_clock(s) \in Int \X Int \X Int
  BY <1>1 DEF vehicle_position_clock
<1> QED
  BY <1>2, ClockParts DEF clock

\* From midnight on the two divisions agree.
LEMMA ClocksAgree ==
  ASSUME NEW s \in Int, half = "vehicle" => s >= 0
  PROVE  jar_clock(s) = clock(s)
<1>1. CASE half # "vehicle"
  BY <1>1 DEF clock, jar_clock
<1>2. CASE half = "vehicle"
  <2>1. s >= 0 /\ ~(s < 0)
    BY <1>2
  <2>2. s - 360 * (s \div 360) = s % 360 /\ s - 60 * (s \div 60) = s % 60
    BY <2>1
  <2> QED
    BY <1>2, <2>1, <2>2 DEF clock, jar_clock, vehicle_position_clock, _java_div, _java_mod
<1> QED
  BY <1>1, <1>2

-----------------------------------------------------------------------------
(* What a loop knows.                                                      *)

Loop == [period : DOMAIN periods, current : Int, last : {None} \cup (Int \X Int \X Int), headway : {None} \cup Int,
         pc : {"looping", "matched", "unmatched"}]

\* The search as it was handed over.
Given ==
  /\ periods \in Seq(Row) /\ periods # <<>>
  /\ wanted \in {None} \cup (Nat \X Nat \X Nat)
  /\ \A k \in DOMAIN periods :
       periods[k].start >= -IntMax - 1 /\ periods[k].end + periods[k].headway <= IntMax

\* The loop has left the departure d of the k-th period behind.
Behind(l, k, d) ==
  /\ k \in DOMAIN periods /\ d \in Int
  /\ Departs(periods[k], d)
  /\ k < l.period \/ (k = l.period /\ d < l.current)

OnGrid(l) ==
  \/ l.current = periods[l.period].start
  \/ /\ periods[l.period].headway > 0 /\ l.current >= periods[l.period].start
     /\ (l.current - periods[l.period].start) % periods[l.period].headway = 0

\* None of those behind was the one that is wanted.
Missed(l) == \A k, d : Behind(l, k, d) => wanted # clock(d)

\* What the loop remembers is the last of those behind, if there was any.
Remembers(l, k, d) ==
  /\ Behind(l, k, d)
  /\ \A j, e : Behind(l, j, e) => j < k \/ (j = k /\ e <= d)
  /\ l.last = clock(d) /\ l.headway = periods[k].headway

Latest(l) ==
  \/ l.last = None /\ l.headway = None /\ \A k, d : ~Behind(l, k, d)
  \/ \E k, d : Remembers(l, k, d)

Walk(l) ==
  /\ OnGrid(l) /\ Missed(l)
  /\ l.pc = "matched" =>
       in_period(l) /\ wanted = clock(l.current) /\ l.last = wanted /\ l.headway = periods[l.period].headway
  /\ l.pc # "matched" => Latest(l)
  /\ l.pc = "unmatched" => l.period = Len(periods) /\ ~in_period(l)

Midnight == half = "vehicle" => \A k \in DOMAIN periods : periods[k].start >= 0

HeadwaysInv ==
  /\ Given
  /\ ~spinning_frequency => ours \in Loop /\ Walk(ours)
  /\ ~spinning_frequency /\ Midnight => jar \in Loop /\ Walk(jar)

\* A period with a departure advances.
LEMMA PeriodsAdvance ==
  ASSUME Given, ~spinning_frequency, NEW k \in DOMAIN periods, periods[k].start < periods[k].end
  PROVE  periods[k].headway \in Nat \ {0}
<1>1. periods[k] \in Row
  BY DEF Given
<1>2. ~(periods[k].headway <= 0)
  BY DEF spinning_frequency, cannot_advance
<1> QED
  BY <1>1, <1>2 DEF Row

-----------------------------------------------------------------------------
(* One turn of either loop.                                                *)

PassOn(l, m) == ~in_period(l) /\ m = NextPeriod(l)

Match(l, m) ==
  /\ in_period(l) /\ wanted = clock(l.current)
  /\ m = [l EXCEPT !.last = clock(l.current), !.headway = periods[l.period].headway, !.pc = "matched"]

Advance(l, m) ==
  /\ in_period(l) /\ wanted # clock(l.current)
  /\ m = [l EXCEPT !.last = clock(l.current), !.headway = periods[l.period].headway,
                   !.current = l.current + periods[l.period].headway]

\* Past the end of a period nothing comes to lie behind or ceases to.
LEMMA PassOnKeeps ==
  ASSUME Given, ~spinning_frequency, NEW l \in Loop, Walk(l), l.pc = "looping", NEW m, PassOn(l, m)
  PROVE  m \in Loop /\ Walk(m)
<1>1. periods[l.period] \in Row /\ l.period \in 1..Len(periods) /\ Len(periods) \in Nat /\ DOMAIN periods = 1..Len(periods)
  BY DEF Loop, Given
<1>2. CASE l.period = Len(periods)
  <2>1. m = [l EXCEPT !.pc = "unmatched"]
    BY <1>2 DEF PassOn, NextPeriod
  <2>2. m \in Loop /\ m.pc = "unmatched" /\ m.period = l.period /\ m.current = l.current
        /\ m.last = l.last /\ m.headway = l.headway
    BY <2>1 DEF Loop
  <2>3. \A k, d : Behind(m, k, d) <=> Behind(l, k, d)
    BY <2>2 DEF Behind
  <2>4. OnGrid(m) /\ ~in_period(m)
    BY <2>2 DEF Walk, OnGrid, in_period, PassOn
  <2>5. Missed(m)
    BY <2>3 DEF Walk, Missed
  <2>6. Latest(m)
    BY <2>2, <2>3 DEF Walk, Latest, Remembers
  <2> QED
    BY <1>2, <2>2, <2>4, <2>5, <2>6 DEF Walk
<1>3. CASE l.period # Len(periods)
  <2> DEFINE p == l.period + 1
  <2>1. p \in DOMAIN periods /\ periods[p] \in Row
    BY <1>1, <1>3 DEF Given
  <2>2. m = [l EXCEPT !.period = l.period + 1, !.current = periods[l.period + 1].start]
    BY <1>3 DEF PassOn, NextPeriod
  <2>3. m \in Loop /\ m.pc = "looping" /\ m.period = p /\ m.current = periods[p].start
        /\ m.last = l.last /\ m.headway = l.headway
    BY <2>1, <2>2 DEF Loop, Row
  <2>4. ASSUME NEW k, NEW d PROVE Behind(m, k, d) <=> Behind(l, k, d)
    <3>1. l.current \in Int /\ l.current >= periods[l.period].end /\ periods[l.period].end \in Int
      BY <1>1 DEF Loop, PassOn, in_period, Row
    <3>2. ASSUME Behind(m, k, d) PROVE Behind(l, k, d)
      <4>1. k \in 1..Len(periods) /\ d \in Int /\ d >= periods[k].start /\ d < periods[k].end
        BY <1>1, <3>2 DEF Behind, Departs
      <4>2. k < p \/ (k = p /\ d < periods[p].start)
        BY <2>3, <3>2 DEF Behind
      <4>3. k < p
        BY <2>1, <4>1, <4>2 DEF Row
      <4>4. k < l.period \/ k = l.period
        BY <1>1, <4>1, <4>3
      <4> QED
        BY <3>1, <3>2, <4>1, <4>4 DEF Behind
    <3>3. ASSUME Behind(l, k, d) PROVE Behind(m, k, d)
      BY <1>1, <2>3, <3>3 DEF Behind
    <3> QED
      BY <3>2, <3>3
  <2> HIDE DEF p
  <2>5. OnGrid(m)
    BY <2>3 DEF OnGrid
  <2>6. Missed(m)
    BY <2>4 DEF Walk, Missed
  <2>7. Latest(m)
    BY <2>3, <2>4 DEF Walk, Latest, Remembers
  <2> QED
    BY <2>3, <2>5, <2>6, <2>7 DEF Walk
<1> QED
  BY <1>2, <1>3

LEMMA MatchKeeps ==
  ASSUME Given, NEW l \in Loop, Walk(l), l.pc = "looping", NEW m, Match(l, m)
  PROVE  m \in Loop /\ Walk(m)
<1>1. clock(l.current) \in Int \X Int \X Int /\ periods[l.period].headway \in Int
  <2>1. l.current \in Int /\ periods[l.period] \in Row
    BY DEF Loop, Given
  <2> QED
    BY <2>1, ClockIsNumbers DEF Row
<1>2. m \in Loop /\ m.pc = "matched" /\ m.period = l.period /\ m.current = l.current
      /\ m.last = clock(l.current) /\ m.headway = periods[l.period].headway
  BY <1>1 DEF Match, Loop
<1>3. \A k, d : Behind(m, k, d) <=> Behind(l, k, d)
  BY <1>2 DEF Behind
<1>4. OnGrid(m) /\ Missed(m)
  BY <1>2, <1>3 DEF Walk, OnGrid, Missed
<1>5. in_period(m) /\ wanted = clock(m.current)
  BY <1>2 DEF Match, in_period
<1> QED
  BY <1>2, <1>4, <1>5 DEF Walk

\* The candidate is a departure, and the last of those that are behind now.
LEMMA AdvanceKeeps ==
  ASSUME Given, ~spinning_frequency, NEW l \in Loop, Walk(l), l.pc = "looping", NEW m, Advance(l, m)
  PROVE  m \in Loop /\ Walk(m)
<1> DEFINE row == periods[l.period]
           c == l.current
<1>1. row \in Row /\ l.period \in 1..Len(periods) /\ DOMAIN periods = 1..Len(periods) /\ c \in Int /\ l.period \in Int
  BY DEF Loop, Given
<1>2. row.start \in Int /\ row.end \in Int /\ row.headway \in Int /\ c < row.end
  BY <1>1 DEF Row, Advance, in_period
<1>3. row.start <= c
  BY <1>1, <1>2 DEF Walk, OnGrid
<1>4. row.headway \in Nat \ {0}
  BY <1>1, <1>2, <1>3, PeriodsAdvance
<1>5. (c - row.start) % row.headway = 0
  <2>1. CASE c = row.start
    <3>1. 0 % row.headway = 0
      BY <1>4, MultipleHasNoRemainder, 0 * row.headway = 0
    <3> QED
      BY <1>2, <2>1, <3>1
  <2>2. CASE c # row.start
    BY <2>2 DEF Walk, OnGrid
  <2> QED
    BY <2>1, <2>2
<1>6. clock(c) \in Int \X Int \X Int
  BY <1>1, ClockIsNumbers
<1>7. m \in Loop /\ m.pc = "looping" /\ m.period = l.period /\ m.current = c + row.headway
      /\ m.last = clock(c) /\ m.headway = row.headway
  <2>1. m = [l EXCEPT !.last = clock(c), !.headway = row.headway, !.current = c + row.headway]
    BY DEF Advance
  <2>2. c + row.headway \in Int
    BY <1>1, <1>2
  <2> HIDE DEF row, c
  <2> QED
    BY <1>2, <1>6, <2>1, <2>2 DEF Loop
<1> HIDE DEF row, c
<1>8. Behind(m, l.period, c)
  BY <1>1, <1>2, <1>3, <1>4, <1>5, <1>7 DEF Behind, Departs, row, c
<1>9. ASSUME NEW k, NEW d, Behind(m, k, d) PROVE Behind(l, k, d) \/ (k = l.period /\ d = c)
  <2>1. k \in 1..Len(periods) /\ d \in Int /\ Departs(periods[k], d)
    BY <1>1, <1>9 DEF Behind
  <2>2. CASE k < l.period
    BY <1>9, <2>1, <2>2 DEF Behind
  <2>3. CASE k = l.period
    <3>1. d < c + row.headway
      BY <1>1, <1>7, <1>9, <2>1, <2>3 DEF Behind
    <3>2. (d - row.start) % row.headway = 0
      BY <2>1, <2>3 DEF Departs, row
    <3>3. CASE d < c
      BY <1>9, <2>1, <2>3, <3>3 DEF Behind, c
    <3>4. CASE d >= c
      <4>1. c - row.start = d - row.start
        <5> DEFINE a == c - row.start
                   b == d - row.start
        <5>1. a \in Int /\ b \in Int /\ a <= b /\ b < a + row.headway
          BY <1>1, <1>2, <2>1, <3>1, <3>4
        <5>2. a % row.headway = 0 /\ b % row.headway = 0
          BY <1>5, <3>2
        <5> HIDE DEF a, b
        <5>3. a = b
          BY <1>4, <5>1, <5>2, NoMultipleBetween
        <5> QED
          BY <5>3 DEF a, b
      <4>2. d = c
        BY <1>1, <1>2, <2>1, <4>1
      <4> QED
        BY <2>3, <4>2
    <3> QED
      BY <1>1, <2>1, <3>3, <3>4
  <2> QED
    BY <1>1, <1>7, <1>9, <2>1, <2>2, <2>3 DEF Behind
<1>10. OnGrid(m)
  <2> DEFINE a == c - row.start
  <2>1. a \in Int /\ a % row.headway = 0
    BY <1>1, <1>2, <1>5
  <2> HIDE DEF a
  <2>2. (a + row.headway) % row.headway = 0
    BY <1>4, <2>1, NextMultiple
  <2>3. a + row.headway = m.current - row.start
    BY <1>1, <1>2, <1>7 DEF a
  <2>4. m.current >= row.start
    BY <1>1, <1>2, <1>3, <1>4, <1>7
  <2> QED
    BY <1>4, <1>7, <2>2, <2>3, <2>4 DEF OnGrid, row
<1>11. Missed(m)
  BY <1>9 DEF Walk, Missed, Advance, c
<1>12. Remembers(m, l.period, c)
  <2>1. ASSUME NEW k, NEW d, Behind(m, k, d) PROVE k < l.period \/ (k = l.period /\ d <= c)
    <3>1. CASE Behind(l, k, d)
      <4>1. d \in Int /\ (k < l.period \/ (k = l.period /\ d < c))
        BY <3>1 DEF Behind, c
      <4> QED
        BY <1>1, <4>1
    <3> QED
      BY <1>1, <1>9, <2>1, <3>1
  <2> QED
    BY <1>7, <1>8, <2>1 DEF Remembers, row
<1> QED
  BY <1>7, <1>10, <1>11, <1>12 DEF Walk, Latest

-----------------------------------------------------------------------------
(* The steps are turns.                                                    *)

LEMMA OurTurn ==
  ASSUME LegalInputs, Given, ~spinning_frequency, ours \in Loop, Walk(ours), _search
  PROVE  PassOn(ours, ours') \/ Match(ours, ours') \/ Advance(ours, ours')
<1> DEFINE tried == Tried(ours, clock(ours.current))
<1>1. ours.pc = "looping"
      /\ ours' = IF in_period(ours) THEN Try(tried, start_times(tried)) ELSE NextPeriod(ours)
  BY DEF _search
<1>2. CASE ~in_period(ours)
  BY <1>1, <1>2 DEF PassOn
<1>3. CASE in_period(ours)
  <2>1. ours.current \in Int /\ ours.period \in DOMAIN periods /\ periods[ours.period] \in Row
    BY DEF Loop, Given
  <2>2. clock(ours.current) \in Int \X Int \X Int /\ clock(ours.current) # None
    BY <2>1, ClockIsNumbers DEF LegalInputs
  <2>3. tried.last = clock(ours.current) /\ tried.period = ours.period /\ tried.current = ours.current
    BY DEF Tried, Loop
  <2>4. tried = [ours EXCEPT !.last = clock(ours.current), !.headway = periods[ours.period].headway]
    BY DEF Tried
  <2>5. CASE wanted = clock(ours.current)
    <3>1. ours' = [tried EXCEPT !.pc = "matched"]
      BY <1>1, <1>3, <2>2, <2>3, <2>5 DEF Try
    <3>2. ours' = [ours EXCEPT !.last = clock(ours.current), !.headway = periods[ours.period].headway, !.pc = "matched"]
      BY <2>4, <3>1
    <3> QED
      BY <1>3, <2>5, <3>2 DEF Match
  <2>6. CASE wanted # clock(ours.current)
    <3>1. ours.current < periods[ours.period].end /\ ours.current >= periods[ours.period].start
      BY <1>3, <2>1 DEF in_period, Walk, OnGrid, Row
    <3>2. periods[ours.period].headway \in Nat \ {0}
      BY <2>1, <3>1, PeriodsAdvance DEF Row
    <3>3. ours' = start_times(tried)
      BY <1>1, <1>3, <2>3, <2>6 DEF Try
    <3>4. ours' = [tried EXCEPT !.current = tried.current + periods[tried.period].headway]
      BY <2>3, <3>2, <3>3 DEF start_times
    <3>5. ours' = [ours EXCEPT !.last = clock(ours.current), !.headway = periods[ours.period].headway,
                               !.current = ours.current + periods[ours.period].headway]
      BY <2>3, <2>4, <3>4
    <3> QED
      BY <1>3, <2>6, <3>5 DEF Advance
  <2> QED
    BY <2>5, <2>6
<1> QED
  BY <1>2, <1>3

\* From midnight on the jar divides as this does, and its int never runs over.
LEMMA JarTurn ==
  ASSUME LegalInputs, Given, ~spinning_frequency, Midnight, jar \in Loop, Walk(jar), FrequencyTypeOneValidator
  PROVE  PassOn(jar, jar') \/ Match(jar, jar') \/ Advance(jar, jar')
<1> DEFINE tried == Tried(jar, jar_clock(jar.current))
           row == periods[jar.period]
<1>1. jar.pc = "looping"
      /\ jar' = IF jar.current < row.end THEN Try(tried, [tried EXCEPT !.current = Wrap(tried.current + periods[jar.period].headway)])
                ELSE NextPeriod(jar)
  BY DEF FrequencyTypeOneValidator
<1>2. CASE ~in_period(jar)
  BY <1>1, <1>2 DEF PassOn, in_period
<1>3. CASE in_period(jar)
  <2>1. jar.current \in Int /\ jar.period \in DOMAIN periods /\ row \in Row
    BY DEF Loop, Given
  <2>2. jar.current < row.end /\ jar.current >= row.start /\ row.start \in Int /\ row.end \in Int /\ row.headway \in Int
    BY <1>3, <2>1 DEF in_period, Walk, OnGrid, Row
  <2>3. jar_clock(jar.current) = clock(jar.current)
    <3>1. half = "vehicle" => jar.current >= 0
      BY <2>1, <2>2 DEF Midnight
    <3> QED
      BY <2>1, <3>1, ClocksAgree
  <2>4. clock(jar.current) # None
    BY <2>1, ClockIsNumbers DEF LegalInputs
  <2>5. tried = [jar EXCEPT !.last = clock(jar.current), !.headway = row.headway]
    BY <2>3 DEF Tried
  <2>6. tried.last = clock(jar.current) /\ tried.period = jar.period /\ tried.current = jar.current
    BY <2>5 DEF Loop
  <2>7. CASE wanted = clock(jar.current)
    <3>1. jar' = [tried EXCEPT !.pc = "matched"]
      BY <1>1, <2>2, <2>4, <2>6, <2>7 DEF Try
    <3>2. jar' = [jar EXCEPT !.last = clock(jar.current), !.headway = row.headway, !.pc = "matched"]
      BY <2>5, <3>1
    <3> QED
      BY <1>3, <2>7, <3>2 DEF Match
  <2>8. CASE wanted # clock(jar.current)
    <3>1. row.headway \in Nat \ {0}
      BY <2>1, <2>2, PeriodsAdvance
    <3>2. Wrap(jar.current + row.headway) = jar.current + row.headway
      <4>1. row.start >= -IntMax - 1 /\ row.end + row.headway <= IntMax /\ IntMax \in Nat
        BY <2>1 DEF Given, LegalInputs
      <4> HIDE DEF row
      <4>2. jar.current + row.headway <= IntMax /\ jar.current + row.headway >= -IntMax - 1
        BY <2>1, <2>2, <3>1, <4>1
      <4> QED
        BY <2>1, <2>2, <4>1, <4>2 DEF Wrap
    <3>3. jar' = [tried EXCEPT !.current = Wrap(tried.current + row.headway)]
      BY <1>1, <2>2, <2>6, <2>8 DEF Try
    <3>4. jar' = [jar EXCEPT !.last = clock(jar.current), !.headway = row.headway, !.current = jar.current + row.headway]
      BY <2>5, <2>6, <3>2, <3>3
    <3> QED
      BY <1>3, <2>8, <3>4 DEF Advance
  <2> QED
    BY <2>7, <2>8
<1> QED
  BY <1>2, <1>3

-----------------------------------------------------------------------------
(* The invariant.                                                          *)

LEMMA FreshWalks ==
  ASSUME Given, Fresh \in Loop
  PROVE  Walk(Fresh)
<1>1. Fresh.period = 1 /\ Fresh.current = periods[1].start /\ Fresh.last = None /\ Fresh.headway = None /\ Fresh.pc = "looping"
  BY DEF Fresh
<1>2. 1 \in DOMAIN periods /\ periods[1] \in Row /\ DOMAIN periods = 1..Len(periods) /\ Len(periods) \in Nat
  BY DEF Given
<1>3. \A k, d : ~Behind(Fresh, k, d)
  BY <1>1, <1>2 DEF Behind, Departs, Row
<1> QED
  BY <1>1, <1>3 DEF Walk, OnGrid, Missed, Latest

LEMMA HeadwaysInit ==
  ASSUME LegalInputs, Init
  PROVE  HeadwaysInv
<1>1. PICK s \in Searches : periods = s.periods /\ half = s.half /\ wanted = s.wanted
  BY DEF Init
<1>2. s \in Search /\ s.periods # <<>>
      /\ \A k \in DOMAIN s.periods : s.periods[k].start >= -IntMax - 1 /\ s.periods[k].end + s.periods[k].headway <= IntMax
  BY DEF LegalInputs
<1>3. Given
  BY <1>1, <1>2 DEF Given, Search
<1>4. Fresh \in Loop
  <2>1. 1 \in DOMAIN periods /\ periods[1] \in Row
    BY <1>3 DEF Given
  <2> QED
    BY <2>1 DEF Fresh, Loop, Row
<1> QED
  BY <1>3, <1>4, FreshWalks DEF HeadwaysInv, Init

\* What is said of a loop is said of the search it is in.
LEMMA SameSearch ==
  ASSUME UNCHANGED <<periods, half, wanted>>
  PROVE  /\ Given' <=> Given
         /\ Loop' = Loop
         /\ spinning_frequency' <=> spinning_frequency
         /\ Midnight' <=> Midnight
         /\ \A l : Walk(l)' <=> Walk(l)
<1>1. Given' <=> Given
  BY DEF Given
<1>2. Loop' = Loop
  BY DEF Loop
<1>3. (spinning_frequency' <=> spinning_frequency) /\ (Midnight' <=> Midnight)
  BY DEF spinning_frequency, Midnight
<1>4. ASSUME NEW l PROVE Walk(l)' <=> Walk(l)
  <2>1. ASSUME NEW s PROVE clock(s)' = clock(s)
    BY DEF clock
  <2>2. ASSUME NEW k, NEW d PROVE Behind(l, k, d)' <=> Behind(l, k, d)
    BY DEF Behind
  <2>3. (OnGrid(l)' <=> OnGrid(l)) /\ (in_period(l)' <=> in_period(l))
    BY DEF OnGrid, in_period
  <2>4. Missed(l)' <=> Missed(l)
    BY <2>1, <2>2 DEF Missed
  <2>5. Latest(l)' <=> Latest(l)
    BY <2>1, <2>2 DEF Latest, Remembers
  <2> QED
    BY <2>1, <2>3, <2>4, <2>5 DEF Walk
<1> QED
  BY <1>1, <1>2, <1>3, <1>4

LEMMA HeadwaysInductive ==
  ASSUME LegalInputs, HeadwaysInv, [Next]_vars
  PROVE  HeadwaysInv'
<1>1. CASE _search
  <2>1. UNCHANGED <<periods, half, wanted, jar>>
    BY <1>1 DEF _search
  <2>2. ASSUME ~spinning_frequency PROVE ours' \in Loop /\ Walk(ours')
    <3>1. Given /\ ours \in Loop /\ Walk(ours) /\ ours.pc = "looping"
      BY <1>1, <2>2 DEF HeadwaysInv, _search
    <3> QED
      BY <1>1, <2>2, <3>1, OurTurn, PassOnKeeps, MatchKeeps, AdvanceKeeps
  <2> QED
    BY <2>1, <2>2, SameSearch DEF HeadwaysInv
<1>2. CASE FrequencyTypeOneValidator
  <2>1. UNCHANGED <<periods, half, wanted, ours>>
    BY <1>2 DEF FrequencyTypeOneValidator
  <2>2. ASSUME ~spinning_frequency, Midnight PROVE jar' \in Loop /\ Walk(jar')
    <3>1. Given /\ jar \in Loop /\ Walk(jar) /\ jar.pc = "looping"
      BY <1>2, <2>2 DEF HeadwaysInv, FrequencyTypeOneValidator
    <3> QED
      BY <1>2, <2>2, <3>1, JarTurn, PassOnKeeps, MatchKeeps, AdvanceKeeps
  <2> QED
    BY <2>1, <2>2, SameSearch DEF HeadwaysInv
<1>3. CASE UNCHANGED vars
  <2>1. UNCHANGED <<periods, half, wanted, ours, jar>>
    BY <1>3 DEF vars
  <2> QED
    BY <2>1, SameSearch DEF HeadwaysInv
<1> QED
  BY <1>1, <1>2, <1>3 DEF Next

LEMMA SpecHeadwaysInv ==
  ASSUME LegalInputs
  PROVE  Spec => []HeadwaysInv
<1>1. Init => HeadwaysInv
  BY HeadwaysInit
<1>2. HeadwaysInv /\ [Next]_vars => HeadwaysInv'
  BY HeadwaysInductive
<1> QED
  BY <1>1, <1>2, PTL DEF Spec

-----------------------------------------------------------------------------
(* What a loop has found when it is done.                                  *)

\* What is let pass is a departure's clock.
LEMMA MatchedDeparts ==
  ASSUME Given, ~spinning_frequency, NEW l \in Loop, Walk(l), l.pc = "matched"
  PROVE  /\ l.period \in DOMAIN periods /\ l.current \in Int /\ Departs(periods[l.period], l.current)
         /\ wanted = clock(l.current)
<1> DEFINE row == periods[l.period]
<1>1. l.period \in DOMAIN periods /\ l.current \in Int /\ row \in Row
  BY DEF Loop, Given
<1>2. row.start \in Int /\ row.end \in Int /\ row.headway \in Int /\ l.current < row.end /\ wanted = clock(l.current)
  BY <1>1 DEF Row, Walk, in_period
<1>3. row.start <= l.current
  BY <1>1, <1>2 DEF Walk, OnGrid
<1>4. row.headway \in Nat \ {0}
  BY <1>1, <1>2, <1>3, PeriodsAdvance
<1>5. (l.current - row.start) % row.headway = 0
  <2>1. CASE l.current = row.start
    <3>1. 0 % row.headway = 0
      BY <1>4, MultipleHasNoRemainder, 0 * row.headway = 0
    <3> QED
      BY <1>2, <2>1, <3>1
  <2>2. CASE l.current # row.start
    BY <2>2 DEF Walk, OnGrid
  <2> QED
    BY <2>1, <2>2
<1> QED
  BY <1>1, <1>2, <1>3, <1>5 DEF Departs

\* A loop past its last period has every departure behind it.
LEMMA UnmatchedPassed ==
  ASSUME Given, NEW l \in Loop, Walk(l), l.pc = "unmatched",
         NEW k \in DOMAIN periods, NEW d \in Int, Departs(periods[k], d)
  PROVE  Behind(l, k, d)
<1>1. l.period = Len(periods) /\ l.current >= periods[l.period].end
  <2>1. l.current \in Int /\ periods[l.period] \in Row
    BY DEF Loop, Given
  <2>2. periods[l.period].end \in Int
    BY <2>1 DEF Row
  <2> QED
    BY <2>1, <2>2 DEF Walk, in_period
<1>2. k \in 1..Len(periods) /\ Len(periods) \in Nat /\ l.current \in Int
  BY DEF Given, Loop
<1>3. d < periods[k].end /\ periods[k].end \in Int
  <2>1. periods[k] \in Row
    BY DEF Given
  <2> QED
    BY <2>1 DEF Departs, Row
<1>4. k < l.period \/ d < l.current
  BY <1>1, <1>2, <1>3
<1> QED
  BY <1>1, <1>2, <1>4 DEF Behind

\* A start_time that E019 lets pass in a trip update or an alert is a departure of one of
\* the trip's periods, and every departure is let pass, for any periods (_search).
THEOREM SilentIsADepartureAlways ==
  ASSUME LegalInputs
  PROVE  Spec => []SilentIsADeparture
<1>1. ASSUME HeadwaysInv PROVE SilentIsADeparture
  <2> SUFFICES ASSUME half # "vehicle", Done(ours), ~spinning_frequency
               PROVE  ~Reported <=> wanted # None /\ IsTime(wanted)
                                    /\ \E k \in DOMAIN periods : Departs(periods[k], Seconds(wanted))
    BY DEF SilentIsADeparture
  <2>1. Given /\ ours \in Loop /\ Walk(ours)
    BY <1>1 DEF HeadwaysInv
  <2>2. \A s : clock(s) = seconds_after_midnight_to_clock(s)
    BY DEF clock
  <2>3. ASSUME ours.pc = "matched"
        PROVE  wanted # None /\ IsTime(wanted) /\ \E k \in DOMAIN periods : Departs(periods[k], Seconds(wanted))
    <3>1. ours.period \in DOMAIN periods /\ ours.current \in Int /\ Departs(periods[ours.period], ours.current)
          /\ wanted = seconds_after_midnight_to_clock(ours.current)
      BY <2>1, <2>2, <2>3, MatchedDeparts
    <3>2. wanted \in Int \X Int \X Int /\ Seconds(wanted) = ours.current /\ wanted[2] < 60 /\ wanted[3] < 60
      BY <3>1, ClockParts
    <3> QED
      BY <3>1, <3>2 DEF LegalInputs, IsTime
  <2>4. ASSUME ours.pc = "unmatched", wanted # None, IsTime(wanted),
               NEW k \in DOMAIN periods, Departs(periods[k], Seconds(wanted))
        PROVE  FALSE
    <3>1. wanted \in Nat \X Nat \X Nat
      BY <2>1, <2>4 DEF Given
    <3>2. clock(Seconds(wanted)) = wanted /\ Seconds(wanted) \in Int
      BY <2>2, <2>4, <3>1, ClockOfATime
    <3>3. Behind(ours, k, Seconds(wanted))
      BY <2>1, <2>4, <3>2, UnmatchedPassed
    <3> QED
      BY <2>1, <3>2, <3>3 DEF Walk, Missed
  <2> QED
    BY <2>3, <2>4 DEF Done, Reported
<1> QED
  BY <1>1, SpecHeadwaysInv, PTL

\* Two loops that are done agree, whatever turns they took.
LEMMA LoopsAgree ==
  ASSUME Given, ~spinning_frequency, NEW l \in Loop, NEW m \in Loop, Walk(l), Walk(m), Done(l), Done(m)
  PROVE  l.pc = m.pc /\ l.last = m.last /\ l.headway = m.headway
<1>1. ASSUME NEW p \in Loop, NEW q \in Loop, Walk(p), Walk(q), p.pc = "matched", q.pc = "unmatched" PROVE FALSE
  <2>1. p.period \in DOMAIN periods /\ p.current \in Int /\ Departs(periods[p.period], p.current)
        /\ wanted = clock(p.current)
    BY <1>1, MatchedDeparts
  <2>2. Behind(q, p.period, p.current)
    BY <1>1, <2>1, UnmatchedPassed
  <2> QED
    BY <1>1, <2>1, <2>2 DEF Walk, Missed
<1>2. l.pc = m.pc
  BY <1>1 DEF Done
<1>3. CASE l.pc = "matched"
  <2>1. ASSUME NEW p \in Loop, NEW q \in Loop, Walk(p), Walk(q), p.pc = "matched", p.period < q.period PROVE FALSE
    <3>1. p.period \in DOMAIN periods /\ p.current \in Int /\ Departs(periods[p.period], p.current)
          /\ wanted = clock(p.current)
      BY <2>1, MatchedDeparts
    <3>2. Behind(q, p.period, p.current)
      BY <2>1, <3>1 DEF Behind
    <3> QED
      BY <2>1, <3>1, <3>2 DEF Walk, Missed
  <2>2. ~(l.period < m.period) /\ ~(m.period < l.period)
    BY <1>2, <1>3, <2>1
  <2>3. l.period = m.period
    BY <2>2 DEF Loop, Given
  <2> QED
    BY <1>2, <1>3, <2>3 DEF Walk
<1>4. CASE l.pc = "unmatched"
  <2>1. \A k, d : Behind(l, k, d) <=> Behind(m, k, d)
    <3>1. ASSUME NEW p \in Loop, NEW q \in Loop, Walk(q), q.pc = "unmatched", NEW k, NEW d, Behind(p, k, d)
          PROVE  Behind(q, k, d)
      <4>1. k \in DOMAIN periods /\ d \in Int /\ Departs(periods[k], d)
        BY <3>1 DEF Behind
      <4> QED
        BY <3>1, <4>1, UnmatchedPassed
    <3> QED
      BY <1>2, <1>4, <3>1
  <2>2. Latest(l) /\ Latest(m)
    BY <1>2, <1>4 DEF Walk
  <2>3. CASE \A k, d : ~Behind(l, k, d)
    BY <1>2, <2>1, <2>2, <2>3 DEF Latest, Remembers
  <2>4. CASE \E k, d : Behind(l, k, d)
    <3>1. PICK k, d : Remembers(l, k, d)
      BY <2>2, <2>4 DEF Latest
    <3>2. PICK j, e : Remembers(m, j, e)
      BY <2>1, <2>2, <2>4 DEF Latest
    <3>3. Behind(l, k, d) /\ Behind(m, k, d) /\ Behind(l, j, e) /\ Behind(m, j, e)
      BY <2>1, <3>1, <3>2 DEF Remembers
    <3>4. (j < k \/ (j = k /\ e <= d)) /\ (k < j \/ (k = j /\ d <= e))
      BY <3>1, <3>2, <3>3 DEF Remembers
    <3>5. j \in 1..Len(periods) /\ k \in 1..Len(periods) /\ Len(periods) \in Nat /\ d \in Int /\ e \in Int
      BY <3>3 DEF Behind, Given
    <3>6. j = k /\ d = e
      BY <3>4, <3>5
    <3> QED
      BY <1>2, <3>1, <3>2, <3>6 DEF Remembers
  <2> QED
    BY <2>3, <2>4
<1> QED
  BY <1>3, <1>4 DEF Done

\* On every feed the gate lets through, the search and the jar's loop agree down to the
\* candidate and the headway of the prefix; of a vehicle from midnight on (e019.py).
THEOREM AsTheJarSaysAlways ==
  ASSUME LegalInputs
  PROVE  Spec => []AsTheJarSays
<1>1. HeadwaysInv => AsTheJarSays
  BY LoopsAgree DEF HeadwaysInv, AsTheJarSays, Agree, Midnight
<1> QED
  BY <1>1, SpecHeadwaysInv, PTL

-----------------------------------------------------------------------------
(* Where the loops stand, on any feed.                                     *)

Stands(l) ==
  /\ l.current >= periods[l.period].start
  /\ l.current < periods[l.period].end + periods[l.period].headway \/ l.current = periods[l.period].start

Types == Given /\ ours \in Loop /\ jar \in Loop /\ Stands(ours) /\ (wanted = None => ours.pc # "matched")

LEMMA NextPeriodStands ==
  ASSUME Given, NEW l \in Loop
  PROVE  /\ NextPeriod(l) \in Loop /\ NextPeriod(l).pc \in {l.pc, "unmatched"}
         /\ Stands(l) => Stands(NextPeriod(l))
<1>1. l.period \in 1..Len(periods) /\ Len(periods) \in Nat /\ DOMAIN periods = 1..Len(periods)
  BY DEF Loop, Given
<1>2. CASE l.period = Len(periods)
  <2>1. NextPeriod(l) = [l EXCEPT !.pc = "unmatched"]
    BY <1>2 DEF NextPeriod
  <2>2. NextPeriod(l) \in Loop /\ NextPeriod(l).pc = "unmatched" /\ NextPeriod(l).period = l.period
        /\ NextPeriod(l).current = l.current
    BY <2>1 DEF Loop
  <2> QED
    BY <2>2 DEF Stands
<1>3. CASE l.period # Len(periods)
  <2> DEFINE p == l.period + 1
  <2>1. p \in DOMAIN periods /\ periods[p] \in Row
    BY <1>1, <1>3 DEF Given
  <2>2. NextPeriod(l) = [l EXCEPT !.period = p, !.current = periods[p].start]
    BY <1>3 DEF NextPeriod
  <2>3. periods[p].start \in Int
    BY <2>1 DEF Row
  <2> HIDE DEF p
  <2>4. NextPeriod(l) \in Loop /\ NextPeriod(l).pc = l.pc /\ NextPeriod(l).period = p
        /\ NextPeriod(l).current = periods[p].start
    BY <2>1, <2>2, <2>3 DEF Loop
  <2> QED
    BY <2>3, <2>4 DEF Stands
<1> QED
  BY <1>2, <1>3

LEMMA TriedIsALoop ==
  ASSUME Given, NEW l \in Loop, NEW c \in Int \X Int \X Int
  PROVE  Tried(l, c) \in Loop /\ Tried(l, c).period = l.period /\ Tried(l, c).current = l.current /\ Tried(l, c).pc = l.pc
         /\ Tried(l, c).last = c
<1>1. periods[l.period] \in Row
  BY DEF Loop, Given
<1>2. periods[l.period].headway \in Int
  BY <1>1 DEF Row
<1> QED
  BY <1>2 DEF Tried, Loop

LEMMA OursStands ==
  ASSUME Types, _search
  PROVE  ours' \in Loop /\ Stands(ours') /\ (wanted = None => ours'.pc # "matched")
<1> DEFINE tried == Tried(ours, clock(ours.current))
           row == periods[ours.period]
<1>1. Given /\ ours \in Loop /\ Stands(ours) /\ ours.pc = "looping" /\ ours.current \in Int /\ row \in Row
  BY DEF Types, _search, Loop, Given
<1>2. ours' = IF in_period(ours) THEN Try(tried, start_times(tried)) ELSE NextPeriod(ours)
  BY DEF _search
<1>3. tried \in Loop /\ tried.period = ours.period /\ tried.current = ours.current /\ tried.pc = "looping"
  BY <1>1, ClockIsNumbers, TriedIsALoop
<1>4. row.start \in Int /\ row.end \in Int /\ row.headway \in Int
  BY <1>1 DEF Row
<1> HIDE DEF tried, row
<1>5. Stands(tried)
  BY <1>1, <1>3 DEF Stands
<1>6. CASE ~in_period(ours)
  BY <1>1, <1>2, <1>6, NextPeriodStands
<1>7. CASE in_period(ours) /\ wanted # None /\ wanted = tried.last
  <2>1. ours' = [tried EXCEPT !.pc = "matched"]
    BY <1>2, <1>7 DEF Try
  <2>2. ours' \in Loop /\ ours'.period = tried.period /\ ours'.current = tried.current
    BY <1>3, <2>1 DEF Loop
  <2> QED
    BY <1>5, <1>7, <2>2 DEF Stands
<1>8. CASE in_period(ours) /\ ~(wanted # None /\ wanted = tried.last)
  <2>1. ours' = start_times(tried)
    BY <1>2, <1>8 DEF Try
  <2>2. CASE row.headway <= 0
    <3>1. ours' = NextPeriod(tried)
      BY <1>3, <2>1, <2>2 DEF start_times, row
    <3> QED
      BY <1>1, <1>3, <1>5, <3>1, NextPeriodStands
  <2>3. CASE ~(row.headway <= 0)
    <3>1. ours' = [tried EXCEPT !.current = ours.current + row.headway]
      BY <1>3, <2>1, <2>3 DEF start_times, row
    <3>2. ours.current + row.headway \in Int
      BY <1>1, <1>4
    <3>3. ours' \in Loop /\ ours'.period = ours.period /\ ours'.current = ours.current + row.headway /\ ours'.pc = "looping"
      BY <1>3, <3>1, <3>2 DEF Loop
    <3>4. ours.current < row.end /\ ours.current >= row.start
      BY <1>1, <1>8 DEF in_period, Stands, row
    <3>5. ours'.current >= row.start /\ ours'.current < row.end + row.headway
      BY <1>1, <1>4, <2>3, <3>3, <3>4
    <3> QED
      BY <3>3, <3>5 DEF Stands, row
  <2> QED
    BY <2>2, <2>3
<1> QED
  BY <1>6, <1>7, <1>8

LEMMA JarIsALoop ==
  ASSUME LegalInputs, Types, FrequencyTypeOneValidator
  PROVE  jar' \in Loop
<1> DEFINE tried == Tried(jar, jar_clock(jar.current))
           onward == Wrap(tried.current + periods[jar.period].headway)
<1>1. Given /\ jar \in Loop /\ jar.current \in Int /\ periods[jar.period] \in Row
  BY DEF Types, Loop, Given
<1>2. jar' = IF jar.current < periods[jar.period].end THEN Try(tried, [tried EXCEPT !.current = onward]) ELSE NextPeriod(jar)
  BY DEF FrequencyTypeOneValidator
<1>3. jar_clock(jar.current) \in Int \X Int \X Int
  <2>1. ASSUME NEW c \in Int PROVE /\ _java_div(c, 3600) \in Int /\ _java_mod(c, 360) \in Int /\ _java_mod(c, 60) \in Int
    <3>1. ASSUME NEW by \in {60, 360, 3600} PROVE _java_div(c, by) \in Int
      <4>1. c \div by \in Int /\ (-c) \div by \in Int
        BY Z3
      <4> QED
        BY <4>1 DEF _java_div
    <3>2. _java_div(c, 3600) \in Int /\ _java_div(c, 360) \in Int /\ _java_div(c, 60) \in Int
      BY <3>1
    <3> QED
      BY <3>2 DEF _java_mod
  <2>2. _java_div(jar.current, 3600) \in Int /\ _java_mod(jar.current, 360) \in Int /\ _java_mod(jar.current, 60) \in Int
    BY <1>1, <2>1
  <2>3. seconds_after_midnight_to_clock(jar.current) \in Int \X Int \X Int
    BY <1>1, ClockParts
  <2> QED
    BY <2>2, <2>3 DEF jar_clock
<1>4. tried \in Loop /\ tried.current \in Int
  BY <1>1, <1>3, TriedIsALoop
<1>5. onward \in Int
  <2>1. tried.current + periods[jar.period].headway \in Int /\ IntMax \in Int
    BY <1>1, <1>4 DEF Row, LegalInputs
  <2> QED
    BY <2>1 DEF Wrap
<1> HIDE DEF tried, onward
<1>6. [tried EXCEPT !.pc = "matched"] \in Loop /\ [tried EXCEPT !.current = onward] \in Loop
  BY <1>4, <1>5 DEF Loop
<1> QED
  BY <1>1, <1>2, <1>6, NextPeriodStands DEF Try

LEMMA TypesInductive ==
  ASSUME LegalInputs, Types, [Next]_vars
  PROVE  Types'
<1>1. CASE _search
  <2>1. UNCHANGED <<periods, half, wanted, jar>>
    BY <1>1 DEF _search
  <2>2. Stands(ours)' <=> Stands(ours')
    BY <2>1 DEF Stands
  <2> QED
    BY <1>1, <2>1, <2>2, OursStands, SameSearch DEF Types
<1>2. CASE FrequencyTypeOneValidator
  <2>1. UNCHANGED <<periods, half, wanted, ours>>
    BY <1>2 DEF FrequencyTypeOneValidator
  <2>2. Stands(ours)' <=> Stands(ours)
    BY <2>1 DEF Stands
  <2> QED
    BY <1>2, <2>1, <2>2, JarIsALoop, SameSearch DEF Types
<1>3. CASE UNCHANGED vars
  <2>1. UNCHANGED <<periods, half, wanted, ours, jar>>
    BY <1>3 DEF vars
  <2>2. Stands(ours)' <=> Stands(ours)
    BY <2>1 DEF Stands
  <2> QED
    BY <2>1, <2>2, SameSearch DEF Types
<1> QED
  BY <1>1, <1>2, <1>3 DEF Next

\* Both loops stand where the code could stand, on a feed the gate refuses as well.
THEOREM HeadwaysTypeOK ==
  ASSUME LegalInputs
  PROVE  Spec => []TypeOK
<1>1. Init => Types
  <2> SUFFICES ASSUME Init PROVE Types
    OBVIOUS
  <2>1. Given
    BY HeadwaysInit DEF HeadwaysInv
  <2>2. 1 \in DOMAIN periods /\ periods[1] \in Row
    BY <2>1 DEF Given
  <2>3. periods[1].start \in Int
    BY <2>2 DEF Row
  <2>4. Fresh \in Loop
    BY <2>2, <2>3 DEF Fresh, Loop
  <2>5. Fresh.period = 1 /\ Fresh.current = periods[1].start /\ Fresh.pc = "looping"
    BY DEF Fresh
  <2>6. Stands(Fresh)
    BY <2>3, <2>5 DEF Stands
  <2> QED
    BY <2>1, <2>4, <2>5, <2>6 DEF Types, Init
<1>2. Types /\ [Next]_vars => Types'
  BY TypesInductive
<1>3. Types => TypeOK
  BY DEF Types, Loop, Stands, TypeOK
<1> QED
  BY <1>1, <1>2, <1>3, PTL DEF Spec

-----------------------------------------------------------------------------
(* MessagePairs.                                                           *)

CONSTANTS Streams, Decimal, Word, PosixWindow, Second
VARIABLES stream, judged, previous, reported

Pairs == INSTANCE MessagePairs WITH n <- judged

\* The message before the k-th, where there is one.
Before(k) == IF k = 1 THEN None ELSE stream[k - 1]

\* Whatever was reported of a message is what its rules say of it and of the one
\* before it, and of no other.
PairsInv ==
  /\ stream \in Streams
  /\ judged \in 0..Len(stream)
  /\ previous = (IF judged = 0 THEN None ELSE stream[judged])
  /\ DOMAIN reported = 1..judged /\ \E S : reported \in Seq(S)
  /\ \A k \in 1..judged : reported[k] = Pairs!Findings(stream[k], Before(k))

\* A stream is a list of messages.
LEMMA StreamsAreLists ==
  ASSUME Pairs!LegalInputs, stream \in Streams
  PROVE  /\ Len(stream) \in Nat /\ DOMAIN stream = 1..Len(stream)
         /\ \A k \in DOMAIN stream : stream[k] # None
<1>1. stream \in Seq(Pairs!Range(stream)) /\ \A k \in DOMAIN stream : stream[k] # None
  BY DEF Pairs!LegalInputs
<1>2. QED
  BY <1>1

LEMMA PairsBegin ==
  ASSUME Pairs!LegalInputs, Pairs!Init
  PROVE  PairsInv
<1>1. stream \in Streams /\ judged = 0 /\ previous = None /\ reported = <<>>
  BY DEF Pairs!Init
<1>2. judged \in 0..Len(stream)
  BY <1>1, StreamsAreLists
<1>3. reported \in Seq({}) /\ DOMAIN reported = 1..judged
  BY <1>1
<1>4. \A k \in 1..judged : FALSE
  BY <1>1
<1>5. QED
  BY <1>1, <1>2, <1>3, <1>4 DEF PairsInv

LEMMA PairsGoOn ==
  ASSUME Pairs!LegalInputs, PairsInv, Pairs!Validate
  PROVE  PairsInv'
<1> DEFINE said == Pairs!Findings(stream[judged + 1], previous)
<1>1. /\ stream \in Streams /\ judged \in 0..Len(stream) /\ judged < Len(stream)
      /\ judged' = judged + 1 /\ stream' = stream /\ previous' = stream[judged + 1]
      /\ reported' = Append(reported, said)
  BY DEF PairsInv, Pairs!Validate, Pairs!next_previous
<1>2. Len(stream) \in Nat
  BY <1>1, StreamsAreLists
<1>3. PICK S : reported \in Seq(S)
  BY DEF PairsInv
<1>4. reported \in Seq(S \cup {said}) /\ Len(reported) = judged
  BY <1>1, <1>3 DEF PairsInv
<1> HIDE DEF said
<1>5. /\ reported' \in Seq(S \cup {said}) /\ Len(reported') = judged + 1 /\ DOMAIN reported' = 1..(judged + 1)
      /\ reported'[judged + 1] = said /\ \A k \in 1..judged : reported'[k] = reported[k]
  BY <1>1, <1>4
<1>6. previous = Before(judged + 1) /\ previous' = (IF judged' = 0 THEN None ELSE stream'[judged'])
  BY <1>1, <1>2 DEF PairsInv, Before
<1>7. ASSUME NEW k \in 1..judged' PROVE reported'[k] = Pairs!Findings(stream[k], Before(k))
  <2>1. CASE k = judged + 1
    BY <1>5, <1>6, <2>1 DEF said
  <2>2. CASE k # judged + 1
    <3>1. k \in 1..judged
      BY <1>1, <1>2, <2>2
    <3>2. QED
      BY <1>5, <3>1 DEF PairsInv
  <2>3. QED
    BY <2>1, <2>2
<1>8. \A k \in 1..judged' : reported'[k] = Pairs!Findings(stream'[k], Before(k)')
  BY <1>1, <1>7 DEF Before
<1>9. QED
  BY <1>1, <1>2, <1>5, <1>6, <1>8 DEF PairsInv

LEMMA PairsInvariance ==
  ASSUME Pairs!LegalInputs PROVE Pairs!Spec => []PairsInv
<1>1. ASSUME PairsInv, [Pairs!Next]_Pairs!vars PROVE PairsInv'
  <2>1. CASE Pairs!Next
    BY <1>1, <2>1, PairsGoOn DEF Pairs!Next
  <2>2. CASE UNCHANGED Pairs!vars
    BY <1>1, <2>2 DEF PairsInv, Before, Pairs!vars
  <2>3. QED
    BY <1>1, <2>1, <2>2
<1>2. QED
  BY <1>1, PairsBegin, PTL DEF Pairs!Spec

-----------------------------------------------------------------------------
\* What one rule says of a message, told apart from what the others say.
SaysOf(message, before, rule) == \E f \in Pairs!Findings(message, before) : f.rule = rule

\* Each rule's findings are its own.
LEMMA RulesSpeakForThemselves ==
  ASSUME NEW message, NEW before
  PROVE  /\ \A f \in Pairs!HeaderTimestamps(message, before) : f.rule \in {"E048", "W001", "E017", "E018", "W007"}
         /\ \A f \in Pairs!E038(message) : f.rule = "E038"
         /\ \A f \in Pairs!E039(message) : f.rule = "E039"
         /\ \A f \in Pairs!E049(message) : f.rule = "E049"
         /\ \A f \in Pairs!P001(message) : f.rule = "P001"
         /\ \A f \in Pairs!P002(message, before) : f.rule = "P002"
         /\ \A f \in Pairs!P003(message, before) : f.rule = "P003"
         /\ \A f \in Pairs!P004(message, before) : f.rule = "P004"
         /\ \A f \in Pairs!P005(message) : f.rule = "P005"
<1>1. \A f \in Pairs!HeaderTimestamps(message, before) : f.rule \in {"E048", "W001", "E017", "E018", "W007"}
  BY DEF Pairs!HeaderTimestamps, Pairs!Found, Pairs!Where
<1>2. \A f \in Pairs!E038(message) : f.rule = "E038"
  BY DEF Pairs!E038, Pairs!Found, Pairs!Where
<1>3. \A f \in Pairs!E039(message) : f.rule = "E039"
  BY DEF Pairs!E039, Pairs!Found, Pairs!Where
<1>4. \A f \in Pairs!E049(message) : f.rule = "E049"
  BY DEF Pairs!E049, Pairs!Found, Pairs!Where
<1>5. \A f \in Pairs!P001(message) : f.rule = "P001"
  BY DEF Pairs!P001, Pairs!Found, Pairs!Where
<1>6. \A f \in Pairs!P002(message, before) : f.rule = "P002"
  BY DEF Pairs!P002, Pairs!Found, Pairs!Where
<1>7. \A f \in Pairs!P003(message, before) : f.rule = "P003"
  BY DEF Pairs!P003, Pairs!Found, Pairs!Where
<1>8. \A f \in Pairs!P004(message, before) : f.rule = "P004"
  BY DEF Pairs!P004, Pairs!Found, Pairs!Where
<1>9. \A f \in Pairs!P005(message) : f.rule = "P005"
  BY DEF Pairs!P005, Pairs!Found, Pairs!Where
<1>10. QED
  BY <1>1, <1>2, <1>3, <1>4, <1>5, <1>6, <1>7, <1>8, <1>9

\* When the rules of the header speak.
LEMMA HeaderRules ==
  ASSUME NEW message, NEW before
  PROVE  LET now == Pairs!int64(message.header.timestamp)
             was == IF before = None THEN 0 ELSE Pairs!int64(before.header.timestamp)
             unsigned == IF before = None THEN 0 ELSE before.header.timestamp
             header == message.header
         IN  /\ SaysOf(message, before, "E017") <=> now # 0 /\ was # 0 /\ now = was
             /\ SaysOf(message, before, "E018") <=> now # 0 /\ was # 0 /\ now < was
             /\ SaysOf(message, before, "W007") <=> now # 0 /\ was # 0 /\ now > was /\ Pairs!narrow(now - was) > 35
             /\ SaysOf(message, before, "P004") <=>
                  unsigned # 0 /\ header.timestamp # 0 /\ Pairs!in_band(header.timestamp - unsigned)
             /\ SaysOf(message, before, "E048") <=> now = 0 /\ Pairs!walks_v2_or_higher(header)
             /\ SaysOf(message, before, "W001") <=> now = 0 /\ ~Pairs!walks_v2_or_higher(header)
             /\ SaysOf(message, before, "E038") <=> ~Pairs!is_valid_version(header)
             /\ SaysOf(message, before, "E049") <=> Pairs!is_v2_or_higher(header) /\ header.incrementality = None
             /\ SaysOf(message, before, "P001") <=>
                  header.version # None /\ Pairs!is_valid_version(header) /\ ~Pairs!is_v2_or_higher(header)
<1> DEFINE now == Pairs!int64(message.header.timestamp)
           was == IF before = None THEN 0 ELSE Pairs!int64(before.header.timestamp)
           T == Pairs!HeaderTimestamps(message, before)
           all == Pairs!Findings(message, before)
<1>1. all = T \cup Pairs!E038(message) \cup Pairs!E039(message) \cup Pairs!E049(message) \cup Pairs!P001(message)
            \cup Pairs!P002(message, before) \cup Pairs!P003(message, before) \cup Pairs!P004(message, before)
            \cup Pairs!P005(message)
  BY DEF Pairs!Findings
<1>2. /\ (\E f \in T : f.rule = "E017") <=> now # 0 /\ was # 0 /\ now = was
      /\ (\E f \in T : f.rule = "E018") <=> now # 0 /\ was # 0 /\ now < was
      /\ (\E f \in T : f.rule = "W007") <=> now # 0 /\ was # 0 /\ now > was /\ Pairs!narrow(now - was) > 35
      /\ (\E f \in T : f.rule = "E048") <=> now = 0 /\ Pairs!walks_v2_or_higher(message.header)
      /\ (\E f \in T : f.rule = "W001") <=> now = 0 /\ ~Pairs!walks_v2_or_higher(message.header)
  <2> DEFINE w == Pairs!walks_v2_or_higher(message.header)
             over == Pairs!narrow(now - was) > 35
  <2>1. T = IF now = 0 THEN Pairs!Found(IF w THEN "E048" ELSE "W001", "header")
            ELSE IF was = 0 THEN {}
            ELSE Pairs!Where(now = was, Pairs!Found("E017", "header")) \cup Pairs!Where(now < was, Pairs!Found("E018", "header"))
                 \cup Pairs!Where(now > was /\ over, Pairs!Found("W007", "header"))
    BY DEF Pairs!HeaderTimestamps, Pairs!BAND_UPPER
  <2> HIDE DEF now, was, T, w, over
  <2>2. /\ (\E f \in T : f.rule = "E017") <=> now # 0 /\ was # 0 /\ now = was
        /\ (\E f \in T : f.rule = "E018") <=> now # 0 /\ was # 0 /\ now < was
        /\ (\E f \in T : f.rule = "W007") <=> now # 0 /\ was # 0 /\ now > was /\ over
        /\ (\E f \in T : f.rule = "E048") <=> now = 0 /\ w
        /\ (\E f \in T : f.rule = "W001") <=> now = 0 /\ ~w
    <3>0. over \in BOOLEAN
      BY DEF over
    <3>1. CASE now = 0
      <4>1. T = Pairs!Found(IF w THEN "E048" ELSE "W001", "header")
        BY <2>1, <3>1
      <4>2. T = {[rule |-> IF w THEN "E048" ELSE "W001", what |-> "header"]}
        BY <4>1 DEF Pairs!Found
      <4>3. QED
        BY <3>1, <4>2
    <3>2. CASE now # 0 /\ was = 0
      BY <2>1, <3>2
    <3>3. CASE now # 0 /\ was # 0
      <4>1. T = Pairs!Where(now = was, Pairs!Found("E017", "header")) \cup Pairs!Where(now < was, Pairs!Found("E018", "header"))
                \cup Pairs!Where(now > was /\ over, Pairs!Found("W007", "header"))
        BY <2>1, <3>3
      <4>2. \A f \in T : f.rule \in {"E017", "E018", "W007"}
        BY <4>1 DEF Pairs!Found, Pairs!Where
      <4>3. (\E f \in T : f.rule = "W007") <=> now > was /\ over
        <5>1. ASSUME NEW f \in T, f.rule = "W007" PROVE now > was /\ over
          BY <4>1, <5>1 DEF Pairs!Found, Pairs!Where
        <5>2. ASSUME now > was, over PROVE [rule |-> "W007", what |-> "header"] \in T
          BY <4>1, <5>2 DEF Pairs!Found, Pairs!Where
        <5>3. QED
          BY <3>0, <5>1, <5>2
      <4>4. (\E f \in T : f.rule = "E017") <=> now = was
        <5>1. ASSUME NEW f \in T, f.rule = "E017" PROVE now = was
          BY <4>1, <5>1 DEF Pairs!Found, Pairs!Where
        <5>2. ASSUME now = was PROVE [rule |-> "E017", what |-> "header"] \in T
          BY <4>1, <5>2 DEF Pairs!Found, Pairs!Where
        <5>3. QED
          BY <5>1, <5>2
      <4>5. (\E f \in T : f.rule = "E018") <=> now < was
        <5>1. ASSUME NEW f \in T, f.rule = "E018" PROVE now < was
          BY <4>1, <5>1 DEF Pairs!Found, Pairs!Where
        <5>2. ASSUME now < was PROVE [rule |-> "E018", what |-> "header"] \in T
          BY <4>1, <5>2 DEF Pairs!Found, Pairs!Where
        <5>3. QED
          BY <5>1, <5>2
      <4>6. QED
        BY <3>3, <4>2, <4>3, <4>4, <4>5
    <3>4. QED
      BY <3>1, <3>2, <3>3
  <2>3. QED
    BY <2>2 DEF w, over
<1>3. (\E f \in Pairs!P004(message, before) : f.rule = "P004") <=>
        LET unsigned == IF before = None THEN 0 ELSE before.header.timestamp
        IN  unsigned # 0 /\ message.header.timestamp # 0 /\ Pairs!in_band(message.header.timestamp - unsigned)
  BY DEF Pairs!P004, Pairs!Found, Pairs!Where
<1>4. /\ (\E f \in Pairs!E038(message) : f.rule = "E038") <=> ~Pairs!is_valid_version(message.header)
      /\ (\E f \in Pairs!E049(message) : f.rule = "E049") <=>
           Pairs!is_v2_or_higher(message.header) /\ message.header.incrementality = None
      /\ (\E f \in Pairs!P001(message) : f.rule = "P001") <=>
           message.header.version # None /\ Pairs!is_valid_version(message.header) /\ ~Pairs!is_v2_or_higher(message.header)
  BY DEF Pairs!E038, Pairs!E049, Pairs!P001, Pairs!Found, Pairs!Where
<1> HIDE DEF now, was, T, all
<1>5. /\ SaysOf(message, before, "E017") <=> \E f \in T : f.rule = "E017"
      /\ SaysOf(message, before, "E018") <=> \E f \in T : f.rule = "E018"
      /\ SaysOf(message, before, "W007") <=> \E f \in T : f.rule = "W007"
      /\ SaysOf(message, before, "E048") <=> \E f \in T : f.rule = "E048"
      /\ SaysOf(message, before, "W001") <=> \E f \in T : f.rule = "W001"
      /\ SaysOf(message, before, "P004") <=> \E f \in Pairs!P004(message, before) : f.rule = "P004"
      /\ SaysOf(message, before, "E038") <=> \E f \in Pairs!E038(message) : f.rule = "E038"
      /\ SaysOf(message, before, "E049") <=> \E f \in Pairs!E049(message) : f.rule = "E049"
      /\ SaysOf(message, before, "P001") <=> \E f \in Pairs!P001(message) : f.rule = "P001"
  BY <1>1, RulesSpeakForThemselves DEF SaysOf, all, T
<1>6. QED
  BY <1>2, <1>3, <1>4, <1>5 DEF now, was

LEMMA SaysIsSaid ==
  ASSUME PairsInv, NEW k \in 1..judged, NEW rule
  PROVE  Pairs!Says(k, rule) <=> SaysOf(stream[k], Before(k), rule)
BY DEF PairsInv, Pairs!Says, SaysOf

\* On one side of the sign bit the signed words are as far apart as the stamps, and
\* what is further on has less than half a word to go; across it the order turns.
LEMMA BandsMeet ==
  ASSUME Word \in Nat \ {0, 1}, Word % 2 = 0, NEW now \in 0..(Word - 1), NEW was \in 0..(Word - 1)
  PROVE  LET a == Pairs!int64(now)
             b == Pairs!int64(was)
             negative(x) == x >= Word \div 2
             far == a > b /\ Pairs!narrow(a - b) > 35
         IN  /\ negative(now) = negative(was) =>
                  /\ a < b <=> now - was < 0
                  /\ a = b <=> now - was = 0
                  /\ far <=> now - was > 35
             /\ negative(now) /\ ~negative(was) => a < b /\ ~(a = b) /\ ~far
             /\ ~negative(now) /\ negative(was) => ~(a < b) /\ ~(a = b) /\ now - was < 0
             /\ a = 0 <=> now = 0
<1> DEFINE Half == Word \div 2
           a == Pairs!int64(now)
           b == Pairs!int64(was)
           d == now - was
           negative(x) == x >= Half
           far == a > b /\ Pairs!narrow(a - b) > 35
<1>1. Half \in Nat /\ 0 < Half /\ Half < Word /\ Word = 2 * Half
  BY DEF Half
<1>2. /\ a = IF now >= Half THEN now - Word ELSE now
      /\ b = IF was >= Half THEN was - Word ELSE was
  BY DEF Pairs!int64, Half
<1>3. \A x \in Int : Pairs!narrow(x) = IF x % Word >= Half THEN (x % Word) - Word ELSE x % Word
  BY DEF Pairs!narrow, Pairs!int64, Half
<1> HIDE DEF Half, a, b
<1>4. a \in Int /\ b \in Int /\ (a = 0 <=> now = 0)
  BY <1>1, <1>2
<1>5. ASSUME negative(now) = negative(was)
      PROVE  (a < b <=> d < 0) /\ (a = b <=> d = 0) /\ (far <=> d > 35)
  <2>1. a - b = d /\ -Half < d /\ d < Half
    <3>1. CASE now >= Half /\ was >= Half
      BY <1>1, <1>2, <3>1
    <3>2. CASE ~(now >= Half) /\ ~(was >= Half)
      BY <1>1, <1>2, <3>2
    <3>3. QED
      BY <1>5, <3>1, <3>2
  <2>2. (a < b <=> d < 0) /\ (a = b <=> d = 0) /\ (a > b <=> d > 0)
    BY <1>4, <2>1
  <2>3. ASSUME d > 0 PROVE Pairs!narrow(a - b) = d
    <3>1. d \in Int /\ d % Word = d
      BY <1>1, <2>1, <2>3
    <3>2. a - b = d /\ d < Half
      BY <2>1
    <3> HIDE DEF d
    <3>3. Pairs!narrow(d) = IF d % Word >= Half THEN (d % Word) - Word ELSE d % Word
      BY <1>3, <3>1
    <3>4. ~(d >= Half)
      BY <1>1, <3>1, <3>2
    <3>5. Pairs!narrow(d) = d
      BY <3>1, <3>3, <3>4
    <3>6. QED
      BY <3>2, <3>5
  <2>4. far <=> d > 35
    <3>1. CASE d > 0
      BY <2>2, <2>3, <3>1
    <3>2. CASE ~(d > 0)
      BY <2>2, <3>2
    <3>3. QED
      BY <3>1, <3>2
  <2>5. QED
    BY <2>2, <2>4
<1>6. ASSUME negative(now), ~negative(was) PROVE a < b /\ ~(a = b) /\ ~far
  BY <1>1, <1>2, <1>6
<1>7. ASSUME ~negative(now), negative(was) PROVE ~(a < b) /\ ~(a = b) /\ d < 0
  BY <1>1, <1>2, <1>7
<1>8. QED
  BY <1>4, <1>5, <1>6, <1>7 DEF Half, a, b

\* The stamps and versions of a stream's headers.
LEMMA HeadersAreLegal ==
  ASSUME Pairs!LegalInputs, PairsInv, NEW k \in 1..judged
  PROVE  /\ Word \in Nat \ {0, 1} /\ Word % 2 = 0
         /\ k \in DOMAIN stream /\ stream[k] # None
         /\ Pairs!Stamp(k) \in 0..(Word - 1)
         /\ stream[k].header.version \in DOMAIN Decimal \cup {None}
         /\ None \notin DOMAIN Decimal /\ \A v \in DOMAIN Decimal : Decimal[v] \in Nat \cup {None}
<1>1. k \in DOMAIN stream
  BY StreamsAreLists DEF PairsInv
<1>2. QED
  BY <1>1 DEF Pairs!LegalInputs, PairsInv, Pairs!Stamp

\* Whatever two stamps there are, and however wide the word: exactly one of the rules
\* speaks, or none of a step of 1 to 30 seconds, where both are on one side of the
\* sign bit; across it E018 speaks of a stamp that went on, and P004 beside it of
\* one that went on by 31 to 35 (p004.py, w007.py).
THEOREM BandsOfPairsMeet ==
  ASSUME Pairs!LegalInputs PROVE Pairs!Spec => []Pairs!TheBandsMeet
<1>1. ASSUME PairsInv, NEW k \in 2..judged, Pairs!Stamp(k) # 0, Pairs!Stamp(k - 1) # 0
      PROVE  LET now == Pairs!Stamp(k)
                 was == Pairs!Stamp(k - 1)
                 negative(x) == x >= Word \div 2
             IN  /\ Pairs!Says(k, "P004") <=> now - was > 30 /\ now - was <= 35
                 /\ negative(now) = negative(was) =>
                      /\ Pairs!Says(k, "E018") <=> now - was < 0
                      /\ Pairs!Says(k, "E017") <=> now - was = 0
                      /\ Pairs!Says(k, "W007") <=> now - was > 35
                 /\ negative(now) /\ ~negative(was) =>
                      Pairs!Says(k, "E018") /\ ~Pairs!Says(k, "E017") /\ ~Pairs!Says(k, "W007")
                 /\ ~negative(now) /\ negative(was) =>
                      ~Pairs!Says(k, "E018") /\ ~Pairs!Says(k, "E017") /\ ~Pairs!Says(k, "P004")
  <2> DEFINE now == Pairs!Stamp(k)
             was == Pairs!Stamp(k - 1)
             a == Pairs!int64(now)
             b == Pairs!int64(was)
             negative(x) == x >= Word \div 2
             far == a > b /\ Pairs!narrow(a - b) > 35
  <2>1. judged \in Nat /\ k \in 1..judged /\ k - 1 \in 1..judged /\ k # 1
    BY <1>1, StreamsAreLists DEF PairsInv
  <2>2. /\ Word \in Nat \ {0, 1} /\ Word % 2 = 0
        /\ now \in 0..(Word - 1) /\ was \in 0..(Word - 1) /\ stream[k - 1] # None
    BY <1>1, <2>1, HeadersAreLegal
  <2>3. Before(k) = stream[k - 1]
    BY <2>1 DEF Before
  <2>4. /\ Pairs!Says(k, "E017") <=> a # 0 /\ b # 0 /\ a = b
        /\ Pairs!Says(k, "E018") <=> a # 0 /\ b # 0 /\ a < b
        /\ Pairs!Says(k, "W007") <=> a # 0 /\ b # 0 /\ far
        /\ Pairs!Says(k, "P004") <=> was # 0 /\ now # 0 /\ Pairs!in_band(now - was)
    BY <1>1, <2>1, <2>2, <2>3, SaysIsSaid, HeaderRules DEF Pairs!Stamp
  <2>5. /\ negative(now) = negative(was) =>
             /\ a < b <=> now - was < 0
             /\ a = b <=> now - was = 0
             /\ far <=> now - was > 35
        /\ negative(now) /\ ~negative(was) => a < b /\ ~(a = b) /\ ~far
        /\ ~negative(now) /\ negative(was) => ~(a < b) /\ ~(a = b) /\ now - was < 0
        /\ a = 0 <=> now = 0
    BY <2>2, BandsMeet
  <2>6. b = 0 <=> was = 0
    BY <2>2, BandsMeet
  <2>7. now \in Int /\ was \in Int /\ now # 0 /\ was # 0 /\ a # 0 /\ b # 0
    BY <1>1, <2>2, <2>5, <2>6
  <2>8. Pairs!in_band(now - was) <=> now - was > 30 /\ now - was <= 35
    BY <2>7 DEF Pairs!in_band, Pairs!BAND_LOWER, Pairs!BAND_UPPER
  <2> HIDE DEF now, was, a, b, far, negative
  <2>9. /\ Pairs!Says(k, "P004") <=> now - was > 30 /\ now - was <= 35
        /\ negative(now) = negative(was) =>
             /\ Pairs!Says(k, "E018") <=> now - was < 0
             /\ Pairs!Says(k, "E017") <=> now - was = 0
             /\ Pairs!Says(k, "W007") <=> now - was > 35
        /\ negative(now) /\ ~negative(was) =>
             Pairs!Says(k, "E018") /\ ~Pairs!Says(k, "E017") /\ ~Pairs!Says(k, "W007")
        /\ ~negative(now) /\ negative(was) =>
             ~Pairs!Says(k, "E018") /\ ~Pairs!Says(k, "E017") /\ ~Pairs!Says(k, "P004")
    BY <2>4, <2>5, <2>7, <2>8
  <2>10. QED
    BY <2>9 DEF now, was, negative
<1>2. PairsInv => Pairs!TheBandsMeet
  BY <1>1 DEF Pairs!TheBandsMeet, Pairs!BAND_LOWER, Pairs!BAND_UPPER
<1>3. QED
  BY <1>2, PairsInvariance, PTL

\* What the nearest float of a decimal says of it.
LEMMA NearestFloat ==
  ASSUME NEW x \in Nat
  PROVE  (x >= 31 => Pairs!_to_float32(x) >= 32) /\ (x < 30 => Pairs!_to_float32(x) < 32)
<1>1. x % 4 \in 0..3 /\ x - (x % 4) <= x
  OBVIOUS
<1>2. Pairs!_to_float32(x) \in {x, x - (x % 4), x - (x % 4) + 4}
  BY DEF Pairs!_to_float32, Pairs!ULPS, Pairs!TWO
<1>3. ASSUME x = 31 PROVE Pairs!_to_float32(x) = 32
  BY <1>3 DEF Pairs!_to_float32, Pairs!ULPS, Pairs!TWO
<1>4. ASSUME x >= 32 PROVE Pairs!_to_float32(x) = x
  BY <1>4 DEF Pairs!_to_float32, Pairs!ULPS, Pairs!TWO
<1>5. ASSUME x < 28 PROVE Pairs!_to_float32(x) < 32
  BY <1>1, <1>2, <1>5
<1>6. ASSUME x \in 28..29 PROVE Pairs!_to_float32(x) < 32
  BY <1>6 DEF Pairs!_to_float32, Pairs!ULPS, Pairs!TWO
<1>7. QED
  BY <1>3, <1>4, <1>5, <1>6

\* No version is too old and unknown at once; one that is no number is a new one to
\* the timestamp walk and an old one to E049; and one whose nearest float is 2.0 is
\* never asked for less (versions.py, e049.py).
THEOREM VersionsOfPairs ==
  ASSUME Pairs!LegalInputs PROVE Pairs!Spec => []Pairs!VersionsAreReadOneWay
<1>1. ASSUME PairsInv, NEW k \in 1..judged
      PROVE  LET version == stream[k].header.version
             IN  /\ ~(Pairs!Says(k, "E038") /\ Pairs!Says(k, "P001"))
                 /\ Pairs!Says(k, "E049") => ~Pairs!Says(k, "P001") /\ ~Pairs!Says(k, "W001")
                 /\ Pairs!Stamp(k) = 0 => (Pairs!Says(k, "E048") # Pairs!Says(k, "W001"))
                 /\ version \in DOMAIN Decimal =>
                      (Decimal[version] # None =>
                         /\ Decimal[version] >= 31 => ~Pairs!Says(k, "W001")
                         /\ Decimal[version] < 30 => ~Pairs!Says(k, "E048") /\ ~Pairs!Says(k, "E049"))
  <2> DEFINE header == stream[k].header
             version == header.version
             new == Pairs!is_v2_or_higher(header)
             read == Pairs!walks_v2_or_higher(header)
             now == Pairs!int64(header.timestamp)
  <2>1. /\ Word \in Nat \ {0, 1} /\ Word % 2 = 0 /\ Pairs!Stamp(k) \in 0..(Word - 1)
        /\ None \notin DOMAIN Decimal /\ \A v \in DOMAIN Decimal : Decimal[v] \in Nat \cup {None}
    BY <1>1, HeadersAreLegal
  <2>2. now = 0 <=> Pairs!Stamp(k) = 0
    <3>1. Pairs!int64(Pairs!Stamp(k)) = 0 <=> Pairs!Stamp(k) = 0
      BY <2>1, BandsMeet
    <3>2. QED
      BY <3>1 DEF Pairs!Stamp
  <2>3. /\ Pairs!Says(k, "E048") <=> now = 0 /\ read
        /\ Pairs!Says(k, "W001") <=> now = 0 /\ ~read
        /\ Pairs!Says(k, "E038") <=> ~Pairs!is_valid_version(header)
        /\ Pairs!Says(k, "E049") <=> new /\ header.incrementality = None
        /\ Pairs!Says(k, "P001") <=> version # None /\ Pairs!is_valid_version(header) /\ ~new
    BY <1>1, SaysIsSaid, HeaderRules
  <2>4. (new => read) /\ read \in BOOLEAN /\ new \in BOOLEAN
    BY DEF Pairs!walks_v2_or_higher, Pairs!is_v2_or_higher, Pairs!Raises
  <2>5. ASSUME version \in DOMAIN Decimal, Decimal[version] # None
        PROVE  /\ Decimal[version] >= 31 => new
               /\ Decimal[version] < 30 => ~new /\ ~read
    <3>1. Decimal[version] \in Nat /\ version # None
      BY <2>1, <2>5
    <3>2. /\ Decimal[version] >= 31 => Pairs!_to_float32(Decimal[version]) >= 32
          /\ Decimal[version] < 30 => ~(Pairs!_to_float32(Decimal[version]) >= 32)
      <4>1. Pairs!_to_float32(Decimal[version]) \in Int
        BY <3>1 DEF Pairs!_to_float32, Pairs!TWO, Pairs!ULPS
      <4>2. QED
        BY <3>1, <4>1, NearestFloat
    <3>3. /\ new <=> Pairs!_to_float32(Decimal[version]) >= 32
          /\ read <=> new
      BY <2>5, <3>1 DEF Pairs!walks_v2_or_higher, Pairs!is_v2_or_higher, Pairs!Raises, Pairs!TWO, Pairs!ULPS
    <3>4. QED
      BY <3>2, <3>3
  <2> HIDE DEF new, read, now, version, header
  <2>6. /\ ~(Pairs!Says(k, "E038") /\ Pairs!Says(k, "P001"))
        /\ Pairs!Says(k, "E049") => ~Pairs!Says(k, "P001") /\ ~Pairs!Says(k, "W001")
        /\ Pairs!Stamp(k) = 0 => ((Pairs!Says(k, "E048") \/ Pairs!Says(k, "W001")) /\ ~(Pairs!Says(k, "E048") /\ Pairs!Says(k, "W001")))
        /\ version \in DOMAIN Decimal /\ Decimal[version] # None =>
             /\ Decimal[version] >= 31 => ~Pairs!Says(k, "W001")
             /\ Decimal[version] < 30 => ~Pairs!Says(k, "E048") /\ ~Pairs!Says(k, "E049")
    BY <2>2, <2>3, <2>4, <2>5
  <2>7. Pairs!Says(k, "E048") \in BOOLEAN /\ Pairs!Says(k, "W001") \in BOOLEAN
    BY DEF Pairs!Says
  <2>8. Pairs!Stamp(k) = 0 => (Pairs!Says(k, "E048") # Pairs!Says(k, "W001"))
    BY <2>6, <2>7
  <2>9. QED
    BY <2>6, <2>8 DEF version, header
<1>2. PairsInv => Pairs!VersionsAreReadOneWay
  BY <1>1 DEF Pairs!VersionsAreReadOneWay, Pairs!TWO, Pairs!ULPS
<1>3. QED
  BY <1>2, PairsInvariance, PTL

\* A set of numbers has a first.
LEMMA LeastOfSome ==
  ASSUME NEW S, S \subseteq Nat, S # {}
  PROVE  \E i \in S : \A j \in S : i <= j
<1>1. PICK i \in S : \A j \in S : ~(<<j, i>> \in OpToRel(<, Nat))
  BY NatLessThanWellFounded, WFMin
<1>2. \A j \in S : ~(j < i)
  BY <1>1 DEF OpToRel
<1>3. QED
  BY <1>2

First(k, trip, payload) == CHOOSE i \in Pairs!CarriedBy(k, trip, payload) : \A j \in Pairs!CarriedBy(k, trip, payload) : i <= j

\* The first entity that carries a trip is the one that speaks for it.
LEMMA FirstSpeaks ==
  ASSUME Pairs!LegalInputs, stream \in Streams, NEW k \in DOMAIN stream, NEW payload \in {"trip_update", "vehicle"},
         NEW trip, trip # None, Pairs!CarriedBy(k, trip, payload) # {}
  PROVE  LET at == <<First(k, trip, payload), payload>>
         IN  /\ at \in Pairs!_ids_in(stream[k]) /\ Pairs!Carrier(stream[k], at).trip = trip
             /\ \A s \in Pairs!_ids_in(stream[k]) : s[2] = payload /\ Pairs!Carrier(stream[k], s).trip = trip => s = at
<1> DEFINE C == Pairs!CarriedBy(k, trip, payload)
           i == First(k, trip, payload)
           e == stream[k].entity
           P == {"trip_update", "vehicle"}
<1>1. e \in Seq(Pairs!Range(e))
  BY DEF Pairs!LegalInputs
<1>2. DOMAIN e \subseteq Nat
  BY <1>1
<1>3. C \subseteq DOMAIN e
  BY DEF Pairs!CarriedBy
<1>4. i \in C /\ \A j \in C : i <= j
  <2> HIDE DEF C
  <2>1. \E x \in C : \A j \in C : x <= j
    BY <1>2, <1>3, LeastOfSome DEF C
  <2>2. QED
    BY <2>1 DEF First, C
<1>5. Pairs!Range(Pairs!PAYLOADS) = P
  <2>1. DOMAIN <<"trip_update", "vehicle">> = {1, 2}
    OBVIOUS
  <2>2. QED
    BY <2>1 DEF Pairs!Range, Pairs!PAYLOADS
<1>6. \A s : s \in Pairs!_carried(stream[k]) <=>
             s \in (DOMAIN e) \X P /\ e[s[1]][s[2]] # None /\ e[s[1]][s[2]].trip # None
  BY <1>5 DEF Pairs!_carried, Pairs!Carrier
<1>7. \A j \in DOMAIN e : j \in C <=> e[j][payload] # None /\ e[j][payload].trip = trip
  BY DEF Pairs!CarriedBy
<1> HIDE DEF C, i, e, P
<1>8. \A j \in C : <<j, payload>> \in Pairs!_carried(stream[k])
  BY <1>3, <1>6, <1>7 DEF P
<1>9. \A s \in Pairs!_carried(stream[k]) : s[2] = payload /\ e[s[1]][s[2]].trip = trip => s[1] \in C
  BY <1>6, <1>7
<1>10. <<i, payload>> \in Pairs!_ids_in(stream[k])
  <2>1. ASSUME NEW t \in Pairs!_carried(stream[k]), t[1] < i, Pairs!Same(stream[k], <<i, payload>>, stream[k], t) PROVE FALSE
    <3>1. t[2] = payload /\ e[t[1]][t[2]].trip = trip
      BY <1>3, <1>4, <1>7, <2>1 DEF Pairs!Same, Pairs!Carrier, e
    <3>2. t[1] \in C
      BY <1>9, <3>1
    <3>3. t[1] \in Nat /\ i \in Nat
      BY <1>2, <1>3, <1>4, <3>2
    <3>4. QED
      BY <1>4, <2>1, <3>2, <3>3
  <2>2. QED
    BY <1>4, <1>8, <2>1 DEF Pairs!_ids_in
<1>11. ASSUME NEW s \in Pairs!_ids_in(stream[k]), s[2] = payload, Pairs!Carrier(stream[k], s).trip = trip
       PROVE  s = <<i, payload>>
  <2>1. s \in Pairs!_carried(stream[k]) /\ s[1] \in C
    BY <1>9, <1>11 DEF Pairs!_ids_in, Pairs!Carrier, e
  <2>2. <<i, payload>> \in Pairs!_carried(stream[k]) /\ e[i][payload].trip = trip
    BY <1>3, <1>4, <1>7, <1>8
  <2>3. ~(i < s[1])
    BY <1>11, <2>1, <2>2 DEF Pairs!_ids_in, Pairs!Same, Pairs!Carrier, e
  <2>4. i \in Nat /\ s[1] \in Nat /\ i <= s[1]
    BY <1>2, <1>3, <1>4, <2>1
  <2>5. s[1] = i /\ s = <<s[1], s[2]>>
    BY <1>6, <2>1, <2>3, <2>4
  <2>6. QED
    BY <1>11, <2>5
<1>12. Pairs!Carrier(stream[k], <<i, payload>>).trip = trip
  BY <1>3, <1>4, <1>7 DEF Pairs!Carrier, e
<1>13. QED
  BY <1>10, <1>11, <1>12 DEF i

\* What P002 and P003 say of a trip both messages carry is what its first entities say.
LEMMA MovesOfATrip ==
  ASSUME Pairs!LegalInputs, PairsInv, NEW k \in 2..judged, NEW payload \in {"trip_update", "vehicle"},
         NEW trip, trip # None, Pairs!CarriedBy(k, trip, payload) # {}, Pairs!CarriedBy(k - 1, trip, payload) # {}
  PROVE  LET i == First(k, trip, payload)
             j == First(k - 1, trip, payload)
             current == stream[k].entity[i][payload].vehicle_id
             was == stream[k - 1].entity[j][payload].vehicle_id
         IN  /\ [rule |-> "P002", what |-> <<i, payload>>] \in reported[k] <=> stream[k].entity[i].id # stream[k - 1].entity[j].id
             /\ [rule |-> "P003", what |-> <<i, payload>>] \in reported[k] <=> current # None /\ was # None /\ current # was
<1> DEFINE at == <<First(k, trip, payload), payload>>
           t == <<First(k - 1, trip, payload), payload>>
           m == stream[k]
           b == stream[k - 1]
           ids == Pairs!sequence_ids(m, b)
<1>1. judged \in Nat /\ k \in 1..judged /\ k # 1 /\ k \in DOMAIN stream /\ k - 1 \in DOMAIN stream /\ stream \in Streams /\ b # None
  BY StreamsAreLists DEF PairsInv
<1>2. Before(k) = b
  BY <1>1 DEF Before
<1>3. reported[k] = Pairs!Findings(m, b)
  BY <1>1, <1>2 DEF PairsInv
<1>4. /\ at \in Pairs!_ids_in(m) /\ Pairs!Carrier(m, at).trip = trip
      /\ \A s \in Pairs!_ids_in(m) : s[2] = payload /\ Pairs!Carrier(m, s).trip = trip => s = at
  BY <1>1, FirstSpeaks
<1>5. /\ t \in Pairs!_ids_in(b) /\ Pairs!Carrier(b, t).trip = trip
      /\ \A s \in Pairs!_ids_in(b) : s[2] = payload /\ Pairs!Carrier(b, s).trip = trip => s = t
  BY <1>1, FirstSpeaks
<1>6. at[1] = First(k, trip, payload) /\ at[2] = payload /\ t[1] = First(k - 1, trip, payload) /\ t[2] = payload
  OBVIOUS
<1>7. ids = {r \in Pairs!_ids_in(m) \X Pairs!_ids_in(b) : Pairs!Same(m, r[1], b, r[2])}
  BY <1>1 DEF Pairs!sequence_ids
<1> HIDE DEF at, t, m, b, ids
<1>8. <<at, t>> \in ids /\ \A r \in ids : r[1] = at => r[2] = t
  BY <1>4, <1>5, <1>6, <1>7 DEF Pairs!Same
<1>9. [rule |-> "P002", what |-> at] \in reported[k] <=> [rule |-> "P002", what |-> at] \in Pairs!P002(m, b)
  BY <1>3, RulesSpeakForThemselves DEF Pairs!Findings
<1>10. [rule |-> "P003", what |-> at] \in reported[k] <=> [rule |-> "P003", what |-> at] \in Pairs!P003(m, b)
  BY <1>3, RulesSpeakForThemselves DEF Pairs!Findings
<1>11. [rule |-> "P002", what |-> at] \in Pairs!P002(m, b) <=> m.entity[at[1]].id # b.entity[t[1]].id
  <2>1. ASSUME [rule |-> "P002", what |-> at] \in Pairs!P002(m, b) PROVE m.entity[at[1]].id # b.entity[t[1]].id
    <3>1. PICK r \in ids : /\ [rule |-> "P002", what |-> at] \in Pairs!Where(m.entity[r[1][1]].id # b.entity[r[2][1]].id, Pairs!Found("P002", r[1]))
      BY <2>1 DEF Pairs!P002, ids
    <3>2. m.entity[r[1][1]].id # b.entity[r[2][1]].id /\ r[1] = at
      BY <3>1 DEF Pairs!Where, Pairs!Found
    <3>3. QED
      BY <1>8, <3>2
  <2>2. ASSUME m.entity[at[1]].id # b.entity[t[1]].id PROVE [rule |-> "P002", what |-> at] \in Pairs!P002(m, b)
    <3>1. [rule |-> "P002", what |-> at] \in Pairs!Where(m.entity[at[1]].id # b.entity[t[1]].id, Pairs!Found("P002", at))
      BY <2>2 DEF Pairs!Where, Pairs!Found
    <3>2. <<at, t>>[1] = at /\ <<at, t>>[2] = t
      OBVIOUS
    <3>3. QED
      BY <1>8, <3>1, <3>2 DEF Pairs!P002, ids
  <2>3. QED
    BY <2>1, <2>2
<1>12. [rule |-> "P003", what |-> at] \in Pairs!P003(m, b) <=>
         LET current == Pairs!Carrier(m, at).vehicle_id
             was == Pairs!Carrier(b, t).vehicle_id
         IN  current # None /\ was # None /\ current # was
  <2> DEFINE Differs(x, y) == Pairs!Carrier(m, x).vehicle_id # None /\ Pairs!Carrier(b, y).vehicle_id # None
                              /\ Pairs!Carrier(m, x).vehicle_id # Pairs!Carrier(b, y).vehicle_id
  <2>1. Pairs!P003(m, b) = UNION {Pairs!Where(Differs(r[1], r[2]), Pairs!Found("P003", r[1])) : r \in ids}
    BY DEF Pairs!P003, ids
  <2> HIDE DEF Differs
  <2>2. ASSUME [rule |-> "P003", what |-> at] \in Pairs!P003(m, b) PROVE Differs(at, t)
    <3>1. PICK r \in ids : [rule |-> "P003", what |-> at] \in Pairs!Where(Differs(r[1], r[2]), Pairs!Found("P003", r[1]))
      BY <2>1, <2>2
    <3>2. Differs(r[1], r[2]) /\ r[1] = at
      BY <3>1 DEF Pairs!Where, Pairs!Found
    <3>3. QED
      BY <1>8, <3>2
  <2>3. ASSUME Differs(at, t) PROVE [rule |-> "P003", what |-> at] \in Pairs!P003(m, b)
    <3>1. [rule |-> "P003", what |-> at] \in Pairs!Where(Differs(at, t), Pairs!Found("P003", at))
      BY <2>3 DEF Pairs!Where, Pairs!Found
    <3>2. <<at, t>>[1] = at /\ <<at, t>>[2] = t
      OBVIOUS
    <3>3. QED
      BY <1>8, <2>1, <3>1, <3>2
  <2>4. Differs(at, t) <=> LET current == Pairs!Carrier(m, at).vehicle_id
                               was == Pairs!Carrier(b, t).vehicle_id
                           IN  current # None /\ was # None /\ current # was
    BY DEF Differs
  <2>5. QED
    BY <2>2, <2>3, <2>4
<1>13. QED
  BY <1>6, <1>9, <1>10, <1>11, <1>12 DEF Pairs!Carrier, at, m, b, t

\* A trip that one entity of every message carries has P002 once for each time the id
\* of that entity changed and never again for the same change, and P003 once for each
\* time the vehicle id did, whatever else the feed carries (walk_sequence_ids.py).
THEOREM MovesAreReportedOnce ==
  ASSUME Pairs!LegalInputs PROVE Pairs!Spec => []Pairs!AMoveIsReportedOnce
<1>1. ASSUME PairsInv, NEW payload \in Pairs!Range(Pairs!PAYLOADS), NEW trip \in Pairs!Trips,
             \A k \in 1..judged : Pairs!CarriedBy(k, trip, payload) # {}, NEW k \in 2..judged
      PROVE  LET i == First(k, trip, payload)
                 j == First(k - 1, trip, payload)
                 current == stream[k].entity[i][payload].vehicle_id
                 was == stream[k - 1].entity[j][payload].vehicle_id
             IN  /\ [rule |-> "P002", what |-> <<i, payload>>] \in reported[k] <=> stream[k].entity[i].id # stream[k - 1].entity[j].id
                 /\ [rule |-> "P003", what |-> <<i, payload>>] \in reported[k] <=> current # None /\ was # None /\ current # was
  <2>1. payload \in {"trip_update", "vehicle"}
    <3>1. DOMAIN <<"trip_update", "vehicle">> = {1, 2}
      OBVIOUS
    <3>2. QED
      BY <1>1, <3>1 DEF Pairs!Range, Pairs!PAYLOADS
  <2>2. trip # None
    BY <1>1 DEF Pairs!Trips, Pairs!_carried
  <2>3. k \in 1..judged /\ k - 1 \in 1..judged
    BY <1>1, StreamsAreLists DEF PairsInv
  <2>4. QED
    BY <1>1, <2>1, <2>2, <2>3, MovesOfATrip
<1>2. ASSUME PairsInv PROVE Pairs!AMoveIsReportedOnce
  <2> SUFFICES ASSUME NEW payload \in Pairs!Range(Pairs!PAYLOADS), NEW trip \in Pairs!Trips,
                      \A k \in 1..judged : Pairs!CarriedBy(k, trip, payload) # {}, NEW k \in 2..judged
               PROVE  LET i == First(k, trip, payload)
                          j == First(k - 1, trip, payload)
                          current == stream[k].entity[i][payload].vehicle_id
                          was == stream[k - 1].entity[j][payload].vehicle_id
                      IN  /\ [rule |-> "P002", what |-> <<i, payload>>] \in reported[k] <=> stream[k].entity[i].id # stream[k - 1].entity[j].id
                          /\ current # None /\ was # None =>
                               ([rule |-> "P003", what |-> <<i, payload>>] \in reported[k] <=> current # was)
    BY DEF Pairs!AMoveIsReportedOnce, First
  <2>1. QED
    BY <1>1, <1>2
<1>3. QED
  BY <1>2, PairsInvariance, PTL

\* Every variable holds what the code could hold there.
THEOREM PairsTypeOK ==
  ASSUME Pairs!LegalInputs PROVE Pairs!Spec => []Pairs!TypeOK
<1>1. ASSUME PairsInv PROVE Pairs!TypeOK
  <2>1. stream \in Streams /\ Len(stream) \in Nat /\ DOMAIN stream = 1..Len(stream)
    BY <1>1, StreamsAreLists DEF PairsInv
  <2>2. previous = None \/ previous \in Pairs!Range(stream)
    BY <1>1, <2>1 DEF PairsInv, Pairs!Range
  <2>3. Len(reported) = judged
    BY <1>1, <2>1 DEF PairsInv
  <2>4. \A k \in 1..judged : \A f \in reported[k] : f.rule \in Pairs!Rules
    BY <1>1, RulesSpeakForThemselves DEF PairsInv, Pairs!Findings, Pairs!Rules
  <2>5. QED
    BY <1>1, <2>2, <2>3, <2>4 DEF PairsInv, Pairs!TypeOK
<1>2. QED
  BY <1>1, PairsInvariance, PTL

-----------------------------------------------------------------------------
(* TripDescriptorWalk: what every half of every entity the walk is past has*)
(* been found to break, and when the feed's list has a W009 in it.         *)

CONSTANTS Messages, Ids, Times, Dates, Empty, HalfWord, route_ids, agency_ids, trips, arrivals,
          frequency_trips, UNSET, MISSING_VALUE
VARIABLES walked, stage, index, position, w009, found_w009, yielded

Descriptors == INSTANCE TripDescriptorWalk WITH message <- walked, pc <- stage, found <- yielded

\* A finding, wherever the walk stands by now.
Finding(rule, part, i, p) == [rule |-> rule, part |-> part, entity |-> i, position |-> p]

Asked == {"E003", "E016", "E023", "E020", "E021", "E004", "E024", "E035"}

\* What the rules say of a descriptor, once its trip_id is looked up or not.
Due(rule, trip, looked) ==
  \/ rule = "E003" /\ looked /\ ~Descriptors!known_trip(trip) /\ ~Descriptors!is_added_trip(trip)
  \/ rule = "E016" /\ looked /\ Descriptors!known_trip(trip) /\ Descriptors!is_added_trip(trip)
  \/ rule = "E023" /\ looked /\ Descriptors!known_trip(trip) /\ trip.start_time # None /\ Descriptors!check_e023(trip)
  \/ rule = "E020" /\ trip.start_time # None /\ Descriptors!check_e020(trip)
  \/ rule = "E021" /\ Descriptors!check_e021(trip)
  \/ rule = "E004" /\ Descriptors!check_e004(trip)
  \/ rule = "E024" /\ Descriptors!check_e024(trip)
  \/ rule = "E035" /\ Descriptors!check_e035(trip)

AskedOfAlerts == {"E030", "E031", "E035"}

DueOfAlert(rule, selector) ==
  \/ rule = "E035" /\ selector.trip # None /\ Descriptors!check_e035(selector.trip)
  \/ rule = "E030" /\ selector.route_id # None /\ selector.trip # None /\ Descriptors!check_e030(selector)
  \/ rule = "E031" /\ selector.route_id # None /\ selector.trip # None /\ Descriptors!check_e031(selector)

\* Which halves of which entities the walk is past.
Past(i, stages) == i \in DOMAIN walked /\ (i < index \/ (i = index /\ stage \in stages))

AfterTripUpdate == {"stops", "vehicle", "alert", "selectors", "entities", "done"}
AfterStops == {"vehicle", "alert", "selectors", "entities", "done"}
AfterVehicle == {"alert", "selectors", "entities", "done"}
AfterAlert == {"entities", "done"}

PlaceInv ==
  /\ walked \in Messages /\ index \in 0..Len(walked)
  /\ stage \in {"entities", "trip_update", "stops", "vehicle", "alert", "selectors", "done"}
  /\ stage = "done" => index = Len(walked)
  /\ stage \notin {"entities", "done"} => index \in DOMAIN walked
  /\ position \in Nat /\ w009 \in BOOLEAN /\ found_w009 \in BOOLEAN
  /\ stage = "stops" =>
       /\ walked[index].trip_update # None
       /\ position \in 1..(Len(walked[index].trip_update.stop_time_update) + 1)
  /\ stage = "selectors" =>
       walked[index].alert # None /\ position \in 1..(Len(walked[index].alert) + 1)
  /\ \A f \in yielded : f.entity \in 1..Len(walked) /\ f.position \in Nat

\* What each half of each entity has been found to break, and nothing before its turn.
HalvesInv ==
  /\ \A i, rule : rule \in Asked =>
       (Finding(rule, "trip_update", i, 0) \in yielded <=>
          Past(i, AfterTripUpdate) /\ walked[i].trip_update # None
          /\ Due(rule, walked[i].trip_update.trip, walked[i].trip_update.trip.trip_id # None))
  /\ \A i, rule : rule \in Asked =>
       (Finding(rule, "vehicle", i, 0) \in yielded <=>
          Past(i, AfterVehicle) /\ walked[i].vehicle # None
          /\ Due(rule, walked[i].vehicle, Descriptors!text_of(walked[i].vehicle.trip_id) # Empty))

SelectorsInv ==
  \A i, p, rule : rule \in AskedOfAlerts =>
    (Finding(rule, "alert", i, p) \in yielded <=>
       /\ i \in DOMAIN walked /\ walked[i].alert # None /\ p \in DOMAIN walked[i].alert
       /\ Past(i, AfterAlert) \/ (stage = "selectors" /\ i = index /\ p < position)
       /\ DueOfAlert(rule, walked[i].alert[p]))

Declares(i, q) == walked[i].trip_update.stop_time_update[q]

SilentBefore(i) == \A j \in 1..(i - 1) : ~Descriptors!Undeclared(walked[j])

\* The first undeclared update of a trip is warned of while the feed's list is
\* empty, and otherwise only the very first.
IsWarned(i, p) ==
  ~Declares(i, p) /\ (p = 1 \/ (SilentBefore(i) /\ \A q \in 1..(p - 1) : Declares(i, q)))

StopsInv ==
  \A i, p :
    Finding("W009", "stop_time_update", i, p) \in yielded <=>
      /\ i \in DOMAIN walked /\ walked[i].trip_update # None /\ p \in DOMAIN walked[i].trip_update.stop_time_update
      /\ Past(i, AfterStops) \/ (stage = "stops" /\ i = index /\ p < position)
      /\ IsWarned(i, p)

UpdateIsSilent(i) ==
  walked[i].trip_update # None =>
    ~Descriptors!check_w009(walked[i].trip_update.trip) /\ \A p \in DOMAIN walked[i].trip_update.stop_time_update : Declares(i, p)

VehicleIsSilent(i) == walked[i].vehicle # None => ~Descriptors!check_w009(walked[i].vehicle)

SelectorIsSilent(i, p) == ~(walked[i].alert[p].trip # None /\ Descriptors!check_w009(walked[i].alert[p].trip))

\* The feed's list is empty exactly while nothing before was undeclared.
ListInv ==
  /\ stage \in AfterAlert => (~w009 <=> SilentBefore(index + 1))
  /\ stage = "trip_update" => (~w009 <=> SilentBefore(index))
  /\ stage = "stops" => (~w009 <=> SilentBefore(index) /\ \A q \in 1..(position - 1) : Declares(index, q))
  /\ stage = "stops" => (found_w009 <=> position > 1 /\ w009)
  /\ stage = "vehicle" => (~w009 <=> SilentBefore(index) /\ UpdateIsSilent(index))
  /\ stage = "alert" => (~w009 <=> SilentBefore(index) /\ UpdateIsSilent(index) /\ VehicleIsSilent(index))
  /\ stage = "selectors" =>
       (~w009 <=> /\ SilentBefore(index) /\ UpdateIsSilent(index) /\ VehicleIsSilent(index)
                  /\ \A q \in 1..(position - 1) : SelectorIsSilent(index, q))

WalkInv == PlaceInv /\ HalvesInv /\ SelectorsInv /\ StopsInv /\ ListInv

-----------------------------------------------------------------------------
\* What the entities of a message are.
LEMMA EntitiesAreTyped ==
  ASSUME Descriptors!LegalInputs, walked \in Messages
  PROVE  /\ Len(walked) \in Nat /\ DOMAIN walked = 1..Len(walked)
         /\ \A i \in DOMAIN walked :
              /\ walked[i].trip_update # None =>
                   /\ walked[i].trip_update.trip \in Descriptors!TripDescriptor
                   /\ walked[i].trip_update.stop_time_update \in Seq(BOOLEAN)
              /\ walked[i].vehicle # None => walked[i].vehicle \in Descriptors!TripDescriptor
              /\ walked[i].alert # None => walked[i].alert \in Seq(Descriptors!EntitySelector)
<1>1. walked \in Seq(Descriptors!Entity)
  BY DEF Descriptors!LegalInputs
<1>2. \A i \in DOMAIN walked : walked[i] \in Descriptors!Entity
  BY <1>1
<1>3. QED
  BY <1>1, <1>2 DEF Descriptors!Entity

LEMMA WalkBegins ==
  ASSUME Descriptors!LegalInputs, Descriptors!Init
  PROVE  WalkInv
<1>1. walked \in Messages /\ stage = "entities" /\ index = 0 /\ position = 0 /\ w009 = FALSE /\ found_w009 = FALSE /\ yielded = {}
  BY DEF Descriptors!Init
<1>2. Len(walked) \in Nat /\ DOMAIN walked = 1..Len(walked)
  BY <1>1, EntitiesAreTyped
<1>3. \A i, S : ~Past(i, S)
  BY <1>1, <1>2 DEF Past
<1>4. PlaceInv
  <2>1. w009 \in BOOLEAN /\ found_w009 \in BOOLEAN /\ position \in Nat
    BY <1>1
  <2>2. QED
    BY <1>1, <1>2, <2>1 DEF PlaceInv
<1>5. HalvesInv /\ SelectorsInv /\ StopsInv
  BY <1>1, <1>3 DEF HalvesInv, SelectorsInv, StopsInv
<1>6. ListInv
  BY <1>1 DEF ListInv, SilentBefore, AfterAlert
<1>7. QED
  BY <1>4, <1>5, <1>6 DEF WalkInv

\* A step that yields nothing and leaves the halves it is past as they are.
LEMMA NextEntityKeeps ==
  ASSUME Descriptors!LegalInputs, WalkInv, Descriptors!NextEntity
  PROVE  WalkInv'
<1>1. /\ stage = "entities" /\ index < Len(walked) /\ index' = index + 1 /\ stage' = "trip_update"
      /\ UNCHANGED <<walked, position, w009, found_w009, yielded>>
  BY DEF Descriptors!NextEntity
<1>2. Len(walked) \in Nat /\ DOMAIN walked = 1..Len(walked) /\ index \in 0..Len(walked)
  BY EntitiesAreTyped DEF WalkInv, PlaceInv
<1>3. PlaceInv'
  BY <1>1, <1>2 DEF WalkInv, PlaceInv
<1>4. \A i : (Past(i, AfterTripUpdate) <=> Past(i, AfterTripUpdate)') /\ (Past(i, AfterStops) <=> Past(i, AfterStops)')
             /\ (Past(i, AfterVehicle) <=> Past(i, AfterVehicle)') /\ (Past(i, AfterAlert) <=> Past(i, AfterAlert)')
  BY <1>1, <1>2 DEF Past, AfterTripUpdate, AfterStops, AfterVehicle, AfterAlert
<1>5. HalvesInv'
  BY <1>1, <1>4 DEF WalkInv, HalvesInv
<1>6. SelectorsInv'
  BY <1>1, <1>4 DEF WalkInv, SelectorsInv
<1>7. StopsInv'
  BY <1>1, <1>4 DEF WalkInv, StopsInv, IsWarned, Declares, SilentBefore
<1>8. ListInv'
  BY <1>1, <1>2 DEF WalkInv, ListInv, SilentBefore, AfterAlert
<1>9. QED
  BY <1>3, <1>5, <1>6, <1>7, <1>8 DEF WalkInv

\* What a descriptor yields, and where.
Yields(trip, here, looked) ==
  (IF looked THEN Descriptors!LookedUp(trip, here) ELSE {}) \cup Descriptors!Unconditional(trip, here)

LEMMA WhatADescriptorYields ==
  ASSUME NEW trip, NEW here, NEW looked \in BOOLEAN
  PROVE  /\ \A f \in Yields(trip, here, looked) : f.rule \in Asked /\ f.part = here /\ f.entity = index /\ f.position = 0
         /\ \A rule \in Asked : Finding(rule, here, index, 0) \in Yields(trip, here, looked) <=> Due(rule, trip, looked)
<1> DEFINE L == IF looked THEN Descriptors!LookedUp(trip, here) ELSE {}
           U == Descriptors!Unconditional(trip, here)
           IsHere(f) == f.rule \in Asked /\ f.part = here /\ f.entity = index /\ f.position = 0
           a == looked /\ ~Descriptors!known_trip(trip) /\ ~Descriptors!is_added_trip(trip)
           b == looked /\ Descriptors!known_trip(trip) /\ Descriptors!is_added_trip(trip)
           c == looked /\ Descriptors!known_trip(trip) /\ trip.start_time # None /\ Descriptors!check_e023(trip)
           d == trip.start_time # None /\ Descriptors!check_e020(trip)
<1>1. L = Descriptors!When(a, "E003", here, 0) \cup Descriptors!When(b, "E016", here, 0) \cup Descriptors!When(c, "E023", here, 0)
  BY DEF Descriptors!LookedUp, Descriptors!When
<1>2. U = Descriptors!When(d, "E020", here, 0) \cup Descriptors!When(Descriptors!check_e021(trip), "E021", here, 0)
          \cup Descriptors!When(Descriptors!check_e004(trip), "E004", here, 0) \cup Descriptors!When(Descriptors!check_e024(trip), "E024", here, 0)
          \cup Descriptors!When(Descriptors!check_e035(trip), "E035", here, 0)
  BY DEF Descriptors!Unconditional
<1>3. \A condition, rule : Descriptors!When(condition, rule, here, 0) = IF condition THEN {Finding(rule, here, index, 0)} ELSE {}
  BY DEF Descriptors!When, Descriptors!At, Finding
<1>4. /\ a <=> Due("E003", trip, looked)
      /\ b <=> Due("E016", trip, looked)
      /\ c <=> Due("E023", trip, looked)
      /\ d <=> Due("E020", trip, looked)
      /\ Descriptors!check_e021(trip) <=> Due("E021", trip, looked)
      /\ Descriptors!check_e004(trip) <=> Due("E004", trip, looked)
      /\ Descriptors!check_e024(trip) <=> Due("E024", trip, looked)
      /\ Descriptors!check_e035(trip) <=> Due("E035", trip, looked)
  BY DEF Due
<1> HIDE DEF L, U, a, b, c, d
<1>5. \A f \in L \cup U : f.rule \in Asked /\ f.part = here /\ f.entity = index /\ f.position = 0
  BY <1>1, <1>2, <1>3 DEF Finding, Asked
<1>6. \A r, q : Finding(r, here, index, 0) = Finding(q, here, index, 0) => r = q
  BY DEF Finding
<1>7. ASSUME NEW rule \in Asked PROVE Finding(rule, here, index, 0) \in L \cup U <=> Due(rule, trip, looked)
  BY <1>1, <1>2, <1>3, <1>4, <1>6 DEF Asked
<1>8. QED
  BY <1>5, <1>7 DEF L, U, Yields

\* A step that goes on with the same entity and yields nothing there.
LEMMA SkippingKeeps ==
  ASSUME Descriptors!LegalInputs, WalkInv, Descriptors!NoTripUpdate \/ Descriptors!NoVehicle \/ Descriptors!NoAlert
  PROVE  WalkInv'
<1>1. UNCHANGED <<walked, index, position, w009, found_w009, yielded>>
  BY DEF Descriptors!NoTripUpdate, Descriptors!NoVehicle, Descriptors!NoAlert, Descriptors!SkipHalf
<1>2. Len(walked) \in Nat /\ DOMAIN walked = 1..Len(walked) /\ index \in 0..Len(walked)
  BY EntitiesAreTyped DEF WalkInv, PlaceInv
<1>3. CASE Descriptors!NoTripUpdate
  <2>1. stage = "trip_update" /\ stage' = "vehicle" /\ walked[index].trip_update = None
    BY <1>3 DEF Descriptors!NoTripUpdate, Descriptors!SkipHalf, Descriptors!entity
  <2>2. \A i : walked[i].trip_update # None => (Past(i, AfterTripUpdate) <=> Past(i, AfterTripUpdate)') /\ (Past(i, AfterStops) <=> Past(i, AfterStops)')
    BY <1>1, <1>2, <2>1 DEF Past, AfterTripUpdate, AfterStops
  <2>3. \A i : (Past(i, AfterVehicle) <=> Past(i, AfterVehicle)') /\ (Past(i, AfterAlert) <=> Past(i, AfterAlert)')
    BY <1>1, <1>2, <2>1 DEF Past, AfterVehicle, AfterAlert
  <2>4. PlaceInv'
    BY <1>1, <2>1 DEF WalkInv, PlaceInv
  <2>5. HalvesInv'
    BY <1>1, <2>2, <2>3 DEF WalkInv, HalvesInv
  <2>6. SelectorsInv'
    BY <1>1, <2>1, <2>3 DEF WalkInv, SelectorsInv
  <2>7. StopsInv'
    BY <1>1, <2>1, <2>2 DEF WalkInv, StopsInv, IsWarned, Declares, SilentBefore
  <2>8. ListInv'
    BY <1>1, <2>1 DEF WalkInv, ListInv, SilentBefore, UpdateIsSilent, AfterAlert
  <2>9. QED
    BY <2>4, <2>5, <2>6, <2>7, <2>8 DEF WalkInv
<1>4. CASE Descriptors!NoVehicle
  <2>1. stage = "vehicle" /\ stage' = "alert" /\ walked[index].vehicle = None
    BY <1>4 DEF Descriptors!NoVehicle, Descriptors!SkipHalf, Descriptors!entity
  <2>2. \A i : walked[i].vehicle # None => (Past(i, AfterVehicle) <=> Past(i, AfterVehicle)')
    BY <1>1, <1>2, <2>1 DEF Past, AfterVehicle
  <2>3. \A i : /\ Past(i, AfterTripUpdate) <=> Past(i, AfterTripUpdate)'
               /\ Past(i, AfterStops) <=> Past(i, AfterStops)'
               /\ Past(i, AfterAlert) <=> Past(i, AfterAlert)'
    BY <1>1, <1>2, <2>1 DEF Past, AfterTripUpdate, AfterStops, AfterAlert
  <2>4. PlaceInv'
    BY <1>1, <2>1 DEF WalkInv, PlaceInv
  <2>5. HalvesInv'
    BY <1>1, <2>2, <2>3 DEF WalkInv, HalvesInv
  <2>6. SelectorsInv'
    BY <1>1, <2>1, <2>3 DEF WalkInv, SelectorsInv
  <2>7. StopsInv'
    BY <1>1, <2>1, <2>3 DEF WalkInv, StopsInv, IsWarned, Declares, SilentBefore
  <2>8. ListInv'
    BY <1>1, <2>1 DEF WalkInv, ListInv, SilentBefore, UpdateIsSilent, VehicleIsSilent, Declares, AfterAlert
  <2>9. QED
    BY <2>4, <2>5, <2>6, <2>7, <2>8 DEF WalkInv
<1>5. CASE Descriptors!NoAlert
  <2>1. stage = "alert" /\ stage' = "entities" /\ walked[index].alert = None
    BY <1>5 DEF Descriptors!NoAlert, Descriptors!SkipHalf, Descriptors!entity
  <2>2. \A i : walked[i].alert # None => (Past(i, AfterAlert) <=> Past(i, AfterAlert)')
    BY <1>1, <1>2, <2>1 DEF Past, AfterAlert
  <2>3. \A i : /\ Past(i, AfterTripUpdate) <=> Past(i, AfterTripUpdate)'
               /\ Past(i, AfterStops) <=> Past(i, AfterStops)'
               /\ Past(i, AfterVehicle) <=> Past(i, AfterVehicle)'
    BY <1>1, <1>2, <2>1 DEF Past, AfterTripUpdate, AfterStops, AfterVehicle
  <2>4. PlaceInv'
    BY <1>1, <2>1 DEF WalkInv, PlaceInv
  <2>5. HalvesInv'
    BY <1>1, <2>3 DEF WalkInv, HalvesInv
  <2>6. SelectorsInv'
    BY <1>1, <2>1, <2>2 DEF WalkInv, SelectorsInv
  <2>7. StopsInv'
    BY <1>1, <2>1, <2>3 DEF WalkInv, StopsInv, IsWarned, Declares, SilentBefore
  <2>8. index \in DOMAIN walked /\ (~w009 <=> SilentBefore(index) /\ UpdateIsSilent(index) /\ VehicleIsSilent(index))
    BY <2>1 DEF WalkInv, ListInv, PlaceInv
  <2>9. ~w009 <=> SilentBefore(index + 1)
    <3>1. UpdateIsSilent(index) /\ VehicleIsSilent(index) <=> ~Descriptors!Undeclared(walked[index])
      BY <2>1 DEF UpdateIsSilent, VehicleIsSilent, Declares, Descriptors!Undeclared
    <3>2. SilentBefore(index + 1) <=> SilentBefore(index) /\ ~Descriptors!Undeclared(walked[index])
      BY <1>2, <2>8 DEF SilentBefore
    <3>3. QED
      BY <2>8, <3>1, <3>2
  <2>10. ListInv'
    BY <1>1, <2>1, <2>9 DEF ListInv, SilentBefore, AfterAlert
  <2>11. QED
    BY <2>4, <2>5, <2>6, <2>7, <2>10 DEF WalkInv
<1>6. QED
  BY <1>3, <1>4, <1>5

LEMMA TripUpdateKeeps ==
  ASSUME Descriptors!LegalInputs, WalkInv, Descriptors!TripUpdate
  PROVE  WalkInv'
<1> DEFINE trip == walked[index].trip_update.trip
           looked == trip.trip_id # None
           more == Yields(trip, "trip_update", looked)
           unnamed == Descriptors!When(Descriptors!check_w006(trip), "W006", "trip_update", 0)
<1>1. /\ stage = "trip_update" /\ walked[index].trip_update # None /\ stage' = "stops" /\ position' = 1 /\ found_w009' = FALSE
      /\ UNCHANGED <<walked, index, w009>>
      /\ yielded' = yielded \cup unnamed \cup more
  <2>1. (IF looked THEN Descriptors!LookedUp(trip, "trip_update") ELSE {}) = (IF trip.trip_id = None THEN {} ELSE Descriptors!LookedUp(trip, "trip_update"))
    OBVIOUS
  <2>2. QED
    BY <2>1 DEF Descriptors!TripUpdate, Descriptors!entity, Yields
<1>2. Len(walked) \in Nat /\ DOMAIN walked = 1..Len(walked) /\ index \in DOMAIN walked
  BY <1>1, EntitiesAreTyped DEF WalkInv, PlaceInv
<1>3. walked[index].trip_update.stop_time_update \in Seq(BOOLEAN)
  BY <1>1, <1>2, EntitiesAreTyped DEF WalkInv, PlaceInv
<1>4. /\ \A f \in more : f.rule \in Asked /\ f.part = "trip_update" /\ f.entity = index /\ f.position = 0
      /\ \A rule \in Asked : Finding(rule, "trip_update", index, 0) \in more <=> Due(rule, trip, looked)
  <2>1. looked \in BOOLEAN
    OBVIOUS
  <2> HIDE DEF looked, trip
  <2>2. QED
    BY <2>1, WhatADescriptorYields
<1>5. \A f \in unnamed : f.rule = "W006" /\ f.part = "trip_update" /\ f.entity = index /\ f.position = 0
  BY DEF Descriptors!When, Descriptors!At
<1> HIDE DEF trip, looked, more, unnamed
<1>6. \A rule, part, i, p : part # "trip_update" \/ i # index \/ rule \notin Asked \cup {"W006"} \/ p # 0 =>
        (Finding(rule, part, i, p) \in yielded' <=> Finding(rule, part, i, p) \in yielded)
  BY <1>1, <1>4, <1>5 DEF Finding
<1>7. PlaceInv'
  <2>1. position' \in 1..(Len(walked[index].trip_update.stop_time_update) + 1)
    BY <1>1, <1>3
  <2>2. w009' \in BOOLEAN /\ found_w009' \in BOOLEAN
    BY <1>1 DEF WalkInv, PlaceInv
  <2>3. \A f \in yielded' : f.entity \in 1..Len(walked) /\ f.position \in Nat
    BY <1>1, <1>2, <1>4, <1>5 DEF WalkInv, PlaceInv
  <2>4. QED
    BY <1>1, <2>1, <2>2, <2>3 DEF WalkInv, PlaceInv
<1>8. \A i : /\ Past(i, AfterTripUpdate)' <=> Past(i, AfterTripUpdate) \/ i = index
             /\ Past(i, AfterStops) <=> Past(i, AfterStops)'
             /\ Past(i, AfterVehicle) <=> Past(i, AfterVehicle)'
             /\ Past(i, AfterAlert) <=> Past(i, AfterAlert)'
             /\ i = index => ~Past(i, AfterTripUpdate)
  BY <1>1, <1>2 DEF Past, AfterTripUpdate, AfterStops, AfterVehicle, AfterAlert
<1>9. HalvesInv'
  <2>1. ASSUME NEW i, NEW rule \in Asked
        PROVE  Finding(rule, "trip_update", i, 0) \in yielded' <=>
                 Past(i, AfterTripUpdate)' /\ walked[i].trip_update # None
                 /\ Due(rule, walked[i].trip_update.trip, walked[i].trip_update.trip.trip_id # None)
    <3>1. CASE i = index
      <4>1. Finding(rule, "trip_update", i, 0) \notin yielded
        BY <1>8, <3>1 DEF WalkInv, HalvesInv
      <4>2. Finding(rule, "trip_update", i, 0) \notin unnamed
        BY <1>5 DEF Finding, Asked
      <4>3. QED
        BY <1>1, <1>4, <1>8, <3>1, <4>1, <4>2 DEF trip, looked
    <3>2. CASE i # index
      BY <1>6, <1>8, <3>2 DEF WalkInv, HalvesInv
    <3>3. QED
      BY <3>1, <3>2
  <2>2. ASSUME NEW i, NEW rule \in Asked
        PROVE  Finding(rule, "vehicle", i, 0) \in yielded' <=>
                 Past(i, AfterVehicle)' /\ walked[i].vehicle # None
                 /\ Due(rule, walked[i].vehicle, Descriptors!text_of(walked[i].vehicle.trip_id) # Empty)
    BY <1>6, <1>8 DEF WalkInv, HalvesInv
  <2>3. QED
    BY <1>1, <2>1, <2>2 DEF HalvesInv
<1>10. SelectorsInv'
  BY <1>1, <1>6, <1>8 DEF WalkInv, SelectorsInv
<1>11. StopsInv'
  <2>1. \A i, p : Finding("W009", "stop_time_update", i, p) \in yielded' <=> Finding("W009", "stop_time_update", i, p) \in yielded
    BY <1>6
  <2>2. \A p : p \in DOMAIN walked[index].trip_update.stop_time_update => ~(p < 1)
    BY <1>3
  <2>3. QED
    BY <1>1, <1>8, <2>1, <2>2 DEF WalkInv, StopsInv, IsWarned, Declares, SilentBefore
<1>12. ListInv'
  BY <1>1 DEF WalkInv, ListInv, SilentBefore, AfterAlert
<1>13. QED
  BY <1>7, <1>9, <1>10, <1>11, <1>12 DEF WalkInv

LEMMA StopTimeUpdateKeeps ==
  ASSUME Descriptors!LegalInputs, WalkInv, Descriptors!StopTimeUpdate
  PROVE  WalkInv'
<1> DEFINE updates == walked[index].trip_update.stop_time_update
           declared == updates[position]
<1>1. /\ stage = "stops" /\ position <= Len(updates) /\ position' = position + 1
      /\ UNCHANGED <<walked, stage, index>>
      /\ IF found_w009 THEN UNCHANGED <<w009, found_w009, yielded>>
         ELSE /\ yielded' = yielded \cup Descriptors!When(~declared, "W009", "stop_time_update", position)
              /\ w009' = (w009 \/ ~declared)
              /\ found_w009' = (w009 \/ ~declared)
  BY DEF Descriptors!StopTimeUpdate, Descriptors!not_empty, Descriptors!entity
<1>2. Len(walked) \in Nat /\ DOMAIN walked = 1..Len(walked) /\ index \in DOMAIN walked /\ walked[index].trip_update # None
  BY <1>1, EntitiesAreTyped DEF WalkInv, PlaceInv
<1>3. updates \in Seq(BOOLEAN)
  BY <1>2, EntitiesAreTyped DEF WalkInv, PlaceInv
<1>4. Len(updates) \in Nat /\ DOMAIN updates = 1..Len(updates) /\ position \in 1..Len(updates) /\ declared \in BOOLEAN
  BY <1>1, <1>3 DEF WalkInv, PlaceInv
<1>5. w009 \in BOOLEAN /\ found_w009 \in BOOLEAN
  BY DEF WalkInv, PlaceInv
<1>6. /\ ~w009 <=> SilentBefore(index) /\ \A q \in 1..(position - 1) : updates[q]
      /\ found_w009 <=> position > 1 /\ w009
  BY <1>1 DEF WalkInv, ListInv, Declares
<1>7. declared <=> Declares(index, position)
  BY DEF Declares
<1> HIDE DEF declared
<1>8. IsWarned(index, position) <=> ~declared /\ ~found_w009
  <2>1. position = 1 \/ position > 1
    BY <1>4
  <2>2. IsWarned(index, position) <=> ~declared /\ (position = 1 \/ ~w009)
    BY <1>6, <1>7 DEF IsWarned, Declares
  <2>3. QED
    BY <1>4, <1>5, <1>6, <2>1, <2>2
<1>9. \A rule, part, i, p : Finding(rule, part, i, p) \in yielded' <=>
        \/ Finding(rule, part, i, p) \in yielded
        \/ ~found_w009 /\ ~declared /\ rule = "W009" /\ part = "stop_time_update" /\ i = index /\ p = position
  <2>1. CASE found_w009
    BY <1>1, <2>1
  <2>2. CASE ~found_w009
    <3>1. yielded' = yielded \cup IF ~declared THEN {Finding("W009", "stop_time_update", index, position)} ELSE {}
      BY <1>1, <2>2 DEF Descriptors!When, Descriptors!At, Finding, declared
    <3>2. QED
      BY <2>2, <3>1 DEF Finding
  <2>3. QED
    BY <1>5, <2>1, <2>2
<1>10. PlaceInv'
  <2>1. position' \in 1..(Len(updates) + 1)
    BY <1>1, <1>4
  <2>2. w009' \in BOOLEAN /\ found_w009' \in BOOLEAN
    <3>1. CASE found_w009
      BY <1>1, <1>5, <3>1
    <3>2. CASE ~found_w009
      BY <1>1, <1>5, <3>2
    <3>3. QED
      BY <1>5, <3>1, <3>2
  <2>3. \A f \in yielded' : f \in yielded \/ (f.entity = index /\ f.position = position)
    BY <1>1 DEF Descriptors!When, Descriptors!At
  <2>4. \A f \in yielded' : f.entity \in 1..Len(walked) /\ f.position \in Nat
    BY <1>2, <1>4, <2>3 DEF WalkInv, PlaceInv
  <2>5. QED
    BY <1>1, <1>4, <2>1, <2>2, <2>4 DEF WalkInv, PlaceInv
<1>11. \A i, S : Past(i, S) <=> Past(i, S)'
  BY <1>1 DEF Past
<1>12. HalvesInv'
  BY <1>1, <1>9, <1>11 DEF WalkInv, HalvesInv, Asked
<1>13. SelectorsInv'
  BY <1>1, <1>9, <1>11 DEF WalkInv, SelectorsInv, AskedOfAlerts
<1>14. StopsInv'
  <2>1. ASSUME NEW i, NEW p
        PROVE  Finding("W009", "stop_time_update", i, p) \in yielded' <=>
                 /\ i \in DOMAIN walked /\ walked[i].trip_update # None /\ p \in DOMAIN walked[i].trip_update.stop_time_update
                 /\ Past(i, AfterStops) \/ (i = index /\ p < position + 1)
                 /\ IsWarned(i, p)
    <3>1. CASE i = index /\ p = position
      <4>1. Finding("W009", "stop_time_update", i, p) \notin yielded
        <5>1. ~Past(index, AfterStops) /\ ~(position < position)
          BY <1>1, <1>2, <1>4 DEF Past, AfterStops
        <5>2. QED
          BY <3>1, <5>1 DEF WalkInv, StopsInv
      <4>2. QED
        BY <1>2, <1>4, <1>8, <1>9, <3>1, <4>1
    <3>2. CASE ~(i = index /\ p = position)
      <4>1. Finding("W009", "stop_time_update", i, p) \in yielded' <=> Finding("W009", "stop_time_update", i, p) \in yielded
        BY <1>9, <3>2
      <4>2. i = index /\ p \in DOMAIN updates => (p < position + 1 <=> p < position)
        BY <1>4, <3>2
      <4>3. QED
        BY <1>1, <4>1, <4>2 DEF WalkInv, StopsInv
    <3>3. QED
      BY <3>1, <3>2
  <2>2. QED
    BY <1>1, <1>11, <2>1 DEF StopsInv, IsWarned, Declares, SilentBefore
<1>15. ListInv'
  <2>1. (\A q \in 1..position : updates[q]) <=> declared /\ \A q \in 1..(position - 1) : updates[q]
    BY <1>4 DEF declared
  <2>2. (~w009' <=> SilentBefore(index) /\ \A q \in 1..position : updates[q]) /\ (found_w009' <=> w009')
    <3>1. CASE found_w009
      <4>1. w009 /\ w009' /\ found_w009'
        BY <1>1, <1>6, <3>1
      <4>2. QED
        BY <1>6, <2>1, <4>1
    <3>2. CASE ~found_w009
      <4>1. (w009' <=> w009 \/ ~declared) /\ (found_w009' <=> w009 \/ ~declared)
        BY <1>1, <3>2
      <4>2. QED
        BY <1>6, <2>1, <4>1
    <3>3. QED
      BY <1>5, <3>1, <3>2
  <2>3. position' > 1 /\ position' - 1 = position
    BY <1>1, <1>4
  <2>4. QED
    BY <1>1, <2>2, <2>3 DEF ListInv, Declares, SilentBefore, AfterAlert
<1>16. QED
  BY <1>10, <1>12, <1>13, <1>14, <1>15 DEF WalkInv

LEMMA TripUpdateEndsKeeps ==
  ASSUME Descriptors!LegalInputs, WalkInv, Descriptors!TripUpdateEnds
  PROVE  WalkInv'
<1> DEFINE updates == walked[index].trip_update.stop_time_update
           missing == Descriptors!check_w009(walked[index].trip_update.trip)
<1>1. /\ stage = "stops" /\ position > Len(updates) /\ position' = 0 /\ stage' = "vehicle"
      /\ UNCHANGED <<walked, index, found_w009>>
      /\ yielded' = yielded \cup Descriptors!When(missing, "W009", "trip_update", 0)
      /\ w009' = (w009 \/ missing)
  BY DEF Descriptors!TripUpdateEnds, Descriptors!entity
<1>2. Len(walked) \in Nat /\ DOMAIN walked = 1..Len(walked) /\ index \in DOMAIN walked /\ walked[index].trip_update # None
  BY <1>1, EntitiesAreTyped DEF WalkInv, PlaceInv
<1>3. updates \in Seq(BOOLEAN)
  BY <1>2, EntitiesAreTyped DEF WalkInv, PlaceInv
<1>4. Len(updates) \in Nat /\ DOMAIN updates = 1..Len(updates) /\ position = Len(updates) + 1
  BY <1>1, <1>3 DEF WalkInv, PlaceInv
<1>5. w009 \in BOOLEAN /\ missing \in BOOLEAN
  BY DEF WalkInv, PlaceInv, Descriptors!check_w009
<1>6. ~w009 <=> SilentBefore(index) /\ \A q \in DOMAIN updates : Declares(index, q)
  BY <1>1, <1>4 DEF WalkInv, ListInv
<1>7. UpdateIsSilent(index) <=> ~missing /\ \A q \in DOMAIN updates : Declares(index, q)
  BY <1>2 DEF UpdateIsSilent
<1> HIDE DEF missing
<1>8. \A f \in yielded' : f \in yielded \/ f = Finding("W009", "trip_update", index, 0)
  BY <1>1 DEF Descriptors!When, Descriptors!At, Finding
<1>9. \A rule, part, i, p : part # "trip_update" \/ rule # "W009" =>
        (Finding(rule, part, i, p) \in yielded' <=> Finding(rule, part, i, p) \in yielded)
  BY <1>1, <1>8 DEF Finding
<1>10. PlaceInv'
  <2>1. \A f \in yielded' : f.entity \in 1..Len(walked) /\ f.position \in Nat
    BY <1>2, <1>8 DEF WalkInv, PlaceInv, Finding
  <2>2. w009' \in BOOLEAN /\ found_w009' \in BOOLEAN
    BY <1>1, <1>5 DEF WalkInv, PlaceInv
  <2>3. QED
    BY <1>1, <2>1, <2>2 DEF WalkInv, PlaceInv
<1>11. \A i : /\ Past(i, AfterTripUpdate)' <=> Past(i, AfterTripUpdate)
              /\ Past(i, AfterStops)' <=> Past(i, AfterStops) \/ i = index
              /\ Past(i, AfterVehicle)' <=> Past(i, AfterVehicle)
              /\ Past(i, AfterAlert)' <=> Past(i, AfterAlert)
  BY <1>1, <1>2 DEF Past, AfterTripUpdate, AfterStops, AfterVehicle, AfterAlert
<1>12. HalvesInv'
  BY <1>1, <1>9, <1>11 DEF WalkInv, HalvesInv, Asked
<1>13. SelectorsInv'
  BY <1>1, <1>9, <1>11 DEF WalkInv, SelectorsInv
<1>14. StopsInv'
  <2>1. \A p \in DOMAIN updates : p < position
    BY <1>4
  <2>2. \A i, p : Finding("W009", "stop_time_update", i, p) \in yielded' <=> Finding("W009", "stop_time_update", i, p) \in yielded
    BY <1>9
  <2>3. QED
    BY <1>1, <1>11, <2>1, <2>2 DEF WalkInv, StopsInv, IsWarned, Declares, SilentBefore
<1>15. ListInv'
  <2>1. ~w009' <=> SilentBefore(index) /\ UpdateIsSilent(index)
    <3>1. w009' <=> w009 \/ missing
      BY <1>1
    <3>2. QED
      BY <1>5, <1>6, <1>7, <3>1
  <2>2. QED
    BY <1>1, <2>1 DEF ListInv, SilentBefore, UpdateIsSilent, Declares, AfterAlert
<1>16. QED
  BY <1>10, <1>12, <1>13, <1>14, <1>15 DEF WalkInv

LEMMA VehicleKeeps ==
  ASSUME Descriptors!LegalInputs, WalkInv, Descriptors!Vehicle
  PROVE  WalkInv'
<1> DEFINE trip == walked[index].vehicle
           looked == Descriptors!text_of(trip.trip_id) # Empty
           missing == Descriptors!check_w009(trip)
           more == Yields(trip, "vehicle", looked)
           rest == Descriptors!When(Descriptors!check_w006(trip), "W006", "vehicle", 0) \cup Descriptors!When(missing, "W009", "vehicle", 0)
<1>1. /\ stage = "vehicle" /\ walked[index].vehicle # None /\ stage' = "alert"
      /\ UNCHANGED <<walked, index, position, found_w009>>
      /\ yielded' = yielded \cup rest \cup more
      /\ w009' = (w009 \/ missing)
  <2>1. (IF looked THEN Descriptors!LookedUp(trip, "vehicle") ELSE {}) = (IF Descriptors!text_of(trip.trip_id) = Empty THEN {} ELSE Descriptors!LookedUp(trip, "vehicle"))
    OBVIOUS
  <2>2. QED
    BY <2>1 DEF Descriptors!Vehicle, Descriptors!entity, Yields
<1>2. Len(walked) \in Nat /\ DOMAIN walked = 1..Len(walked) /\ index \in DOMAIN walked
  BY <1>1, EntitiesAreTyped DEF WalkInv, PlaceInv
<1>3. w009 \in BOOLEAN /\ missing \in BOOLEAN
  BY DEF WalkInv, PlaceInv, Descriptors!check_w009
<1>4. /\ \A f \in more : f.rule \in Asked /\ f.part = "vehicle" /\ f.entity = index /\ f.position = 0
      /\ \A rule \in Asked : Finding(rule, "vehicle", index, 0) \in more <=> Due(rule, trip, looked)
  <2>1. looked \in BOOLEAN
    OBVIOUS
  <2> HIDE DEF looked, trip
  <2>2. QED
    BY <2>1, WhatADescriptorYields
<1>5. \A f \in rest : f.rule \in {"W006", "W009"} /\ f.part = "vehicle" /\ f.entity = index /\ f.position = 0
  BY DEF Descriptors!When, Descriptors!At
<1>6. VehicleIsSilent(index) <=> ~missing
  BY <1>1 DEF VehicleIsSilent
<1> HIDE DEF trip, looked, more, rest, missing
<1>7. \A rule, part, i, p : part # "vehicle" \/ i # index =>
        (Finding(rule, part, i, p) \in yielded' <=> Finding(rule, part, i, p) \in yielded)
  BY <1>1, <1>4, <1>5 DEF Finding
<1>8. PlaceInv'
  <2>1. w009' \in BOOLEAN /\ found_w009' \in BOOLEAN
    BY <1>1, <1>3 DEF WalkInv, PlaceInv
  <2>2. \A f \in yielded' : f.entity \in 1..Len(walked) /\ f.position \in Nat
    BY <1>1, <1>2, <1>4, <1>5 DEF WalkInv, PlaceInv
  <2>3. QED
    BY <1>1, <2>1, <2>2 DEF WalkInv, PlaceInv
<1>9. \A i : /\ Past(i, AfterTripUpdate)' <=> Past(i, AfterTripUpdate)
             /\ Past(i, AfterStops)' <=> Past(i, AfterStops)
             /\ Past(i, AfterVehicle)' <=> Past(i, AfterVehicle) \/ i = index
             /\ Past(i, AfterAlert)' <=> Past(i, AfterAlert)
             /\ i = index => ~Past(i, AfterVehicle)
  BY <1>1, <1>2 DEF Past, AfterTripUpdate, AfterStops, AfterVehicle, AfterAlert
<1>10. HalvesInv'
  <2>1. ASSUME NEW i, NEW rule \in Asked
        PROVE  Finding(rule, "vehicle", i, 0) \in yielded' <=>
                 Past(i, AfterVehicle)' /\ walked[i].vehicle # None
                 /\ Due(rule, walked[i].vehicle, Descriptors!text_of(walked[i].vehicle.trip_id) # Empty)
    <3>1. CASE i = index
      <4>1. Finding(rule, "vehicle", i, 0) \notin yielded
        BY <1>9, <3>1 DEF WalkInv, HalvesInv
      <4>2. Finding(rule, "vehicle", i, 0) \notin rest
        BY <1>5 DEF Finding, Asked
      <4>3. QED
        BY <1>1, <1>4, <1>9, <3>1, <4>1, <4>2 DEF trip, looked
    <3>2. CASE i # index
      BY <1>7, <1>9, <3>2 DEF WalkInv, HalvesInv
    <3>3. QED
      BY <3>1, <3>2
  <2>2. ASSUME NEW i, NEW rule \in Asked
        PROVE  Finding(rule, "trip_update", i, 0) \in yielded' <=>
                 Past(i, AfterTripUpdate)' /\ walked[i].trip_update # None
                 /\ Due(rule, walked[i].trip_update.trip, walked[i].trip_update.trip.trip_id # None)
    BY <1>7, <1>9 DEF WalkInv, HalvesInv
  <2>3. QED
    BY <1>1, <2>1, <2>2 DEF HalvesInv
<1>11. SelectorsInv'
  BY <1>1, <1>7, <1>9 DEF WalkInv, SelectorsInv
<1>12. StopsInv'
  BY <1>1, <1>7, <1>9 DEF WalkInv, StopsInv, IsWarned, Declares, SilentBefore
<1>13. ListInv'
  <2>1. ~w009 <=> SilentBefore(index) /\ UpdateIsSilent(index)
    BY <1>1 DEF WalkInv, ListInv
  <2>2. w009' <=> w009 \/ missing
    BY <1>1
  <2>3. ~w009' <=> SilentBefore(index) /\ UpdateIsSilent(index) /\ VehicleIsSilent(index)
    BY <1>3, <1>6, <2>1, <2>2
  <2>4. QED
    BY <1>1, <2>3 DEF ListInv, SilentBefore, UpdateIsSilent, VehicleIsSilent, Declares, AfterAlert
<1>14. QED
  BY <1>8, <1>10, <1>11, <1>12, <1>13 DEF WalkInv

\* Closing an entity: its three halves are silent exactly where it declares everything.
LEMMA EntityIsClosed ==
  ASSUME Descriptors!LegalInputs, WalkInv, index \in DOMAIN walked
  PROVE  SilentBefore(index + 1) <=>
           /\ SilentBefore(index) /\ UpdateIsSilent(index) /\ VehicleIsSilent(index)
           /\ walked[index].alert # None => \A q \in DOMAIN walked[index].alert : SelectorIsSilent(index, q)
<1>1. Descriptors!Undeclared(walked[index]) <=>
        ~(/\ UpdateIsSilent(index) /\ VehicleIsSilent(index)
          /\ walked[index].alert # None => \A q \in DOMAIN walked[index].alert : SelectorIsSilent(index, q))
  BY DEF UpdateIsSilent, VehicleIsSilent, SelectorIsSilent, Declares, Descriptors!Undeclared
<1>2. Len(walked) \in Nat /\ DOMAIN walked = 1..Len(walked)
  BY EntitiesAreTyped DEF WalkInv, PlaceInv
<1>3. SilentBefore(index + 1) <=> SilentBefore(index) /\ ~Descriptors!Undeclared(walked[index])
  BY <1>2 DEF SilentBefore
<1>4. QED
  BY <1>1, <1>3

LEMMA NoInformedEntityKeeps ==
  ASSUME Descriptors!LegalInputs, WalkInv, Descriptors!NoInformedEntity
  PROVE  WalkInv'
<1>1. /\ stage = "alert" /\ walked[index].alert = <<>> /\ stage' = "entities"
      /\ UNCHANGED <<walked, index, position, w009, found_w009>>
      /\ yielded' = yielded \cup {Finding("E032", "alert", index, 0)}
  BY DEF Descriptors!NoInformedEntity, Descriptors!entity, Descriptors!At, Finding
<1>2. Len(walked) \in Nat /\ DOMAIN walked = 1..Len(walked) /\ index \in DOMAIN walked
  BY <1>1, EntitiesAreTyped DEF WalkInv, PlaceInv
<1>3. \A rule, part, i, p : rule # "E032" =>
        (Finding(rule, part, i, p) \in yielded' <=> Finding(rule, part, i, p) \in yielded)
  BY <1>1 DEF Finding
<1>4. PlaceInv'
  <2>1. \A f \in yielded' : f.entity \in 1..Len(walked) /\ f.position \in Nat
    BY <1>1, <1>2 DEF WalkInv, PlaceInv, Finding
  <2>2. QED
    BY <1>1, <1>2, <2>1 DEF WalkInv, PlaceInv
<1>5. \A i : /\ Past(i, AfterTripUpdate)' <=> Past(i, AfterTripUpdate)
             /\ Past(i, AfterStops)' <=> Past(i, AfterStops)
             /\ Past(i, AfterVehicle)' <=> Past(i, AfterVehicle)
             /\ Past(i, AfterAlert)' <=> Past(i, AfterAlert) \/ i = index
  BY <1>1, <1>2 DEF Past, AfterTripUpdate, AfterStops, AfterVehicle, AfterAlert
<1>6. HalvesInv'
  BY <1>1, <1>3, <1>5 DEF WalkInv, HalvesInv, Asked
<1>7. SelectorsInv'
  <2>1. DOMAIN walked[index].alert = {}
    BY <1>1
  <2>2. QED
    BY <1>1, <1>3, <1>5, <2>1 DEF WalkInv, SelectorsInv, AskedOfAlerts
<1>8. StopsInv'
  BY <1>1, <1>3, <1>5 DEF WalkInv, StopsInv, IsWarned, Declares, SilentBefore
<1>9. ListInv'
  <2>1. ~w009 <=> SilentBefore(index) /\ UpdateIsSilent(index) /\ VehicleIsSilent(index)
    BY <1>1 DEF WalkInv, ListInv
  <2>2. DOMAIN walked[index].alert = {}
    BY <1>1
  <2>3. ~w009 <=> SilentBefore(index + 1)
    BY <1>2, <2>1, <2>2, EntityIsClosed
  <2>4. QED
    BY <1>1, <2>3 DEF ListInv, SilentBefore, AfterAlert
<1>10. QED
  BY <1>4, <1>6, <1>7, <1>8, <1>9 DEF WalkInv

LEMMA BeginAlertKeeps ==
  ASSUME Descriptors!LegalInputs, WalkInv, Descriptors!BeginAlert
  PROVE  WalkInv'
<1>1. /\ stage = "alert" /\ walked[index].alert \notin {None, <<>>} /\ stage' = "selectors" /\ position' = 1
      /\ UNCHANGED <<walked, index, w009, found_w009, yielded>>
  BY DEF Descriptors!BeginAlert, Descriptors!entity
<1>2. Len(walked) \in Nat /\ DOMAIN walked = 1..Len(walked) /\ index \in DOMAIN walked
  BY <1>1, EntitiesAreTyped DEF WalkInv, PlaceInv
<1>3. walked[index].alert \in Seq(Descriptors!EntitySelector)
  BY <1>1, <1>2, EntitiesAreTyped DEF WalkInv, PlaceInv
<1>4. PlaceInv'
  <2>1. position' \in 1..(Len(walked[index].alert) + 1)
    BY <1>1, <1>3
  <2>2. QED
    BY <1>1, <1>2, <2>1 DEF WalkInv, PlaceInv
<1>5. \A i : /\ Past(i, AfterTripUpdate)' <=> Past(i, AfterTripUpdate)
             /\ Past(i, AfterStops)' <=> Past(i, AfterStops)
             /\ Past(i, AfterVehicle)' <=> Past(i, AfterVehicle)
             /\ Past(i, AfterAlert)' <=> Past(i, AfterAlert)
  BY <1>1, <1>2 DEF Past, AfterTripUpdate, AfterStops, AfterVehicle, AfterAlert
<1>6. HalvesInv'
  BY <1>1, <1>5 DEF WalkInv, HalvesInv
<1>7. SelectorsInv'
  <2>1. \A p \in DOMAIN walked[index].alert : ~(p < 1)
    BY <1>3
  <2>2. QED
    BY <1>1, <1>5, <2>1 DEF WalkInv, SelectorsInv
<1>8. StopsInv'
  BY <1>1, <1>5 DEF WalkInv, StopsInv, IsWarned, Declares, SilentBefore
<1>9. ListInv'
  <2>1. ~w009 <=> SilentBefore(index) /\ UpdateIsSilent(index) /\ VehicleIsSilent(index)
    BY <1>1 DEF WalkInv, ListInv
  <2>2. \A q \in 1..(1 - 1) : FALSE
    OBVIOUS
  <2>3. QED
    BY <1>1, <2>1, <2>2 DEF ListInv, SilentBefore, UpdateIsSilent, VehicleIsSilent, Declares, AfterAlert
<1>10. QED
  BY <1>4, <1>6, <1>7, <1>8, <1>9 DEF WalkInv

\* What one informed_entity yields.
LEMMA WhatASelectorYields ==
  ASSUME NEW selector, NEW p
  PROVE  LET trip == selector.trip
             both == selector.route_id # None /\ trip # None
             of   == Descriptors!When(Descriptors!check_e033(selector), "E033", "alert", p)
                     \cup Descriptors!When(Descriptors!check_e034(selector), "E034", "alert", p)
                     \cup Descriptors!When(trip # None /\ Descriptors!check_e035(trip), "E035", "alert", p)
                     \cup Descriptors!When(both /\ Descriptors!check_e030(selector), "E030", "alert", p)
                     \cup Descriptors!When(both /\ Descriptors!check_e031(selector), "E031", "alert", p)
                     \cup Descriptors!When(trip # None /\ Descriptors!check_w006(trip), "W006", "alert", p)
                     \cup Descriptors!When(trip # None /\ Descriptors!check_w009(trip), "W009", "alert", p)
         IN  /\ \A f \in of : f.part = "alert" /\ f.entity = index /\ f.position = p
             /\ \A rule \in AskedOfAlerts : Finding(rule, "alert", index, p) \in of <=> DueOfAlert(rule, selector)
<1> DEFINE trip == selector.trip
           both == selector.route_id # None /\ trip # None
           a == trip # None /\ Descriptors!check_e035(trip)
           b == both /\ Descriptors!check_e030(selector)
           c == both /\ Descriptors!check_e031(selector)
           d == trip # None /\ Descriptors!check_w006(trip)
           e == trip # None /\ Descriptors!check_w009(trip)
           of == Descriptors!When(Descriptors!check_e033(selector), "E033", "alert", p)
                 \cup Descriptors!When(Descriptors!check_e034(selector), "E034", "alert", p)
                 \cup Descriptors!When(a, "E035", "alert", p)
                 \cup Descriptors!When(b, "E030", "alert", p)
                 \cup Descriptors!When(c, "E031", "alert", p)
                 \cup Descriptors!When(d, "W006", "alert", p)
                 \cup Descriptors!When(e, "W009", "alert", p)
<1>1. \A condition, rule : Descriptors!When(condition, rule, "alert", p) = IF condition THEN {Finding(rule, "alert", index, p)} ELSE {}
  BY DEF Descriptors!When, Descriptors!At, Finding
<1>2. /\ a <=> DueOfAlert("E035", selector)
      /\ b <=> DueOfAlert("E030", selector)
      /\ c <=> DueOfAlert("E031", selector)
  BY DEF DueOfAlert
<1> HIDE DEF a, b, c, d, e
<1>3. \A f \in of : f.part = "alert" /\ f.entity = index /\ f.position = p
  BY <1>1 DEF Finding
<1>4. \A r, q : Finding(r, "alert", index, p) = Finding(q, "alert", index, p) => r = q
  BY DEF Finding
<1>5. ASSUME NEW rule \in AskedOfAlerts PROVE Finding(rule, "alert", index, p) \in of <=> DueOfAlert(rule, selector)
  BY <1>1, <1>2, <1>4 DEF AskedOfAlerts
<1>6. QED
  BY <1>3, <1>5 DEF a, b, c, d, e

LEMMA SelectorKeeps ==
  ASSUME Descriptors!LegalInputs, WalkInv, Descriptors!Selector
  PROVE  WalkInv'
<1> DEFINE selector == walked[index].alert[position]
           missing == selector.trip # None /\ Descriptors!check_w009(selector.trip)
<1>1. /\ stage = "selectors" /\ position <= Len(walked[index].alert) /\ position' = position + 1
      /\ UNCHANGED <<walked, stage, index, found_w009>>
      /\ w009' = (w009 \/ missing)
  BY DEF Descriptors!Selector, Descriptors!entity
<1>2. PICK more : /\ yielded' = yielded \cup more
                  /\ \A f \in more : f.part = "alert" /\ f.entity = index /\ f.position = position
                  /\ \A rule \in AskedOfAlerts : Finding(rule, "alert", index, position) \in more <=> DueOfAlert(rule, selector)
  <2> DEFINE trip == selector.trip
             both == selector.route_id # None /\ trip # None
             of == Descriptors!When(Descriptors!check_e033(selector), "E033", "alert", position)
                   \cup Descriptors!When(Descriptors!check_e034(selector), "E034", "alert", position)
                   \cup Descriptors!When(trip # None /\ Descriptors!check_e035(trip), "E035", "alert", position)
                   \cup Descriptors!When(both /\ Descriptors!check_e030(selector), "E030", "alert", position)
                   \cup Descriptors!When(both /\ Descriptors!check_e031(selector), "E031", "alert", position)
                   \cup Descriptors!When(trip # None /\ Descriptors!check_w006(trip), "W006", "alert", position)
                   \cup Descriptors!When(trip # None /\ Descriptors!check_w009(trip), "W009", "alert", position)
  <2>1. yielded' = yielded \cup of
    BY DEF Descriptors!Selector, Descriptors!entity
  <2>2. /\ \A f \in of : f.part = "alert" /\ f.entity = index /\ f.position = position
        /\ \A rule \in AskedOfAlerts : Finding(rule, "alert", index, position) \in of <=> DueOfAlert(rule, selector)
    BY WhatASelectorYields
  <2> HIDE DEF of
  <2>3. QED
    BY <2>1, <2>2
<1>3. Len(walked) \in Nat /\ DOMAIN walked = 1..Len(walked) /\ index \in DOMAIN walked /\ walked[index].alert # None
  BY <1>1, EntitiesAreTyped DEF WalkInv, PlaceInv
<1>4. walked[index].alert \in Seq(Descriptors!EntitySelector)
  BY <1>3, EntitiesAreTyped DEF WalkInv, PlaceInv
<1>5. /\ Len(walked[index].alert) \in Nat /\ DOMAIN walked[index].alert = 1..Len(walked[index].alert)
      /\ position \in 1..Len(walked[index].alert)
  BY <1>1, <1>4 DEF WalkInv, PlaceInv
<1>6. w009 \in BOOLEAN /\ missing \in BOOLEAN
  BY DEF WalkInv, PlaceInv, Descriptors!check_w009
<1>7. SelectorIsSilent(index, position) <=> ~missing
  BY DEF SelectorIsSilent
<1> HIDE DEF selector, missing
<1>8. \A rule, part, i, p : part # "alert" \/ i # index \/ p # position =>
        (Finding(rule, part, i, p) \in yielded' <=> Finding(rule, part, i, p) \in yielded)
  BY <1>2 DEF Finding
<1>9. PlaceInv'
  <2>1. position' \in 1..(Len(walked[index].alert) + 1)
    BY <1>1, <1>5
  <2>2. w009' \in BOOLEAN /\ found_w009' \in BOOLEAN
    BY <1>1, <1>6 DEF WalkInv, PlaceInv
  <2>3. \A f \in yielded' : f.entity \in 1..Len(walked) /\ f.position \in Nat
    BY <1>2, <1>3, <1>5 DEF WalkInv, PlaceInv
  <2>4. QED
    BY <1>1, <2>1, <2>2, <2>3 DEF WalkInv, PlaceInv
<1>10. \A i, S : Past(i, S) <=> Past(i, S)'
  BY <1>1 DEF Past
<1>11. HalvesInv'
  BY <1>1, <1>8, <1>10 DEF WalkInv, HalvesInv
<1>12. SelectorsInv'
  <2>1. ASSUME NEW i, NEW p, NEW rule \in AskedOfAlerts
        PROVE  Finding(rule, "alert", i, p) \in yielded' <=>
                 /\ i \in DOMAIN walked /\ walked[i].alert # None /\ p \in DOMAIN walked[i].alert
                 /\ Past(i, AfterAlert) \/ (i = index /\ p < position + 1)
                 /\ DueOfAlert(rule, walked[i].alert[p])
    <3>1. CASE i = index /\ p = position
      <4>1. Finding(rule, "alert", i, p) \notin yielded
        <5>1. ~Past(index, AfterAlert) /\ ~(position < position)
          BY <1>1, <1>3, <1>5 DEF Past, AfterAlert
        <5>2. QED
          BY <3>1, <5>1 DEF WalkInv, SelectorsInv
      <4>2. Finding(rule, "alert", i, p) \in yielded' <=> DueOfAlert(rule, walked[i].alert[p])
        BY <1>2, <3>1, <4>1 DEF selector
      <4>3. p < position + 1
        BY <1>5, <3>1
      <4>4. QED
        BY <1>3, <1>5, <3>1, <4>2, <4>3
    <3>2. CASE ~(i = index /\ p = position)
      <4>1. Finding(rule, "alert", i, p) \in yielded' <=> Finding(rule, "alert", i, p) \in yielded
        BY <1>8, <3>2
      <4>2. i = index /\ p \in DOMAIN walked[index].alert => (p < position + 1 <=> p < position)
        BY <1>5, <3>2
      <4>3. QED
        BY <1>1, <4>1, <4>2 DEF WalkInv, SelectorsInv
    <3>3. QED
      BY <3>1, <3>2
  <2>2. QED
    BY <1>1, <1>10, <2>1 DEF SelectorsInv
<1>13. StopsInv'
  BY <1>1, <1>8, <1>10 DEF WalkInv, StopsInv, IsWarned, Declares, SilentBefore
<1>14. ListInv'
  <2>1. ~w009 <=> /\ SilentBefore(index) /\ UpdateIsSilent(index) /\ VehicleIsSilent(index)
                  /\ \A q \in 1..(position - 1) : SelectorIsSilent(index, q)
    BY <1>1 DEF WalkInv, ListInv
  <2>2. w009' <=> w009 \/ missing
    BY <1>1
  <2>3. (\A q \in 1..position : SelectorIsSilent(index, q)) <=>
          SelectorIsSilent(index, position) /\ \A q \in 1..(position - 1) : SelectorIsSilent(index, q)
    BY <1>5
  <2>4. ~w009' <=> /\ SilentBefore(index) /\ UpdateIsSilent(index) /\ VehicleIsSilent(index)
                   /\ \A q \in 1..position : SelectorIsSilent(index, q)
    BY <1>6, <1>7, <2>1, <2>2, <2>3
  <2>5. position' - 1 = position
    BY <1>1, <1>5
  <2>6. QED
    BY <1>1, <2>4, <2>5 DEF ListInv, SilentBefore, UpdateIsSilent, VehicleIsSilent, SelectorIsSilent, Declares, AfterAlert
<1>15. QED
  BY <1>9, <1>11, <1>12, <1>13, <1>14 DEF WalkInv

LEMMA AlertEndsKeeps ==
  ASSUME Descriptors!LegalInputs, WalkInv, Descriptors!AlertEnds
  PROVE  WalkInv'
<1>1. /\ stage = "selectors" /\ position > Len(walked[index].alert) /\ position' = 0 /\ stage' = "entities"
      /\ UNCHANGED <<walked, index, w009, found_w009, yielded>>
  BY DEF Descriptors!AlertEnds, Descriptors!entity
<1>2. Len(walked) \in Nat /\ DOMAIN walked = 1..Len(walked) /\ index \in DOMAIN walked /\ walked[index].alert # None
  BY <1>1, EntitiesAreTyped DEF WalkInv, PlaceInv
<1>3. walked[index].alert \in Seq(Descriptors!EntitySelector)
  BY <1>2, EntitiesAreTyped DEF WalkInv, PlaceInv
<1>4. /\ Len(walked[index].alert) \in Nat /\ DOMAIN walked[index].alert = 1..Len(walked[index].alert)
      /\ position = Len(walked[index].alert) + 1
  BY <1>1, <1>3 DEF WalkInv, PlaceInv
<1>5. PlaceInv'
  BY <1>1, <1>2 DEF WalkInv, PlaceInv
<1>6. \A i : /\ Past(i, AfterTripUpdate)' <=> Past(i, AfterTripUpdate)
             /\ Past(i, AfterStops)' <=> Past(i, AfterStops)
             /\ Past(i, AfterVehicle)' <=> Past(i, AfterVehicle)
             /\ Past(i, AfterAlert)' <=> Past(i, AfterAlert) \/ i = index
  BY <1>1, <1>2 DEF Past, AfterTripUpdate, AfterStops, AfterVehicle, AfterAlert
<1>7. HalvesInv'
  BY <1>1, <1>6 DEF WalkInv, HalvesInv
<1>8. SelectorsInv'
  <2>1. \A p \in DOMAIN walked[index].alert : p < position
    BY <1>4
  <2>2. QED
    BY <1>1, <1>6, <2>1 DEF WalkInv, SelectorsInv
<1>9. StopsInv'
  BY <1>1, <1>6 DEF WalkInv, StopsInv, IsWarned, Declares, SilentBefore
<1>10. ListInv'
  <2>1. ~w009 <=> /\ SilentBefore(index) /\ UpdateIsSilent(index) /\ VehicleIsSilent(index)
                  /\ \A q \in DOMAIN walked[index].alert : SelectorIsSilent(index, q)
    BY <1>1, <1>4 DEF WalkInv, ListInv
  <2>2. ~w009 <=> SilentBefore(index + 1)
    BY <1>2, <2>1, EntityIsClosed
  <2>3. QED
    BY <1>1, <2>2 DEF ListInv, SilentBefore, AfterAlert
<1>11. QED
  BY <1>5, <1>7, <1>8, <1>9, <1>10 DEF WalkInv

LEMMA EndKeeps ==
  ASSUME Descriptors!LegalInputs, WalkInv, Descriptors!End
  PROVE  WalkInv'
<1>1. /\ stage = "entities" /\ index = Len(walked) /\ stage' = "done"
      /\ UNCHANGED <<walked, index, position, w009, found_w009, yielded>>
  BY DEF Descriptors!End
<1>2. PlaceInv'
  BY <1>1 DEF WalkInv, PlaceInv
<1>3. \A i : /\ Past(i, AfterTripUpdate)' <=> Past(i, AfterTripUpdate)
             /\ Past(i, AfterStops)' <=> Past(i, AfterStops)
             /\ Past(i, AfterVehicle)' <=> Past(i, AfterVehicle)
             /\ Past(i, AfterAlert)' <=> Past(i, AfterAlert)
  BY <1>1 DEF Past, AfterTripUpdate, AfterStops, AfterVehicle, AfterAlert
<1>4. HalvesInv'
  BY <1>1, <1>3 DEF WalkInv, HalvesInv
<1>5. SelectorsInv'
  BY <1>1, <1>3 DEF WalkInv, SelectorsInv
<1>6. StopsInv'
  BY <1>1, <1>3 DEF WalkInv, StopsInv, IsWarned, Declares, SilentBefore
<1>7. ListInv'
  BY <1>1 DEF WalkInv, ListInv, SilentBefore, AfterAlert
<1>8. QED
  BY <1>2, <1>4, <1>5, <1>6, <1>7 DEF WalkInv

LEMMA WalkStands ==
  ASSUME WalkInv, UNCHANGED Descriptors!vars
  PROVE  WalkInv'
<1>1. UNCHANGED <<walked, stage, index, position, w009, found_w009, yielded>>
  BY DEF Descriptors!vars
<1>2. \A i, S : Past(i, S) <=> Past(i, S)'
  BY <1>1 DEF Past
<1>3. PlaceInv'
  BY <1>1 DEF WalkInv, PlaceInv
<1>4. HalvesInv' /\ SelectorsInv' /\ StopsInv'
  BY <1>1, <1>2 DEF WalkInv, HalvesInv, SelectorsInv, StopsInv, IsWarned, Declares, SilentBefore
<1>5. ListInv'
  BY <1>1 DEF WalkInv, ListInv, SilentBefore, UpdateIsSilent, VehicleIsSilent, SelectorIsSilent, Declares, AfterAlert
<1>6. QED
  BY <1>3, <1>4, <1>5 DEF WalkInv

LEMMA WalkIsKept ==
  Descriptors!LegalInputs => (Descriptors!Spec => []WalkInv)
<1> SUFFICES ASSUME Descriptors!LegalInputs PROVE Descriptors!Spec => []WalkInv
  OBVIOUS
<1>1. Descriptors!Init => WalkInv
  BY WalkBegins
<1>2. WalkInv /\ [Descriptors!Next]_Descriptors!vars => WalkInv'
  BY NextEntityKeeps, SkippingKeeps, TripUpdateKeeps, StopTimeUpdateKeeps, TripUpdateEndsKeeps, VehicleKeeps,
     NoInformedEntityKeeps, BeginAlertKeeps, SelectorKeeps, AlertEndsKeeps, EndKeeps, WalkStands DEF Descriptors!Next
<1>3. QED
  BY <1>1, <1>2, PTL DEF Descriptors!Spec

-----------------------------------------------------------------------------
\* The variables keep their shape (rules/_shared/walk_trip_descriptor.py).
THEOREM WalkTypeOK ==
  Descriptors!LegalInputs => (Descriptors!Spec => []Descriptors!TypeOK)
<1> SUFFICES ASSUME Descriptors!LegalInputs PROVE Descriptors!Spec => []Descriptors!TypeOK
  OBVIOUS
<1>1. WalkInv => Descriptors!TypeOK
  BY DEF WalkInv, PlaceInv, Descriptors!TypeOK
<1>2. QED
  BY <1>1, WalkIsKept, PTL

\* At the end every entity is past, with all its halves.
LEMMA AllIsPast ==
  ASSUME Descriptors!LegalInputs, WalkInv, stage = "done"
  PROVE  \A i \in DOMAIN walked :
           Past(i, AfterTripUpdate) /\ Past(i, AfterStops) /\ Past(i, AfterVehicle) /\ Past(i, AfterAlert)
<1>1. DOMAIN walked = 1..Len(walked) /\ index = Len(walked) /\ Len(walked) \in Nat
  BY EntitiesAreTyped DEF WalkInv, PlaceInv
<1>2. QED
  BY <1>1 DEF Past, AfterTripUpdate, AfterStops, AfterVehicle, AfterAlert

\* What the walk warns of in a trip is its first undeclared update while nothing
\* before was undeclared, and otherwise only the very first (rule W009).
THEOREM TheFirstIsWarnedOf ==
  Descriptors!LegalInputs => (Descriptors!Spec => []Descriptors!WarnsOfTheFirst)
<1> SUFFICES ASSUME Descriptors!LegalInputs PROVE Descriptors!Spec => []Descriptors!WarnsOfTheFirst
  OBVIOUS
<1>1. WalkInv => Descriptors!WarnsOfTheFirst
  <2>1. SUFFICES ASSUME WalkInv, stage = "done", NEW i \in DOMAIN walked, walked[i].trip_update # None,
                        NEW p \in DOMAIN walked[i].trip_update.stop_time_update
                 PROVE  Descriptors!Reported("W009", "stop_time_update", i, p) <=>
                          /\ ~walked[i].trip_update.stop_time_update[p]
                          /\ \/ p = 1
                             \/ /\ \A j \in 1..(i - 1) : ~Descriptors!Undeclared(walked[j])
                                /\ \A q \in 1..(p - 1) : walked[i].trip_update.stop_time_update[q]
    BY DEF Descriptors!WarnsOfTheFirst
  <2>2. Past(i, AfterStops)
    BY <2>1, AllIsPast
  <2>3. Finding("W009", "stop_time_update", i, p) \in yielded <=> IsWarned(i, p)
    BY <2>1, <2>2 DEF WalkInv, StopsInv
  <2>4. QED
    BY <2>3 DEF IsWarned, SilentBefore, Declares, Descriptors!Reported, Finding
<1>2. QED
  BY <1>1, WalkIsKept, PTL

\* The walk's count is the library's.
LEMMA WalkCounts ==
  ASSUME NEW S
  PROVE  Descriptors!Cardinality(S) = Cardinality(S)
BY DEF Descriptors!Cardinality, Cardinality

\* Of two rules that exclude each other, one speaks or none.
LEMMA OneOfTwo ==
  ASSUME NEW a, NEW b, a # b, NEW part, NEW i, NEW p,
         ~(Descriptors!Reported(a, part, i, p) /\ Descriptors!Reported(b, part, i, p))
  PROVE  Cardinality(Descriptors!Speaking({a, b}, part, i, p)) =
           IF Descriptors!Reported(a, part, i, p) \/ Descriptors!Reported(b, part, i, p) THEN 1 ELSE 0
<1> DEFINE S == Descriptors!Speaking({a, b}, part, i, p)
<1>1. S = {rule \in {a, b} : Descriptors!Reported(rule, part, i, p)}
  BY DEF Descriptors!Speaking
<1> HIDE DEF S
<1>2. CASE Descriptors!Reported(a, part, i, p)
  <2>1. S = {a}
    BY <1>1, <1>2
  <2>2. QED
    BY <1>2, <2>1, FS_Singleton DEF S
<1>3. CASE Descriptors!Reported(b, part, i, p)
  <2>1. S = {b}
    BY <1>1, <1>3
  <2>2. QED
    BY <1>3, <2>1, FS_Singleton DEF S
<1>4. CASE ~Descriptors!Reported(a, part, i, p) /\ ~Descriptors!Reported(b, part, i, p)
  <2>1. S = {}
    BY <1>1, <1>4
  <2>2. QED
    BY <1>4, <2>1, FS_EmptySet DEF S
<1>5. QED
  BY <1>2, <1>3, <1>4

\* What the two rules on each reference say of a descriptor that is looked up.
ReferencesHold(trip, part, i) ==
  /\ Cardinality(Descriptors!Speaking({"E003", "E016"}, part, i, 0)) =
       IF Descriptors!known_trip(trip) = Descriptors!is_added_trip(trip) THEN 1 ELSE 0
  /\ Cardinality(Descriptors!Speaking({"E004", "E035"}, part, i, 0)) =
       IF /\ Descriptors!text_of(trip.route_id) # Empty
          /\ \/ trip.route_id \notin route_ids
             \/ Descriptors!known_trip(trip) /\ trips[trip.trip_id].route_id # trip.route_id
       THEN 1 ELSE 0

LEMMA ReferencesOfADescriptor ==
  ASSUME Descriptors!LegalInputs, NEW trip \in Descriptors!TripDescriptor, trip.trip_id # None, NEW part, NEW i,
         \A rule \in Asked : Descriptors!Reported(rule, part, i, 0) <=> Due(rule, trip, TRUE)
  PROVE  ReferencesHold(trip, part, i)
<1> DEFINE known == Descriptors!known_trip(trip)
           added == Descriptors!is_added_trip(trip)
           differs == trips[trip.trip_id].route_id # trip.route_id
<1>1. known \in BOOLEAN /\ added \in BOOLEAN
  BY DEF Descriptors!known_trip, Descriptors!is_added_trip
<1>2. /\ Descriptors!Reported("E003", part, i, 0) <=> ~known /\ ~added
      /\ Descriptors!Reported("E016", part, i, 0) <=> known /\ added
      /\ Descriptors!Reported("E004", part, i, 0) <=> Descriptors!check_e004(trip)
      /\ Descriptors!Reported("E035", part, i, 0) <=> Descriptors!check_e035(trip)
  BY DEF Due, Asked
<1>3. Descriptors!check_e004(trip) <=> Descriptors!text_of(trip.route_id) # Empty /\ trip.route_id \notin route_ids
  BY DEF Descriptors!check_e004
<1>4. Descriptors!check_e035(trip) <=> Descriptors!text_of(trip.route_id) # Empty /\ trip.route_id \in route_ids /\ known /\ differs
  <2>1. trip.route_id \in route_ids => trip.route_id # None /\ Descriptors!text_of(trip.route_id) # Empty
    BY DEF Descriptors!LegalInputs, Descriptors!text_of
  <2>2. QED
    BY <2>1 DEF Descriptors!check_e035
<1> HIDE DEF known, added, differs
<1>5. Cardinality(Descriptors!Speaking({"E003", "E016"}, part, i, 0)) = IF known = added THEN 1 ELSE 0
  <2>1. Cardinality(Descriptors!Speaking({"E003", "E016"}, part, i, 0)) =
          IF Descriptors!Reported("E003", part, i, 0) \/ Descriptors!Reported("E016", part, i, 0) THEN 1 ELSE 0
    BY <1>2, OneOfTwo
  <2>2. Descriptors!Reported("E003", part, i, 0) \/ Descriptors!Reported("E016", part, i, 0) <=> known = added
    BY <1>1, <1>2
  <2>3. QED
    BY <2>1, <2>2
<1>6. Cardinality(Descriptors!Speaking({"E004", "E035"}, part, i, 0)) =
        IF Descriptors!text_of(trip.route_id) # Empty /\ (trip.route_id \notin route_ids \/ (known /\ differs)) THEN 1 ELSE 0
  <2>1. Cardinality(Descriptors!Speaking({"E004", "E035"}, part, i, 0)) =
          IF Descriptors!Reported("E004", part, i, 0) \/ Descriptors!Reported("E035", part, i, 0) THEN 1 ELSE 0
    BY <1>2, <1>3, <1>4, OneOfTwo
  <2>2. QED
    BY <1>2, <1>3, <1>4, <2>1
<1>7. QED
  BY <1>5, <1>6 DEF ReferencesHold, known, added, differs

\* Each reference a descriptor breaks is one finding, and one that it keeps is
\* none (rules E003, E004, E016, E035).
THEOREM ReferencesAreReportedOnce ==
  Descriptors!LegalInputs => (Descriptors!Spec => []Descriptors!OneFindingPerReference)
<1> SUFFICES ASSUME Descriptors!LegalInputs PROVE Descriptors!Spec => []Descriptors!OneFindingPerReference
  OBVIOUS
<1>1. WalkInv => Descriptors!OneFindingPerReference
  <2> SUFFICES ASSUME WalkInv, stage = "done", NEW d \in Descriptors!Descriptors
               PROVE  ReferencesHold(d[1], d[2], d[3])
    BY WalkCounts DEF Descriptors!OneFindingPerReference, ReferencesHold
  <2>1. /\ d[1] \in Descriptors!TripDescriptor /\ d[1].trip_id # None
        /\ \A rule \in Asked : Descriptors!Reported(rule, d[2], d[3], 0) <=> Due(rule, d[1], TRUE)
    <3>1. CASE \E i \in DOMAIN walked : walked[i].trip_update # None /\ walked[i].trip_update.trip.trip_id # None
                                        /\ d = <<walked[i].trip_update.trip, "trip_update", i>>
      <4>1. PICK i \in DOMAIN walked : walked[i].trip_update # None /\ walked[i].trip_update.trip.trip_id # None
                                        /\ d = <<walked[i].trip_update.trip, "trip_update", i>>
        BY <3>1
      <4>2. d[1] = walked[i].trip_update.trip /\ d[2] = "trip_update" /\ d[3] = i
        BY <4>1
      <4>3. Past(i, AfterTripUpdate) /\ walked[i].trip_update.trip \in Descriptors!TripDescriptor
        BY <4>1, AllIsPast, EntitiesAreTyped DEF WalkInv, PlaceInv
      <4>4. \A rule \in Asked : Descriptors!Reported(rule, "trip_update", i, 0) <=> Due(rule, walked[i].trip_update.trip, TRUE)
        <5>1. (walked[i].trip_update.trip.trip_id # None) = TRUE
          BY <4>1
        <5>2. \A rule \in Asked : Finding(rule, "trip_update", i, 0) \in yielded <=> Due(rule, walked[i].trip_update.trip, TRUE)
          BY <4>1, <4>3, <5>1 DEF WalkInv, HalvesInv
        <5>3. QED
          BY <5>2 DEF Descriptors!Reported, Finding
      <4>5. QED
        BY <4>1, <4>2, <4>3, <4>4
    <3>2. CASE \E i \in DOMAIN walked : walked[i].vehicle # None /\ Descriptors!text_of(walked[i].vehicle.trip_id) # Empty
                                        /\ d = <<walked[i].vehicle, "vehicle", i>>
      <4>1. PICK i \in DOMAIN walked : walked[i].vehicle # None /\ Descriptors!text_of(walked[i].vehicle.trip_id) # Empty
                                        /\ d = <<walked[i].vehicle, "vehicle", i>>
        BY <3>2
      <4>2. d[1] = walked[i].vehicle /\ d[2] = "vehicle" /\ d[3] = i
        BY <4>1
      <4>3. Past(i, AfterVehicle) /\ walked[i].vehicle \in Descriptors!TripDescriptor
        BY <4>1, AllIsPast, EntitiesAreTyped DEF WalkInv, PlaceInv
      <4>4. walked[i].vehicle.trip_id # None
        BY <4>1 DEF Descriptors!text_of
      <4>5. \A rule \in Asked : Descriptors!Reported(rule, "vehicle", i, 0) <=> Due(rule, walked[i].vehicle, TRUE)
        <5>1. (Descriptors!text_of(walked[i].vehicle.trip_id) # Empty) = TRUE
          BY <4>1
        <5>2. \A rule \in Asked : Finding(rule, "vehicle", i, 0) \in yielded <=> Due(rule, walked[i].vehicle, TRUE)
          BY <4>1, <4>3, <5>1 DEF WalkInv, HalvesInv
        <5>3. QED
          BY <5>2 DEF Descriptors!Reported, Finding
      <4>6. QED
        BY <4>1, <4>2, <4>3, <4>4, <4>5
    <3>3. QED
      BY <3>1, <3>2 DEF Descriptors!Descriptors
  <2>2. QED
    BY <2>1, ReferencesOfADescriptor
<1>2. QED
  BY <1>1, WalkIsKept, PTL

\* A disagreement among the three routes of a selector is never the finding of
\* one rule alone (rules E030, E031, E035).
THEOREM DisagreementsAreNeverAlone ==
  Descriptors!LegalInputs => (Descriptors!Spec => []Descriptors!NoDisagreementAlone)
<1> SUFFICES ASSUME Descriptors!LegalInputs PROVE Descriptors!Spec => []Descriptors!NoDisagreementAlone
  OBVIOUS
<1>1. WalkInv => Descriptors!NoDisagreementAlone
  <2>1. SUFFICES ASSUME WalkInv, stage = "done", NEW i \in {j \in DOMAIN walked : walked[j].alert # None},
                        NEW p \in DOMAIN walked[i].alert,
                        walked[i].alert[p].route_id # None, walked[i].alert[p].trip # None,
                        Descriptors!known_trip(walked[i].alert[p].trip), walked[i].alert[p].trip.route_id \in route_ids
                 PROVE  Cardinality(Descriptors!Speaking({"E030", "E031", "E035"}, "alert", i, p)) # 1
    BY WalkCounts DEF Descriptors!NoDisagreementAlone
  <2> DEFINE selector == walked[i].alert[p]
             trip == selector.trip
             schedules == trips[trip.trip_id].route_id
             S == Descriptors!Speaking({"E030", "E031", "E035"}, "alert", i, p)
  <2>2. Past(i, AfterAlert)
    BY <2>1, AllIsPast
  <2>3. \A rule \in AskedOfAlerts : Descriptors!Reported(rule, "alert", i, p) <=> DueOfAlert(rule, selector)
    <3>1. \A rule \in AskedOfAlerts : Finding(rule, "alert", i, p) \in yielded <=> DueOfAlert(rule, selector)
      BY <2>1, <2>2 DEF WalkInv, SelectorsInv
    <3>2. QED
      BY <3>1 DEF Descriptors!Reported, Finding
  <2>4. trip.trip_id # None /\ trip.route_id # None
    BY <2>1 DEF Descriptors!known_trip, Descriptors!text_of, Descriptors!LegalInputs
  <2>5. /\ DueOfAlert("E030", selector) <=> schedules # selector.route_id
        /\ DueOfAlert("E031", selector) <=> trip.route_id # selector.route_id
        /\ DueOfAlert("E035", selector) <=> schedules # trip.route_id
    BY <2>1, <2>4 DEF DueOfAlert, Descriptors!check_e030, Descriptors!check_e031, Descriptors!check_e035
  <2>6. S = {rule \in AskedOfAlerts : DueOfAlert(rule, selector)}
    <3>1. S = {rule \in AskedOfAlerts : Descriptors!Reported(rule, "alert", i, p)}
      BY DEF Descriptors!Speaking, AskedOfAlerts
    <3>2. QED
      BY <2>3, <3>1
  <2> HIDE DEF S, trip, selector, schedules
  <2>7. ASSUME Cardinality(S) = 1 PROVE FALSE
    <3>1. IsFiniteSet(S)
      <4>1. IsFiniteSet({"E030", "E031", "E035"})
        <5>1. IsFiniteSet({"E030"}) /\ IsFiniteSet({"E031"}) /\ IsFiniteSet({"E035"})
          BY FS_Singleton
        <5>2. IsFiniteSet(({"E030"} \cup {"E031"}) \cup {"E035"})
          BY <5>1, FS_Union
        <5>3. {"E030", "E031", "E035"} = ({"E030"} \cup {"E031"}) \cup {"E035"}
          OBVIOUS
        <5>4. QED
          BY <5>2, <5>3
      <4>2. QED
        BY <2>6, <4>1, FS_Subset DEF AskedOfAlerts
    <3>2. PICK one : S = {one}
      BY <2>7, <3>1, FS_Singleton
    <3>3. QED
      BY <2>5, <2>6, <3>2 DEF AskedOfAlerts
  <2>8. QED
    BY <2>7 DEF S
<1>2. QED
  BY <1>1, WalkIsKept, PTL

-----------------------------------------------------------------------------
(* VehicleWalk: what each rule says of a vehicle is a matter of that       *)
(* vehicle and, of its id, of the ones before it; P015 and the carriages   *)
(* are told from what the walk has found, once it is over.                 *)

CONSTANTS Fleets, Lacking, NaN, TripBuffer, North, East, Half, Pole, Asin
VARIABLES world, traffic, passed, seen_vehicle_ids, told, stop

Fleet == INSTANCE VehicleWalk WITH
  Worlds <- Fleets, entities <- traffic, index <- passed, found <- told, pc <- stop

LEMMA FleetCounts == \A S : Fleet!Cardinality(S) = Cardinality(S)
BY DEF Fleet!Cardinality, Cardinality

\* The nest speaks of a place where nothing ended the run.
Nest(r, i) ==
  LET v == traffic[i].vehicle
  IN  i \in Fleet!Walked /\ v.position # None /\ Fleet!raises(i) = None /\ r \in Fleet!nested(v)

\* Another vehicle, before this one, had its id.
Borne(i) == \E j \in Fleet!Walked : j < i /\ traffic[j].vehicle.id = traffic[i].vehicle.id

Doubled(c) == \E k, l \in DOMAIN c : l # k /\ c[l].id = c[k].id /\ c[k].id # None
Misnumbered(c) == \E k \in DOMAIN c : c[k].sequence # k

\* Where the walk stands, and what ends it.
StandsInv ==
  /\ world \in Fleets /\ traffic = world.message
  /\ passed \in 1..(Len(traffic) + 1)
  /\ stop \in {"walking", "done", "no LineString"}
  /\ seen_vehicle_ids = {traffic[i].vehicle.id : i \in Fleet!Walked} \ {""}
  /\ \A f \in told : f[3] \in 1..(passed - 1)
  /\ stop = "done" => passed = Len(traffic) + 1
  /\ stop = "no LineString" => passed > 1 /\ Fleet!raises(passed - 1) = "no LineString"

\* What was said of every vehicle the walk is past, and of no other.
SaidInv ==
  /\ \A i : Fleet!Said("W002", i) <=> i \in Fleet!Walked /\ traffic[i].vehicle.id = ""
  /\ \A i : Fleet!Said("E052", i) <=> i \in Fleet!Walked /\ traffic[i].vehicle.id # "" /\ Borne(i)
  /\ \A i : \A r \in {"E026", "E028", "E029"} : Fleet!Said(r, i) <=> Nest(r, i)

\* What the rules that read the walk's findings say after it.
AfterInv ==
  /\ \A i : Fleet!Said("P015", i) <=>
       /\ stop = "done" /\ i \in Fleet!Vehicles /\ \A r \in {"E026", "E028", "E029"} : ~Nest(r, i)
       /\ Fleet!_measure(traffic[i].vehicle)
  /\ \A i : (\E f \in told : f[1] \in {"S051", "S052"} /\ f[3] = i) <=>
       /\ stop = "done" /\ i \in Fleet!Vehicles
       /\ Doubled(traffic[i].vehicle.carriages) \/ Misnumbered(traffic[i].vehicle.carriages)

FleetInv == StandsInv /\ SaidInv /\ AfterInv

LEMMA FleetsAreLists ==
  ASSUME Fleet!LegalInputs, StandsInv
  PROVE  Len(traffic) \in Nat /\ DOMAIN traffic = 1..Len(traffic)
<1> DEFINE T == Fleet!Range(world.message)
<1>1. traffic \in Seq(T)
  BY DEF StandsInv, Fleet!LegalInputs
<1> HIDE DEF T
<1>2. QED
  BY <1>1

LEMMA FleetInit ==
  ASSUME Fleet!LegalInputs, Fleet!Init
  PROVE  FleetInv
<1>1. Len(traffic) \in Nat
  <2> DEFINE T == Fleet!Range(world.message)
  <2>1. traffic \in Seq(T)
    BY DEF Fleet!Init, Fleet!LegalInputs
  <2> HIDE DEF T
  <2>2. QED
    BY <2>1
<1>2. DOMAIN traffic \subseteq Nat \ {0}
  <2> DEFINE T == Fleet!Range(world.message)
  <2>1. traffic \in Seq(T)
    BY DEF Fleet!Init, Fleet!LegalInputs
  <2> HIDE DEF T
  <2>2. QED
    BY <2>1
<1>3. Fleet!Walked = {}
  BY <1>2 DEF Fleet!Init, Fleet!Walked, Fleet!Vehicles
<1>4. StandsInv
  BY <1>1, <1>3 DEF Fleet!Init, StandsInv
<1>5. SaidInv
  BY <1>3 DEF Fleet!Init, SaidInv, Fleet!Said, Nest
<1>6. AfterInv
  BY DEF Fleet!Init, AfterInv, Fleet!Said
<1>7. QED
  BY <1>4, <1>5, <1>6 DEF FleetInv

\* The feed and the message stay what they were.
LEMMA FleetStays ==
  ASSUME world' = world, traffic' = traffic
  PROVE  /\ Fleet!Vehicles' = Fleet!Vehicles
         /\ \A i : Fleet!raises(i)' = Fleet!raises(i)
         /\ \A v : Fleet!nested(v)' = Fleet!nested(v)
         /\ \A v : Fleet!_measure(v)' = Fleet!_measure(v)
<1>1. Fleet!Vehicles' = Fleet!Vehicles
  BY DEF Fleet!Vehicles
<1>2. \A v : Fleet!buffered_trip_shape(v)' = Fleet!buffered_trip_shape(v)
  BY DEF Fleet!buffered_trip_shape
<1>3. \A p : Fleet!inside_agency_bounds(p)' = Fleet!inside_agency_bounds(p)
  BY DEF Fleet!inside_agency_bounds
<1>4. \A v : Fleet!far_from_shape(v)' = Fleet!far_from_shape(v)
  BY <1>2 DEF Fleet!far_from_shape
<1>5. \A i : Fleet!raises(i)' = Fleet!raises(i)
  BY <1>2, <1>3 DEF Fleet!raises
<1>6. \A v : Fleet!nested(v)' = Fleet!nested(v)
  BY <1>3, <1>4 DEF Fleet!nested
<1>7. \A m : Fleet!visible_index(m)' = Fleet!visible_index(m)
  BY DEF Fleet!visible_index
<1>8. \A t : Fleet!_shape_for(t)' = Fleet!_shape_for(t)
  BY DEF Fleet!_shape_for
<1>9. \A v : Fleet!_measure(v)' = Fleet!_measure(v)
  BY <1>7, <1>8 DEF Fleet!_measure
<1>10. QED
  BY <1>1, <1>5, <1>6, <1>9

\* A place that is looked up is on the globe.
LEMMA NoBadValue == ASSUME Fleet!LegalInputs PROVE \A i : Fleet!raises(i) \in {None, "no LineString"} /\ None # "no LineString"
BY DEF Fleet!LegalInputs, Fleet!raises, Fleet!no_place, Fleet!refused, Fleet!is_position_valid

\* What one entity adds is told of it and of no other.
LEMMA WhatAVehicleAdds ==
  ASSUME Fleet!vehicles
  PROVE  LET v == traffic[passed].vehicle
         IN  /\ \A f \in told' : f \in told \/ f[3] = passed
             /\ \A f \in told' : f[1] \in {"S051", "S052"} => f \in told
             /\ \A i : Fleet!Said("P015", i)' <=> Fleet!Said("P015", i)
             /\ \A i : Fleet!Said("W002", i)' <=> Fleet!Said("W002", i) \/ (i = passed /\ v # None /\ v.id = "")
             /\ \A i : Fleet!Said("E052", i)' <=>
                  Fleet!Said("E052", i) \/ (i = passed /\ v # None /\ v.id # "" /\ v.id \in seen_vehicle_ids)
             /\ \A i : \A r \in {"E026", "E028", "E029"} : Fleet!Said(r, i)' <=>
                  Fleet!Said(r, i) \/ (i = passed /\ v # None /\ v.position # None
                                       /\ Fleet!raises(passed) = None /\ r \in Fleet!nested(v))
<1> DEFINE v == traffic[passed].vehicle
           A == IF v = None THEN {} ELSE Fleet!_identity(passed)
           B == IF v = None \/ v.position = None THEN {} ELSE Fleet!_check_speed(passed)
           C == IF v = None \/ v.position = None \/ Fleet!raises(passed) # None THEN {} ELSE Fleet!_check_position(passed)
           D == Fleet!_trip_update_half(passed)
<1>1. told' = told \cup D \cup A \cup B \cup C
  BY DEF Fleet!vehicles
<1>2. \A f \in D : f = <<"W002", "trip_update", passed>>
  BY DEF Fleet!_trip_update_half
<1>3. \A f \in B : f = <<"W004", "vehicle", passed>>
  BY DEF Fleet!_check_speed
<1>4. \A f : f \in A <=> /\ v # None
                         /\ \/ v.id = "" /\ f = <<"W002", "vehicle", passed>>
                            \/ v.id # "" /\ v.id \in seen_vehicle_ids /\ f = <<"E052", "vehicle", passed>>
  BY DEF Fleet!_identity, Fleet!seen_before
<1>5. \A f : f \in C <=> /\ v # None /\ v.position # None /\ Fleet!raises(passed) = None
                         /\ \E r \in Fleet!nested(v) \cup (IF Fleet!is_bearing_valid(v.position) THEN {} ELSE {"E027"}) :
                              f = <<r, "vehicle", passed>>
  BY DEF Fleet!_check_position
<1>6. Fleet!nested(v) \subseteq {"E026", "E028", "E029"}
  BY DEF Fleet!nested
<1> HIDE DEF A, B, C, D, v
<1>7. ASSUME NEW f
      PROVE  f \in told' <=>
               \/ f \in told
               \/ f \in D
               \/ f \in B
               \/ v # None /\ v.id = "" /\ f = <<"W002", "vehicle", passed>>
               \/ v # None /\ v.id # "" /\ v.id \in seen_vehicle_ids /\ f = <<"E052", "vehicle", passed>>
               \/ f \in C
  BY <1>1, <1>4
<1>8. \A f \in C : \E r \in {"E026", "E027", "E028", "E029"} : f = <<r, "vehicle", passed>>
  BY <1>5, <1>6
<1>9. ASSUME NEW f \in told', f \notin told
      PROVE  \E r \in {"W002", "W004", "E052", "E026", "E027", "E028", "E029"}, s \in {"vehicle", "trip_update"} :
               f = <<r, s, passed>>
  <2>1. CASE f \in D
    BY <1>2, <2>1
  <2>2. CASE f \in B
    BY <1>3, <2>2
  <2>3. CASE f \in C
    BY <1>8, <2>3
  <2>4. CASE f = <<"W002", "vehicle", passed>>
    BY <2>4
  <2>5. CASE f = <<"E052", "vehicle", passed>>
    BY <2>5
  <2>6. QED
    BY <1>7, <1>9, <2>1, <2>2, <2>3, <2>4, <2>5
<1>10. /\ \A f \in told' : f \in told \/ f[3] = passed
       /\ \A f \in told' : f[1] \in {"S051", "S052"} => f \in told
  <2> SUFFICES ASSUME NEW f \in told', f \notin told PROVE f[3] = passed /\ f[1] \notin {"S051", "S052"}
    OBVIOUS
  <2>1. PICK r \in {"W002", "W004", "E052", "E026", "E027", "E028", "E029"}, s \in {"vehicle", "trip_update"} :
               f = <<r, s, passed>>
    BY <1>9
  <2>2. QED
    BY <2>1
<1>11. ASSUME NEW i, NEW r
       PROVE  /\ <<r, "vehicle", i>> \in D => FALSE
              /\ <<r, "vehicle", i>> \in B => r = "W004"
              /\ <<r, "vehicle", i>> \in C => r \in {"E026", "E027", "E028", "E029"} /\ i = passed
              /\ r \in {"E026", "E028", "E029"} =>
                   (<<r, "vehicle", i>> \in C <=> i = passed /\ v # None /\ v.position # None
                                                   /\ Fleet!raises(passed) = None /\ r \in Fleet!nested(v))
  <2>1. <<r, "vehicle", i>> \notin D
    BY <1>2
  <2>2. <<r, "vehicle", i>> \in B => r = "W004"
    BY <1>3
  <2>3. <<r, "vehicle", i>> \in C => r \in {"E026", "E027", "E028", "E029"} /\ i = passed
    BY <1>8
  <2>4. ASSUME r \in {"E026", "E028", "E029"}
        PROVE  <<r, "vehicle", i>> \in C <=> i = passed /\ v # None /\ v.position # None
                                                   /\ Fleet!raises(passed) = None /\ r \in Fleet!nested(v)
    <3>1. r # "E027"
      BY <2>4
    <3>2. \A q : <<r, "vehicle", i>> = <<q, "vehicle", passed>> <=> r = q /\ i = passed
      OBVIOUS
    <3>3. QED
      BY <1>5, <3>1, <3>2
  <2>5. QED
    BY <2>1, <2>2, <2>3, <2>4
<1>12. ASSUME NEW i, NEW r
       PROVE  Fleet!Said(r, i)' <=>
               \/ Fleet!Said(r, i)
               \/ <<r, "vehicle", i>> \in B
               \/ v # None /\ v.id = "" /\ r = "W002" /\ i = passed
               \/ v # None /\ v.id # "" /\ v.id \in seen_vehicle_ids /\ r = "E052" /\ i = passed
               \/ <<r, "vehicle", i>> \in C
  <2>1. \A q : <<r, "vehicle", i>> = <<q, "vehicle", passed>> <=> r = q /\ i = passed
    OBVIOUS
  <2>2. QED
    BY <1>7, <1>11, <2>1 DEF Fleet!Said
<1>13. ASSUME NEW i
       PROVE  /\ Fleet!Said("P015", i)' <=> Fleet!Said("P015", i)
              /\ Fleet!Said("W002", i)' <=> Fleet!Said("W002", i) \/ (i = passed /\ v # None /\ v.id = "")
              /\ Fleet!Said("E052", i)' <=>
                   Fleet!Said("E052", i) \/ (i = passed /\ v # None /\ v.id # "" /\ v.id \in seen_vehicle_ids)
  <2>1. \A r \in {"P015", "W002", "E052"} : <<r, "vehicle", i>> \notin B /\ <<r, "vehicle", i>> \notin C
    BY <1>11
  <2>2. Fleet!Said("P015", i)' <=> Fleet!Said("P015", i)
    BY <1>12, <2>1
  <2>3. Fleet!Said("W002", i)' <=> Fleet!Said("W002", i) \/ (i = passed /\ v # None /\ v.id = "")
    BY <1>12, <2>1
  <2>4. Fleet!Said("E052", i)' <=>
                   Fleet!Said("E052", i) \/ (i = passed /\ v # None /\ v.id # "" /\ v.id \in seen_vehicle_ids)
    BY <1>12, <2>1
  <2>5. QED
    BY <2>2, <2>3, <2>4
<1>14. \A i : \A r \in {"E026", "E028", "E029"} : Fleet!Said(r, i)' <=>
          Fleet!Said(r, i) \/ (i = passed /\ v # None /\ v.position # None
                               /\ Fleet!raises(passed) = None /\ r \in Fleet!nested(v))
  BY <1>11, <1>12
<1>15. QED
  BY <1>10, <1>13, <1>14 DEF v

\* The walk is one entity further.
LEMMA OneMoreWalked ==
  ASSUME Fleet!LegalInputs, StandsInv, Fleet!vehicles
  PROVE  /\ Fleet!Walked' = Fleet!Walked \cup {i \in {passed} : traffic[i].vehicle # None}
         /\ passed \in DOMAIN traffic /\ passed \notin Fleet!Walked
         /\ \A i \in Fleet!Walked : i < passed
<1>1. Len(traffic) \in Nat /\ DOMAIN traffic = 1..Len(traffic) /\ passed \in 1..Len(traffic)
  <2>1. Len(traffic) \in Nat /\ DOMAIN traffic = 1..Len(traffic)
    BY FleetsAreLists
  <2>2. passed <= Len(traffic) /\ passed \in 1..(Len(traffic) + 1)
    BY DEF Fleet!vehicles, StandsInv
  <2>3. QED
    BY <2>1, <2>2
<1>2. traffic' = traffic /\ passed' = passed + 1
  BY DEF Fleet!vehicles
<1>3. Fleet!Walked' = {i \in Fleet!Vehicles : i < passed + 1}
  BY <1>2 DEF Fleet!Walked, Fleet!Vehicles
<1>4. QED
  BY <1>1, <1>3 DEF Fleet!Walked, Fleet!Vehicles

LEMMA VehicleKeepsTheWalk ==
  ASSUME Fleet!LegalInputs, StandsInv, Fleet!vehicles
  PROVE  StandsInv'
<1>1. world' = world /\ traffic' = traffic /\ passed' = passed + 1 /\ stop = "walking" /\ passed <= Len(traffic)
  BY DEF Fleet!vehicles
<1>2. Len(traffic) \in Nat /\ passed \in 1..(Len(traffic) + 1)
  BY FleetsAreLists DEF StandsInv
<1>3. stop' \in {"walking", "no LineString"} /\ (stop' = "no LineString" => Fleet!raises(passed) = "no LineString")
  BY <1>1, NoBadValue DEF Fleet!vehicles
<1>4. seen_vehicle_ids' = {traffic[i].vehicle.id : i \in Fleet!Walked'} \ {""}
  BY OneMoreWalked DEF StandsInv, Fleet!vehicles
<1>5. \A f \in told' : f[3] \in 1..passed
  <2>1. \A f \in told' : f \in told \/ f[3] = passed
    BY WhatAVehicleAdds
  <2>2. \A f \in told : f[3] \in 1..(passed - 1)
    BY DEF StandsInv
  <2>3. QED
    BY <1>2, <2>1, <2>2
<1>6. passed' - 1 = passed /\ passed' \in 1..(Len(traffic) + 1) /\ passed' > 1
  BY <1>1, <1>2
<1>7. (stop = "no LineString" => Fleet!raises(passed - 1) = "no LineString")'
  <2>1. \A i : Fleet!raises(i)' = Fleet!raises(i)
    BY <1>1, FleetStays
  <2>2. QED
    BY <1>3, <1>6, <2>1
<1>8. world' \in Fleets /\ traffic' = world'.message
  BY <1>1 DEF StandsInv
<1>9. QED
  BY <1>1, <1>3, <1>4, <1>5, <1>6, <1>7, <1>8 DEF StandsInv

LEMMA VehicleKeepsWhatIsSaid ==
  ASSUME Fleet!LegalInputs, FleetInv, Fleet!vehicles
  PROVE  SaidInv'
<1> DEFINE v == traffic[passed].vehicle
<1>1. StandsInv /\ SaidInv
  BY DEF FleetInv
<1>2. traffic' = traffic /\ world' = world
  BY DEF Fleet!vehicles
<1>3. /\ \A i : i \in Fleet!Walked' <=> i \in Fleet!Walked \/ (i = passed /\ v # None)
      /\ passed \notin Fleet!Walked /\ \A i \in Fleet!Walked : i < passed
  BY <1>1, OneMoreWalked
<1>4. passed \in Int /\ \A i \in Fleet!Walked : i \in Int
  <2>1. passed \in Int /\ DOMAIN traffic \subseteq Int
    <3>1. Len(traffic) \in Nat /\ DOMAIN traffic = 1..Len(traffic)
      BY <1>1, FleetsAreLists
    <3>2. passed \in 1..(Len(traffic) + 1)
      BY <1>1 DEF StandsInv
    <3>3. QED
      BY <3>1, <3>2
  <2>2. QED
    BY <2>1 DEF Fleet!Walked, Fleet!Vehicles
<1> HIDE DEF v
<1>5. ASSUME NEW i PROVE (Fleet!Said("W002", i) <=> i \in Fleet!Walked /\ traffic[i].vehicle.id = "")'
  <2>1. Fleet!Said("W002", i)' <=> Fleet!Said("W002", i) \/ (i = passed /\ v # None /\ v.id = "")
    BY WhatAVehicleAdds DEF v
  <2>2. Fleet!Said("W002", i) <=> i \in Fleet!Walked /\ traffic[i].vehicle.id = ""
    BY <1>1 DEF SaidInv
  <2>3. QED
    BY <1>2, <1>3, <2>1, <2>2 DEF v
<1>6. ASSUME NEW i PROVE (Fleet!Said("E052", i) <=> i \in Fleet!Walked /\ traffic[i].vehicle.id # "" /\ Borne(i))'
  <2>1. Fleet!Said("E052", i)' <=>
           Fleet!Said("E052", i) \/ (i = passed /\ v # None /\ v.id # "" /\ v.id \in seen_vehicle_ids)
    BY WhatAVehicleAdds DEF v
  <2>2. Fleet!Said("E052", i) <=> i \in Fleet!Walked /\ traffic[i].vehicle.id # "" /\ Borne(i)
    BY <1>1 DEF SaidInv
  <2>3. ASSUME i \in Fleet!Walked PROVE Borne(i)' <=> Borne(i)
    BY <1>2, <1>3, <1>4, <2>3 DEF Borne
  <2>4. ASSUME i = passed, v # None, v.id # "" PROVE Borne(i)' <=> v.id \in seen_vehicle_ids
    <3>1. v.id \in seen_vehicle_ids <=> \E j \in Fleet!Walked : traffic[j].vehicle.id = v.id
      BY <1>1, <2>4 DEF StandsInv
    <3>2. Borne(i)' <=> \E j \in Fleet!Walked : traffic[j].vehicle.id = v.id
      <4>1. Borne(i)' <=> \E j \in Fleet!Walked' : j < passed /\ traffic[j].vehicle.id = v.id
        BY <1>2, <2>4 DEF Borne, v
      <4>2. ~(passed < passed)
        BY <1>4
      <4>3. QED
        BY <1>3, <4>1, <4>2
    <3>3. QED
      BY <3>1, <3>2
  <2>5. QED
    BY <1>2, <1>3, <2>1, <2>2, <2>3, <2>4 DEF v
<1>7. ASSUME NEW i, NEW r \in {"E026", "E028", "E029"} PROVE (Fleet!Said(r, i) <=> Nest(r, i))'
  <2>1. Fleet!Said(r, i)' <=>
          Fleet!Said(r, i) \/ (i = passed /\ v # None /\ v.position # None
                               /\ Fleet!raises(passed) = None /\ r \in Fleet!nested(v))
    BY WhatAVehicleAdds DEF v
  <2>2. Fleet!Said(r, i) <=> Nest(r, i)
    BY <1>1 DEF SaidInv
  <2>3. Fleet!raises(i)' = Fleet!raises(i) /\ \A w : Fleet!nested(w)' = Fleet!nested(w)
    BY <1>2, FleetStays
  <2>4. Nest(r, i)' <=> /\ i \in Fleet!Walked' /\ traffic[i].vehicle.position # None
                        /\ Fleet!raises(i) = None /\ r \in Fleet!nested(traffic[i].vehicle)
    BY <1>2, <2>3 DEF Nest
  <2>5. QED
    BY <1>3, <2>1, <2>2, <2>4 DEF Nest, v
<1>8. QED
  BY <1>5, <1>6, <1>7 DEF SaidInv

LEMMA VehicleKeepsWhatComesAfter ==
  ASSUME Fleet!LegalInputs, FleetInv, Fleet!vehicles
  PROVE  AfterInv'
<1>1. stop = "walking" /\ stop' # "done"
  BY NoBadValue DEF Fleet!vehicles
<1>2. ASSUME NEW i PROVE ~Fleet!Said("P015", i)'
  <2>1. ~Fleet!Said("P015", i)
    BY <1>1 DEF FleetInv, AfterInv
  <2>2. QED
    BY <2>1, WhatAVehicleAdds
<1>3. ASSUME NEW f \in told' PROVE f[1] \notin {"S051", "S052"}
  <2>1. \A g \in told : g[1] \notin {"S051", "S052"}
    BY <1>1 DEF FleetInv, AfterInv
  <2>2. QED
    BY <2>1, WhatAVehicleAdds
<1>4. QED
  BY <1>1, <1>2, <1>3 DEF AfterInv

\* What the rules on carriages say of a vehicle.
LEMMA CarriagesSay ==
  ASSUME NEW i
  PROVE  (\E f \in Fleet!S051 \cup Fleet!S052 : f[3] = i) <=>
           i \in Fleet!Vehicles /\ (Doubled(traffic[i].vehicle.carriages) \/ Misnumbered(traffic[i].vehicle.carriages))
<1>1. (\E f \in Fleet!S051 : f[3] = i) <=> i \in Fleet!Vehicles /\ Doubled(traffic[i].vehicle.carriages)
  <2> DEFINE c(j) == traffic[j].vehicle.carriages
             Twice(j) == {k \in DOMAIN c(j) : \E l \in DOMAIN c(j) : l # k /\ c(j)[l].id = c(j)[k].id /\ c(j)[k].id # None}
  <2>1. \A f : f \in Fleet!S051 <=> \E j \in Fleet!Vehicles : \E k \in Twice(j) : f = <<"S051", c(j)[k].id, j>>
    BY DEF Fleet!S051
  <2>2. Doubled(c(i)) <=> \E k : k \in Twice(i)
    BY DEF Doubled
  <2> HIDE DEF Twice, c
  <2>3. ASSUME NEW f \in Fleet!S051, f[3] = i PROVE i \in Fleet!Vehicles /\ \E k : k \in Twice(i)
    BY <2>1, <2>3
  <2>4. ASSUME i \in Fleet!Vehicles, NEW k \in Twice(i) PROVE \E f \in Fleet!S051 : f[3] = i
    <3>1. <<"S051", c(i)[k].id, i>> \in Fleet!S051
      BY <2>1, <2>4
    <3>2. QED
      BY <3>1
  <2>5. (\E f \in Fleet!S051 : f[3] = i) <=> i \in Fleet!Vehicles /\ Doubled(c(i))
    BY <2>2, <2>3, <2>4
  <2>6. QED
    BY <2>5 DEF c
<1>2. (\E f \in Fleet!S052 : f[3] = i) <=> i \in Fleet!Vehicles /\ Misnumbered(traffic[i].vehicle.carriages)
  <2> DEFINE c(j) == traffic[j].vehicle.carriages
             Wrong(j) == {k \in DOMAIN c(j) : Fleet!out_of_run(c(j), k)}
  <2>1. \A f : f \in Fleet!S052 <=> \E j \in Fleet!Vehicles : \E k \in Wrong(j) : f = <<"S052", "vehicle", j>>
    BY DEF Fleet!S052
  <2>2. Misnumbered(c(i)) <=> \E k : k \in Wrong(i)
    BY DEF Misnumbered, Fleet!out_of_run
  <2> HIDE DEF Wrong, c
  <2>3. ASSUME NEW f \in Fleet!S052, f[3] = i PROVE i \in Fleet!Vehicles /\ \E k : k \in Wrong(i)
    BY <2>1, <2>3
  <2>4. ASSUME i \in Fleet!Vehicles, NEW k \in Wrong(i) PROVE \E f \in Fleet!S052 : f[3] = i
    <3>1. <<"S052", "vehicle", i>> \in Fleet!S052
      BY <2>1, <2>4
    <3>2. QED
      BY <3>1
  <2>5. (\E f \in Fleet!S052 : f[3] = i) <=> i \in Fleet!Vehicles /\ Misnumbered(c(i))
    BY <2>2, <2>3, <2>4
  <2>6. QED
    BY <2>5 DEF c
<1>3. QED
  BY <1>1, <1>2

LEMMA CheckKeepsTheFleet ==
  ASSUME Fleet!LegalInputs, FleetInv, Fleet!Check
  PROVE  FleetInv'
<1>1. StandsInv /\ SaidInv /\ AfterInv
  BY DEF FleetInv
<1>2. /\ world' = world /\ traffic' = traffic /\ passed' = passed /\ seen_vehicle_ids' = seen_vehicle_ids
      /\ stop = "walking" /\ stop' = "done" /\ passed = Len(traffic) + 1
      /\ told' = told \cup Fleet!P015 \cup Fleet!S051 \cup Fleet!S052
  BY DEF Fleet!Check
<1>3. Fleet!Walked' = Fleet!Walked /\ Fleet!Vehicles' = Fleet!Vehicles
  BY <1>2 DEF Fleet!Walked, Fleet!Vehicles
<1>4. Fleet!Vehicles \subseteq 1..(passed - 1)
  <2>1. DOMAIN traffic = 1..Len(traffic) /\ Len(traffic) \in Nat
    BY <1>1, FleetsAreLists
  <2>2. QED
    BY <1>2, <2>1 DEF Fleet!Vehicles
<1>5. /\ \A f : f \in Fleet!P015 <=>
            \E i \in Fleet!Vehicles : /\ f = <<"P015", "vehicle", i>>
                                     /\ ~Fleet!_reported_paths(i) /\ Fleet!_measure(traffic[i].vehicle)
      /\ \A f \in Fleet!S051 : f[1] = "S051" /\ f[3] \in Fleet!Vehicles
      /\ \A f \in Fleet!S052 : f[1] = "S052" /\ f[3] \in Fleet!Vehicles
  BY DEF Fleet!P015, Fleet!S051, Fleet!S052
<1>6. ASSUME NEW i, NEW r \in {"W002", "E052", "E026", "E028", "E029"} PROVE Fleet!Said(r, i)' <=> Fleet!Said(r, i)
  <2>1. <<r, "vehicle", i>> \notin Fleet!P015 \cup Fleet!S051 \cup Fleet!S052
    BY <1>5
  <2>2. QED
    BY <1>2, <2>1 DEF Fleet!Said
<1>7. StandsInv'
  <2>1. \A f \in told' : f[3] \in 1..(passed - 1)
    <3>1. \A f \in told : f[3] \in 1..(passed - 1)
      BY <1>1 DEF StandsInv
    <3>2. \A f \in Fleet!P015 : f[3] \in Fleet!Vehicles
      BY <1>5
    <3>3. QED
      BY <1>2, <1>4, <1>5, <3>1, <3>2
  <2>2. QED
    BY <1>1, <1>2, <1>3, <2>1 DEF StandsInv
<1>8. \A i : \A r : Nest(r, i)' <=> Nest(r, i)
  <2>1. /\ \A i : Fleet!raises(i)' = Fleet!raises(i)
        /\ \A v : Fleet!nested(v)' = Fleet!nested(v)
    BY <1>2, FleetStays
  <2>2. QED
    BY <1>2, <1>3, <2>1 DEF Nest
<1>9. SaidInv'
  <2>1. \A i : Borne(i)' <=> Borne(i)
    BY <1>2, <1>3 DEF Borne
  <2>2. QED
    BY <1>1, <1>2, <1>3, <1>6, <1>8, <2>1 DEF SaidInv
<1>10. ASSUME NEW i
       PROVE  (Fleet!Said("P015", i) <=>
                /\ stop = "done" /\ i \in Fleet!Vehicles /\ Fleet!_measure(traffic[i].vehicle)
                /\ \A r \in {"E026", "E028", "E029"} : ~Nest(r, i))'
  <2>1. ~Fleet!Said("P015", i)
    BY <1>1, <1>2 DEF AfterInv
  <2>2. <<"P015", "vehicle", i>> \notin Fleet!S051 \cup Fleet!S052
    BY <1>5
  <2>3. <<"P015", "vehicle", i>> \in Fleet!P015 <=>
          i \in Fleet!Vehicles /\ ~Fleet!_reported_paths(i) /\ Fleet!_measure(traffic[i].vehicle)
    BY <1>5
  <2>4. Fleet!_reported_paths(i) <=> \E r \in {"E026", "E028", "E029"} : Nest(r, i)
    BY <1>1 DEF SaidInv, Fleet!_reported_paths, Fleet!Said
  <2>5. \A v : Fleet!_measure(v)' = Fleet!_measure(v)
    BY <1>2, FleetStays
  <2>6. Fleet!Said("P015", i)' <=> <<"P015", "vehicle", i>> \in Fleet!P015
    BY <1>2, <2>1, <2>2 DEF Fleet!Said
  <2>7. QED
    BY <1>2, <1>3, <1>8, <2>3, <2>4, <2>5, <2>6
<1>11. ASSUME NEW i
       PROVE  ((\E f \in told : f[1] \in {"S051", "S052"} /\ f[3] = i) <=>
                /\ stop = "done" /\ i \in Fleet!Vehicles
                /\ Doubled(traffic[i].vehicle.carriages) \/ Misnumbered(traffic[i].vehicle.carriages))'
  <2>1. \A f \in told : f[1] \notin {"S051", "S052"}
    BY <1>1, <1>2 DEF AfterInv
  <2>2. \A f \in Fleet!P015 : f[1] = "P015"
    BY <1>5
  <2>3. (\E f \in told' : f[1] \in {"S051", "S052"} /\ f[3] = i) <=> \E f \in Fleet!S051 \cup Fleet!S052 : f[3] = i
    BY <1>2, <1>5, <2>1, <2>2
  <2>4. QED
    BY <1>2, <1>3, <2>3, CarriagesSay
<1>12. QED
  BY <1>7, <1>9, <1>10, <1>11 DEF FleetInv, AfterInv

LEMMA FleetStutters ==
  ASSUME FleetInv, UNCHANGED Fleet!vars
  PROVE  FleetInv'
<1>1. /\ world' = world /\ traffic' = traffic /\ passed' = passed /\ seen_vehicle_ids' = seen_vehicle_ids
      /\ stop' = stop /\ told' = told
  BY DEF Fleet!vars
<1>2. /\ Fleet!Walked' = Fleet!Walked /\ Fleet!Vehicles' = Fleet!Vehicles
      /\ \A r, i : Fleet!Said(r, i)' <=> Fleet!Said(r, i)
  BY <1>1 DEF Fleet!Walked, Fleet!Vehicles, Fleet!Said
<1>3. /\ \A i : Fleet!raises(i)' = Fleet!raises(i)
      /\ \A v : Fleet!nested(v)' = Fleet!nested(v)
      /\ \A v : Fleet!_measure(v)' = Fleet!_measure(v)
  BY <1>1, FleetStays
<1>4. \A i : (Borne(i)' <=> Borne(i)) /\ \A r : Nest(r, i)' <=> Nest(r, i)
  BY <1>1, <1>2, <1>3 DEF Nest, Borne
<1>5. StandsInv'
  BY <1>1, <1>2, <1>3 DEF FleetInv, StandsInv
<1>6. SaidInv'
  BY <1>1, <1>2, <1>4 DEF FleetInv, SaidInv
<1>7. AfterInv'
  BY <1>1, <1>2, <1>3, <1>4 DEF FleetInv, AfterInv
<1>8. QED
  BY <1>5, <1>6, <1>7 DEF FleetInv

LEMMA FleetInvariance == ASSUME Fleet!LegalInputs PROVE Fleet!Spec => []FleetInv
<1>1. Fleet!Init => FleetInv
  BY FleetInit
<1>2. FleetInv /\ [Fleet!Next]_(Fleet!vars) => FleetInv'
  BY VehicleKeepsTheWalk, VehicleKeepsWhatIsSaid, VehicleKeepsWhatComesAfter, CheckKeepsTheFleet, FleetStutters
     DEF Fleet!Next, FleetInv
<1>3. QED
  BY <1>1, <1>2, PTL DEF Fleet!Spec

-----------------------------------------------------------------------------
\* Only what was walked was spoken of, the ids seen are those of the walked
\* vehicles, and nothing but a shape that is no line ends the walk early.
THEOREM FleetTypeOK ==
  ASSUME Fleet!LegalInputs PROVE Fleet!Spec => []Fleet!TypeOK
<1>1. ASSUME FleetInv PROVE Fleet!TypeOK
  <2>1. StandsInv /\ Len(traffic) \in Nat
    BY <1>1, FleetsAreLists DEF FleetInv
  <2>2. passed \in 1..(Len(traffic) + 1) /\ \A f \in told : f[3] \in 1..(passed - 1)
    BY <2>1 DEF StandsInv
  <2>3. \A f \in told : f[3] < passed
    BY <2>1, <2>2
  <2>4. QED
    BY <2>1, <2>2, <2>3 DEF StandsInv, Fleet!TypeOK
<1>2. FleetInv => Fleet!TypeOK
  BY <1>1
<1>3. QED
  BY <1>2, FleetInvariance, PTL

\* Of the vehicles with one id all but the first are reported, wherever they stand in
\* a message of any length, and one with none is reported for that (rules E052, W002).
THEOREM AnIdHasOneBearerAlways ==
  ASSUME Fleet!LegalInputs PROVE Fleet!Spec => []Fleet!AnIdHasOneBearer
<1>1. ASSUME FleetInv, NEW i \in Fleet!Walked
      PROVE  LET same == {j \in Fleet!Walked : traffic[j].vehicle.id = traffic[i].vehicle.id}
             IN  IF traffic[i].vehicle.id = "" THEN Fleet!Said("W002", i) /\ ~Fleet!Said("E052", i)
                 ELSE Fleet!Cardinality({j \in same : Fleet!Said("E052", j)}) = Fleet!Cardinality(same) - 1
  <2> DEFINE same == {j \in Fleet!Walked : traffic[j].vehicle.id = traffic[i].vehicle.id}
             again == {j \in same : Fleet!Said("E052", j)}
  <2>1. CASE traffic[i].vehicle.id = ""
    BY <1>1, <2>1 DEF FleetInv, SaidInv
  <2>2. CASE traffic[i].vehicle.id # ""
    <3>1. same \subseteq 1..Len(traffic) /\ Len(traffic) \in Nat
      BY <1>1, FleetsAreLists DEF FleetInv, Fleet!Walked, Fleet!Vehicles
    <3>2. IsFiniteSet(same)
      <4>1. IsFiniteSet(1..Len(traffic))
        BY <3>1, FS_Interval
      <4> HIDE DEF same
      <4>2. QED
        BY <3>1, <4>1, FS_Subset
    <3>3. PICK m \in same : \A j \in same : m <= j
      <4>1. same \subseteq Nat /\ same # {}
        BY <1>1, <3>1
      <4> HIDE DEF same
      <4>2. QED
        BY <4>1, LeastOfSome
    <3>4. ASSUME NEW j \in same PROVE Fleet!Said("E052", j) <=> j # m
      <4>1. Fleet!Said("E052", j) <=> Borne(j)
        BY <1>1, <2>2 DEF FleetInv, SaidInv
      <4>2. Borne(j) <=> \E k \in same : k < j
        BY DEF Borne
      <4>3. (\E k \in same : k < j) <=> j # m
        <5> HIDE DEF same
        <5>1. QED
          BY <3>1, <3>3
      <4>4. QED
        BY <4>1, <4>2, <4>3
    <3>5. again = same \ {m}
      BY <3>4
    <3>6. Cardinality(same \ {m}) = Cardinality(same) - 1
      <4> HIDE DEF same
      <4>1. QED
        BY <3>2, <3>3, FS_RemoveElement
    <3>7. QED
      BY <2>2, <3>5, <3>6, FleetCounts
  <2>3. QED
    BY <2>1, <2>2
<1>2. FleetInv => Fleet!AnIdHasOneBearer
  BY <1>1 DEF Fleet!AnIdHasOneBearer
<1>3. QED
  BY <1>2, FleetInvariance, PTL

\* No position a feed can carry ends the run: it ends over a shape of one point and
\* over nothing else (is_position_within_shape).
THEOREM OnlyAOnePointShapeEnds ==
  ASSUME Fleet!LegalInputs PROVE Fleet!Spec => []Fleet!OnlyAOnePointShapeRaises
<1>1. ASSUME FleetInv, stop \in {"Bad value", "no LineString"}
      PROVE  LET v == traffic[passed - 1].vehicle
             IN  v.trip.trip_id \in DOMAIN world.trip_shapes /\ Len(world.trip_shapes[v.trip.trip_id]) = 1
  <2>1. Fleet!raises(passed - 1) = "no LineString"
    BY <1>1 DEF FleetInv, StandsInv
  <2>2. LET v == traffic[passed - 1].vehicle
        IN  Fleet!buffered_trip_shape(v) # None /\ Len(Fleet!buffered_trip_shape(v)) = 1
    BY <2>1, NoBadValue DEF Fleet!raises
  <2>3. QED
    BY <2>2 DEF Fleet!buffered_trip_shape
<1>2. FleetInv => Fleet!OnlyAOnePointShapeRaises
  BY <1>1 DEF Fleet!OnlyAOnePointShapeRaises
<1>3. QED
  BY <1>2, FleetInvariance, PTL

\* A place is complained of once: of E026, E028, E029 and P015 at most one speaks of a
\* vehicle (rule P015 reads the paths the walk reported).
THEOREM OneComplaintOfAPlace ==
  ASSUME Fleet!LegalInputs PROVE Fleet!Spec => []Fleet!APlaceIsComplainedOfOnce
<1>1. ASSUME FleetInv, NEW i \in Fleet!Vehicles
      PROVE  Fleet!Cardinality({r \in {"E026", "E028", "E029", "P015"} : Fleet!Said(r, i)}) <= 1
  <2> DEFINE R == {r \in {"E026", "E028", "E029", "P015"} : Fleet!Said(r, i)}
  <2>1. \A r \in {"E026", "E028", "E029"} : Fleet!Said(r, i) <=> Nest(r, i)
    BY <1>1 DEF FleetInv, SaidInv
  <2>2. Fleet!Said("P015", i) => \A r \in {"E026", "E028", "E029"} : ~Nest(r, i)
    BY <1>1 DEF FleetInv, AfterInv
  <2>3. \A r, s \in {"E026", "E028", "E029"} : Nest(r, i) /\ Nest(s, i) => r = s
    BY DEF Nest, Fleet!nested
  <2>4. \A r, s \in R : r = s
    BY <2>1, <2>2, <2>3
  <2>5. R = {} \/ \E r : R = {r}
    <3> HIDE DEF R
    <3>1. QED
      BY <2>4
  <2> HIDE DEF R
  <2>6. Cardinality(R) \in {0, 1}
    BY <2>5, FS_EmptySet, FS_Singleton
  <2>7. Fleet!Cardinality(R) <= 1
    BY <2>6, FleetCounts
  <2>8. QED
    BY <2>7 DEF R
<1>2. FleetInv => Fleet!APlaceIsComplainedOfOnce
  BY <1>1 DEF Fleet!APlaceIsComplainedOfOnce
<1>3. QED
  BY <1>2, FleetInvariance, PTL

\* An alert in any file of the cycle that sends a trip round excuses its vehicle from
\* P015, and one in the vehicle's own message from E029 as well.
THEOREM ADetourAlwaysExcuses ==
  ASSUME Fleet!LegalInputs PROVE Fleet!Spec => []Fleet!ADetourExcusesTheVehicle
<1>1. ASSUME FleetInv, NEW i \in Fleet!Vehicles, traffic[i].vehicle.trip # None
      PROVE  LET v == traffic[i].vehicle
                 sent(m) == \E k \in DOMAIN m : \E a \in m[k].alerts : a.effect = "DETOUR" /\ a.trip_id = v.trip.trip_id
             IN  /\ sent(traffic) \/ sent(world.elsewhere) => ~Fleet!Said("P015", i)
                 /\ sent(traffic) => ~Fleet!Said("E029", i)
  <2> DEFINE v == traffic[i].vehicle
             sent(m) == \E k \in DOMAIN m : \E a \in m[k].alerts : a.effect = "DETOUR" /\ a.trip_id = v.trip.trip_id
  <2>1. \A m : sent(m) => Fleet!has_detour_alert(m, v.trip)
    BY DEF Fleet!has_detour_alert
  <2>2. ASSUME sent(traffic) \/ sent(world.elsewhere) PROVE sent(Fleet!visible_index(traffic))
    <3> DEFINE e == world.elsewhere
    <3>1. traffic \in Seq(Fleet!Range(traffic)) /\ e \in Seq(Fleet!Range(e))
      BY <1>1 DEF FleetInv, StandsInv, Fleet!LegalInputs
    <3>2. Len(traffic) \in Nat /\ Len(e) \in Nat /\ DOMAIN traffic = 1..Len(traffic) /\ DOMAIN e = 1..Len(e)
      <4> DEFINE S == Fleet!Range(traffic)
                 T == Fleet!Range(e)
      <4> HIDE DEF S, T, e
      <4>1. QED
        BY <3>1 DEF S, T
    <3>3. LET m == traffic \o e
          IN  /\ DOMAIN m = 1..(Len(traffic) + Len(e))
              /\ \A k \in 1..Len(traffic) : m[k] = traffic[k]
              /\ \A k \in 1..Len(e) : m[k + Len(traffic)] = e[k]
      <4> HIDE DEF e
      <4>1. QED
        BY <3>2
    <3>4. Fleet!visible_index(traffic) = traffic \o e
      BY DEF Fleet!visible_index
    <3>5. CASE sent(traffic)
      <4>1. PICK k \in DOMAIN traffic : \E a \in traffic[k].alerts : a.effect = "DETOUR" /\ a.trip_id = v.trip.trip_id
        BY <3>5
      <4>2. k \in DOMAIN (traffic \o e) /\ (traffic \o e)[k] = traffic[k]
        BY <3>2, <3>3
      <4>3. QED
        BY <3>4, <4>1, <4>2
    <3>6. CASE sent(e)
      <4>1. PICK k \in DOMAIN e : \E a \in e[k].alerts : a.effect = "DETOUR" /\ a.trip_id = v.trip.trip_id
        BY <3>6
      <4>2. k + Len(traffic) \in DOMAIN (traffic \o e) /\ (traffic \o e)[k + Len(traffic)] = e[k]
        BY <3>2, <3>3
      <4>3. QED
        BY <3>4, <4>1, <4>2
    <3>7. QED
      BY <2>2, <3>5, <3>6
  <2>3. ASSUME Fleet!Said("P015", i) PROVE ~Fleet!has_detour_alert(Fleet!visible_index(traffic), v.trip)
    BY <1>1, <2>3 DEF FleetInv, AfterInv, Fleet!_measure
  <2>4. ASSUME Fleet!Said("E029", i) PROVE ~Fleet!has_detour_alert(traffic, v.trip)
    <3>1. "E029" \in Fleet!nested(v)
      BY <1>1, <2>4 DEF FleetInv, SaidInv, Nest
    <3>2. Fleet!far_from_shape(v)
      BY <3>1 DEF Fleet!nested
    <3>3. QED
      BY <3>2 DEF Fleet!far_from_shape
  <2> HIDE DEF sent
  <2>5. (sent(traffic) \/ sent(world.elsewhere) => ~Fleet!Said("P015", i)) /\ (sent(traffic) => ~Fleet!Said("E029", i))
    BY <2>1, <2>2, <2>3, <2>4
  <2>6. QED
    BY <2>5 DEF sent
<1>2. FleetInv => Fleet!ADetourExcusesTheVehicle
  BY <1>1 DEF Fleet!ADetourExcusesTheVehicle
<1>3. QED
  BY <1>2, FleetInvariance, PTL

\* Neither rule on carriages speaks exactly of a train that is numbered from one
\* without a gap and no two carriages of which share an id (rules S051 and S052).
THEOREM TrainsAreReadFromTheFront ==
  ASSUME Fleet!LegalInputs PROVE Fleet!Spec => []Fleet!ATrainIsReadFromTheFront
<1>1. ASSUME FleetInv, stop = "done", NEW i \in Fleet!Vehicles
      PROVE  LET c == traffic[i].vehicle.carriages
             IN  ~(\E f \in told : f[1] \in {"S051", "S052"} /\ f[3] = i) <=>
                   /\ [k \in DOMAIN c |-> c[k].sequence] = [k \in 1..Len(c) |-> k]
                   /\ \A j, k \in DOMAIN c : c[j].id = c[k].id => j = k \/ c[j].id = None
  <2> DEFINE c == traffic[i].vehicle.carriages
  <2>1. (\E f \in told : f[1] \in {"S051", "S052"} /\ f[3] = i) <=> Doubled(c) \/ Misnumbered(c)
    BY <1>1 DEF FleetInv, AfterInv
  <2>2. DOMAIN c = 1..Len(c)
    <3>1. c \in Seq(Fleet!Range(c))
      BY <1>1 DEF FleetInv, StandsInv, Fleet!LegalInputs, Fleet!Vehicles
    <3> DEFINE S == Fleet!Range(c)
    <3> HIDE DEF c, S
    <3>2. QED
      BY <3>1 DEF S
  <2> HIDE DEF c
  <2>3. Misnumbered(c) <=> [k \in DOMAIN c |-> c[k].sequence] # [k \in 1..Len(c) |-> k]
    BY <2>2 DEF Misnumbered
  <2>4. Doubled(c) <=> ~\A j, k \in DOMAIN c : c[j].id = c[k].id => j = k \/ c[j].id = None
    BY DEF Doubled
  <2>5. QED
    BY <2>1, <2>3, <2>4 DEF c
<1>2. FleetInv => Fleet!ATrainIsReadFromTheFront
  BY <1>1 DEF Fleet!ATrainIsReadFromTheFront
<1>3. QED
  BY <1>2, FleetInvariance, PTL

-----------------------------------------------------------------------------
(* Translations: what the walk was asked for is found, or is at or below   *)
(* what it has still to visit.  A place is a way through the fields, and   *)
(* one is below another when its way goes on from there; what the closure  *)
(* has no holders for has nothing that was asked for below it.             *)

CONSTANTS Documents, Kinds, Depth
VARIABLES schema, message, kind, reading, holders, unlooked, growing, stack, sites

Scan == INSTANCE Translations WITH
  Worlds <- Documents, Translated <- Kinds, wanted <- kind, pc <- reading, rest <- unlooked

\* What reaches every number from the one below it, and nought, is of all numbers.
LEMMA OneByOne ==
  ASSUME NEW S, 0 \in S, \A n \in Nat : n \in S => n + 1 \in S
  PROVE  \A n \in Nat : n \in S
<1>1. SUFFICES ASSUME Nat \ S # {} PROVE FALSE
  OBVIOUS
<1>2. PICK n \in Nat \ S : \A m \in Nat \ S : n <= m
  BY <1>1, LeastOfSome
<1>3. n # 0 /\ n - 1 \in Nat /\ (n - 1) + 1 = n /\ ~(n <= n - 1)
  BY <1>2
<1>4. QED
  BY <1>2, <1>3

-----------------------------------------------------------------------------
\* The messages the messages of a set hold, and those so many down from one.
Held(S) == UNION {{Scan!Children(i)[k] : k \in DOMAIN i[2].present} : i \in S}
Levels(L, n, item) == L = [m \in 0..n |-> IF m = 0 THEN {item} ELSE Held(L[m - 1])]

LEMMA LevelsAre ==
  ASSUME NEW n \in Nat, NEW L, NEW item, Levels(L, n, item)
  PROVE  L[0] = {item} /\ \A m \in 1..n : L[m] = Held(L[m - 1])
BY DEF Levels

LEMMA ThereAreLevels ==
  ASSUME NEW item PROVE \A n \in Nat : \E L : Levels(L, n, item)
<1> DEFINE S == {n \in Nat : \E L : Levels(L, n, item)}
<1>1. 0 \in S
  <2> DEFINE L == [m \in 0..0 |-> {item}]
  <2>1. L = [m \in 0..0 |-> IF m = 0 THEN {item} ELSE Held(L[m - 1])]
    OBVIOUS
  <2> HIDE DEF L
  <2>2. QED
    BY <2>1 DEF Levels
<1>2. ASSUME NEW n \in Nat, n \in S PROVE n + 1 \in S
  <2>1. PICK L : Levels(L, n, item)
    BY <1>2
  <2> DEFINE G == [m \in 0..n + 1 |-> IF m = n + 1 THEN Held(L[n]) ELSE L[m]]
  <2>2. ASSUME NEW m \in 0..n + 1 PROVE G[m] = IF m = 0 THEN {item} ELSE Held(G[m - 1])
    <3>1. CASE m = 0
      BY <2>1, <3>1, LevelsAre
    <3>2. CASE m \in 1..n
      <4>1. G[m] = L[m] /\ G[m - 1] = L[m - 1] /\ m # 0
        BY <3>2
      <4> HIDE DEF G
      <4>2. QED
        BY <2>1, <3>2, <4>1, LevelsAre
    <3>3. CASE m = n + 1
      <4>1. G[m] = Held(L[n]) /\ G[m - 1] = L[n] /\ m # 0
        BY <3>3
      <4> HIDE DEF G
      <4>2. QED
        BY <4>1
    <3>4. QED
      BY <3>1, <3>2, <3>3
  <2>3. G = [m \in 0..n + 1 |-> IF m = 0 THEN {item} ELSE Held(G[m - 1])]
    <3>1. G = [m \in 0..n + 1 |-> G[m]]
      OBVIOUS
    <3> HIDE DEF G
    <3>2. QED
      BY <2>2, <3>1
  <2> HIDE DEF G
  <2>4. QED
    BY <2>3 DEF Levels
<1>3. QED
  <2> HIDE DEF S
  <2>1. \A n \in Nat : n \in S
    BY <1>1, <1>2, OneByOne
  <2>2. QED
    BY <2>1 DEF S

LEMMA LevelsAreUnique ==
  ASSUME NEW n \in Nat, NEW L, NEW M, NEW item, Levels(L, n, item), Levels(M, n, item)
  PROVE  L = M
<1> DEFINE S == {m \in Nat : m <= n => L[m] = M[m]}
<1>1. 0 \in S
  <2>1. L[0] = {item} /\ M[0] = {item}
    BY LevelsAre
  <2>2. QED
    BY <2>1
<1>2. ASSUME NEW m \in Nat, m \in S PROVE m + 1 \in S
  <2>1. SUFFICES ASSUME m + 1 <= n PROVE L[m + 1] = M[m + 1]
    OBVIOUS
  <2>2. m + 1 \in 1..n /\ (m + 1) - 1 = m /\ m <= n
    BY <2>1
  <2>3. L[m + 1] = Held(L[m]) /\ M[m + 1] = Held(M[m]) /\ L[m] = M[m]
    BY <1>2, <2>2, LevelsAre
  <2>4. QED
    BY <2>3
<1>3. \A m \in Nat : m \in S
  <2> HIDE DEF S
  <2>1. QED
    BY <1>1, <1>2, OneByOne
<1>4. \A m \in 0..n : L[m] = M[m]
  BY <1>3
<1>5. L = [m \in 0..n |-> L[m]] /\ M = [m \in 0..n |-> M[m]]
  BY DEF Levels
<1>6. QED
  BY <1>4, <1>5

LEMMA TreeHasLevels ==
  ASSUME NEW item, Depth \in Nat
  PROVE  \E L : Levels(L, Depth, item) /\ Scan!Tree(item) = UNION {L[n] : n \in 0..Depth}
<1> DEFINE G == CHOOSE M : Levels(M, Depth, item)
<1>1. Levels(G, Depth, item)
  BY ThereAreLevels
<1>2. Scan!Tree(item) = UNION {G[n] : n \in 0..Depth}
  BY DEF Scan!Tree, Held, Levels
<1>3. QED
  BY <1>1, <1>2

-----------------------------------------------------------------------------
\* The message, as the place the walk starts from, and all the places in it.
Whole == <<<<>>, message>>
Places == Scan!Tree(Whole)
Inside(i) == {i[2].present[k] : k \in DOMAIN i[2].present}

\* What is given does not change.
GivenInv ==
  /\ \E w \in Documents : schema = w.schema /\ message = w.message
  /\ kind \in Kinds

LEMMA GivenIsLegal ==
  ASSUME Scan!LegalInputs, GivenInv
  PROVE  /\ Depth \in Nat /\ Kinds = {"TranslatedString", "TranslatedImage"}
         /\ \A t \in DOMAIN schema : schema[t] \subseteq DOMAIN schema \cup Kinds
         /\ \A i \in Places :
              /\ i[2].present \in Seq(Inside(i))
              /\ i[2].members \in Seq({i[2].members[k] : k \in DOMAIN i[2].members})
              /\ Len(i[1]) = Depth \/ i[2].type \in Kinds => Inside(i) = {}
              /\ i[1] # <<>> /\ i[2].type \in DOMAIN schema => \A m \in Inside(i) : m.type \in schema[i[2].type]
<1>1. PICK w \in Documents : schema = w.schema /\ message = w.message
  BY DEF GivenInv
<1>2. Scan!Tree(<<<<>>, w.message>>) = Places
  BY <1>1 DEF Places, Whole
<1>3. QED
  BY <1>1, <1>2 DEF Scan!LegalInputs, Inside

LEMMA ChildIs ==
  ASSUME NEW i, NEW k \in DOMAIN i[2].present
  PROVE  Scan!Children(i)[k] = <<Append(i[1], k), i[2].present[k]>>
BY DEF Scan!Children

\* A place is that of the whole, or of something held at a place; the places are
\* as long as they are deep.
LEMMA PlacesAreGrown ==
  ASSUME Scan!LegalInputs, GivenInv
  PROVE  /\ Whole \in Places
         /\ \A i \in Places : i = <<i[1], i[2]>> /\ i[1] \in Seq(Nat)
         /\ \A i \in Places : \A k \in DOMAIN i[2].present : k \in Nat /\ Scan!Children(i)[k] \in Places
         /\ \A i \in Places : i[1] = <<>> => i = Whole
         /\ \A i \in Places : i[1] # <<>> =>
              \E p \in Places : \E k \in DOMAIN p[2].present : i = <<Append(p[1], k), p[2].present[k]>>
<1> USE GivenIsLegal
<1>1. PICK L : Levels(L, Depth, Whole) /\ Places = UNION {L[n] : n \in 0..Depth}
  BY TreeHasLevels DEF Places
<1>2. L[0] = {Whole} /\ \A m \in 1..Depth : L[m] = Held(L[m - 1])
  BY <1>1, LevelsAre
<1>3. Whole \in Places
  BY <1>1, <1>2
<1>4. \A i \in Places : i[2].present \in Seq(Inside(i)) /\ \A k \in DOMAIN i[2].present : k \in Nat
  <2>1. \A i \in Places : i[2].present \in Seq(Inside(i))
    OBVIOUS
  <2>2. QED
    BY ONLY <2>1
<1> DEFINE Shaped(i, n) == i = <<i[1], i[2]>> /\ i[1] \in Seq(Nat) /\ Len(i[1]) = n
           S == {n \in Nat : n <= Depth => \A i \in L[n] : Shaped(i, n)}
<1>5. ASSUME NEW n \in 1..Depth, NEW i \in L[n]
      PROVE  \E p \in L[n - 1] : \E k \in DOMAIN p[2].present : i = <<Append(p[1], k), p[2].present[k]>>
  <2>1. i \in Held(L[n - 1])
    BY <1>2
  <2>2. PICK p \in L[n - 1] : i \in {Scan!Children(p)[k] : k \in DOMAIN p[2].present}
    BY <2>1 DEF Held
  <2>3. PICK k \in DOMAIN p[2].present : i = Scan!Children(p)[k]
    BY <2>2
  <2>4. i = <<Append(p[1], k), p[2].present[k]>>
    BY <2>3, ChildIs
  <2>5. QED
    BY <2>4
<1>6. 0 \in S
  <2>1. Shaped(Whole, 0)
    BY DEF Whole
  <2>2. QED
    BY <1>2, <2>1
<1>7. ASSUME NEW n \in Nat, n \in S PROVE n + 1 \in S
  <2>1. SUFFICES ASSUME n + 1 <= Depth, NEW i \in L[n + 1] PROVE Shaped(i, n + 1)
    OBVIOUS
  <2>2. n + 1 \in 1..Depth /\ (n + 1) - 1 = n /\ n \in 0..Depth /\ n <= Depth
    BY <2>1
  <2>3. PICK p \in L[n] : \E k \in DOMAIN p[2].present : i = <<Append(p[1], k), p[2].present[k]>>
    BY <1>5, <2>2
  <2>4. p \in Places /\ Shaped(p, n)
    BY <1>1, <1>7, <2>2
  <2>5. PICK k \in DOMAIN p[2].present : i = <<Append(p[1], k), p[2].present[k]>>
    BY <2>3
  <2>6. k \in Nat
    BY <1>4, <2>4
  <2>7. QED
    BY <2>4, <2>5, <2>6
<1>8. \A n \in Nat : n \in S
  <2> HIDE DEF S
  <2>1. QED
    BY <1>6, <1>7, OneByOne
<1>9. \A n \in 0..Depth : \A i \in L[n] : Shaped(i, n)
  BY <1>8
<1>10. \A i \in Places : \E n \in 0..Depth : i \in L[n] /\ Shaped(i, n)
  BY <1>1, <1>9
<1>11. ASSUME NEW i \in Places, NEW k \in DOMAIN i[2].present PROVE Scan!Children(i)[k] \in Places
  <2>1. PICK n \in 0..Depth : i \in L[n] /\ Shaped(i, n)
    BY <1>10
  <2>2. i[2].present[k] \in Inside(i)
    BY DEF Inside
  <2>3. n # Depth
    BY <2>1, <2>2
  <2>4. n + 1 \in 1..Depth /\ n + 1 \in 0..Depth /\ (n + 1) - 1 = n
    BY <2>3
  <2>5. Scan!Children(i)[k] \in Held(L[n])
    BY <2>1 DEF Held
  <2>6. L[n + 1] = Held(L[n])
    BY <1>2, <2>4
  <2>7. Scan!Children(i)[k] \in L[n + 1]
    BY <2>5, <2>6
  <2> HIDE DEF Shaped
  <2>8. QED
    BY <1>1, <2>4, <2>7
<1>12. ASSUME NEW i \in Places, i[1] = <<>> PROVE i = Whole
  <2>1. PICK n \in 0..Depth : i \in L[n] /\ Shaped(i, n)
    BY <1>10
  <2>2. n = 0
    BY <2>1, <1>12
  <2>3. QED
    BY <1>2, <2>1, <2>2
<1>13. ASSUME NEW i \in Places, i[1] # <<>>
       PROVE  \E p \in Places : \E k \in DOMAIN p[2].present : i = <<Append(p[1], k), p[2].present[k]>>
  <2>1. PICK n \in 0..Depth : i \in L[n] /\ Shaped(i, n)
    BY <1>10
  <2>2. n # 0
    BY <1>2, <1>13, <2>1 DEF Whole
  <2>3. n \in 1..Depth /\ n - 1 \in 0..Depth
    BY <2>2
  <2>4. PICK p \in L[n - 1] : \E k \in DOMAIN p[2].present : i = <<Append(p[1], k), p[2].present[k]>>
    BY <1>5, <2>1, <2>3
  <2>5. p \in Places
    BY <1>1, <2>3
  <2>6. QED
    BY <2>4, <2>5
<1>14. \A i \in Places : i = <<i[1], i[2]>> /\ i[1] \in Seq(Nat)
  BY <1>10
<1>15. QED
  BY <1>3, <1>4, <1>11, <1>12, <1>13, <1>14

-----------------------------------------------------------------------------
\* Ways, as sequences of numbers.
LEMMA Lengthened ==
  ASSUME NEW p \in Seq(Nat), NEW k \in Nat
  PROVE  /\ Append(p, k) \in Seq(Nat) /\ Len(p) \in Nat /\ Len(Append(p, k)) = Len(p) + 1
         /\ Append(p, k)[Len(p) + 1] = k /\ \A m \in 1..Len(p) : Append(p, k)[m] = p[m]
OBVIOUS

LEMMA SameWay ==
  ASSUME NEW p \in Seq(Nat), NEW q \in Seq(Nat), Len(p) = Len(q), \A m \in 1..Len(p) : p[m] = q[m]
  PROVE  p = q
OBVIOUS

LEMMA SameLengthened ==
  ASSUME NEW p \in Seq(Nat), NEW q \in Seq(Nat), NEW k \in Nat, NEW l \in Nat, Append(p, k) = Append(q, l)
  PROVE  p = q /\ k = l
<1>1. Len(p) = Len(q)
  BY Lengthened
<1>2. k = l
  <2>1. Append(p, k)[Len(p) + 1] = k
    BY Lengthened
  <2>2. Append(q, l)[Len(p) + 1] = l
    BY <1>1, Lengthened
  <2>3. QED
    BY <2>1, <2>2
<1>21. ASSUME NEW m \in 1..Len(p) PROVE p[m] = q[m]
  <2>1. Append(p, k)[m] = p[m]
    BY Lengthened
  <2>2. Append(q, l)[m] = q[m]
    BY <1>1, Lengthened
  <2>3. QED
    BY <2>1, <2>2
<1>3. QED
  BY <1>1, <1>2, <1>21, SameWay

\* One place, one message.
LEMMA SamePlace ==
  ASSUME Scan!LegalInputs, GivenInv, NEW i \in Places, NEW j \in Places, i[1] = j[1]
  PROVE  i = j
<1> DEFINE S == {n \in Nat : \A a, b \in Places : Len(a[1]) = n /\ a[1] = b[1] => a = b}
<1>1. 0 \in S
  <2>1. ASSUME NEW a \in Places, Len(a[1]) = 0 PROVE a = Whole
    <3>1. a[1] = <<>>
      BY <2>1, PlacesAreGrown
    <3>2. QED
      BY <3>1, PlacesAreGrown
  <2>2. \A a, b \in Places : a[1] = b[1] => Len(a[1]) = Len(b[1])
    OBVIOUS
  <2>3. QED
    BY <2>1, <2>2
<1>2. ASSUME NEW n \in Nat, n \in S PROVE n + 1 \in S
  <2>1. SUFFICES ASSUME NEW a \in Places, NEW b \in Places, Len(a[1]) = n + 1, a[1] = b[1] PROVE a = b
    OBVIOUS
  <2>2. a[1] # <<>> /\ b[1] # <<>>
    <3>1. Len(a[1]) # 0
      BY <2>1
    <3>2. QED
      BY <2>1, <3>1
  <2>30. PICK p \in Places : \E k \in DOMAIN p[2].present : a = <<Append(p[1], k), p[2].present[k]>>
    BY <2>2, PlacesAreGrown
  <2>3. PICK k \in DOMAIN p[2].present : a = <<Append(p[1], k), p[2].present[k]>>
    BY <2>30
  <2>40. PICK q \in Places : \E l \in DOMAIN q[2].present : b = <<Append(q[1], l), q[2].present[l]>>
    BY <2>2, PlacesAreGrown
  <2>4. PICK l \in DOMAIN q[2].present : b = <<Append(q[1], l), q[2].present[l]>>
    BY <2>40
  <2>5. p[1] \in Seq(Nat) /\ q[1] \in Seq(Nat) /\ k \in Nat /\ l \in Nat
    BY <2>3, <2>4, PlacesAreGrown
  <2>6. Append(p[1], k) = Append(q[1], l)
    BY <2>1, <2>3, <2>4
  <2>7. p[1] = q[1] /\ k = l /\ Len(p[1]) = n
    <3> DEFINE x == p[1]
               y == q[1]
    <3>0. x \in Seq(Nat) /\ y \in Seq(Nat) /\ Append(x, k) = Append(y, l)
      BY <2>5, <2>6
    <3> HIDE DEF x, y
    <3>5. x = y /\ k = l
      BY <2>5, <3>0, SameLengthened
    <3>1. p[1] = q[1] /\ k = l
      BY <3>5 DEF x, y
    <3>2. Len(p[1]) + 1 = n + 1 /\ Len(p[1]) \in Nat
      BY <2>1, <2>3, <2>5, Lengthened
    <3>3. QED
      BY <3>1, <3>2
  <2>8. p = q
    BY <1>2, <2>7
  <2>9. QED
    BY <2>3, <2>4, <2>7, <2>8
<1>3. \A n \in Nat : n \in S
  <2> HIDE DEF S
  <2>1. QED
    BY <1>1, <1>2, OneByOne
<1>4. Len(i[1]) \in Nat
  BY PlacesAreGrown
<1>5. QED
  BY <1>3, <1>4

\* One place is below another: the way to it goes on from there.
Below(i, s) == Len(s[1]) < Len(i[1]) /\ \A l \in 1..Len(s[1]) : i[1][l] = s[1][l]

\* A place below another is below something it holds, or is that.
LEMMA WayDown ==
  ASSUME Scan!LegalInputs, GivenInv, NEW i \in Places, NEW s \in Places, Below(i, s)
  PROVE  LET k == i[1][Len(s[1]) + 1]
         IN  /\ k \in DOMAIN s[2].present
             /\ i = Scan!Children(s)[k] \/ Below(i, Scan!Children(s)[k])
<1> DEFINE Goes(a, b) == a[1][Len(b[1]) + 1] \in DOMAIN b[2].present
           S == {n \in Nat : \A a, b \in Places : Len(a[1]) = n /\ Below(a, b) => Goes(a, b)}
<1>1. 0 \in S
  <2>1. \A a, b \in Places : Len(b[1]) \in Nat
    BY PlacesAreGrown
  <2>2. QED
    BY <2>1 DEF Below
<1>2. ASSUME NEW n \in Nat, n \in S PROVE n + 1 \in S
  <2>1. SUFFICES ASSUME NEW a \in Places, NEW b \in Places, Len(a[1]) = n + 1, Below(a, b) PROVE Goes(a, b)
    OBVIOUS
  <2>2. a[1] # <<>>
    <3>1. Len(a[1]) # 0
      BY <2>1
    <3>2. QED
      BY <3>1
  <2>30. PICK p \in Places : \E l \in DOMAIN p[2].present : a = <<Append(p[1], l), p[2].present[l]>>
    BY <2>2, PlacesAreGrown
  <2>3. PICK l \in DOMAIN p[2].present : a = <<Append(p[1], l), p[2].present[l]>>
    BY <2>30
  <2>4. p[1] \in Seq(Nat) /\ b[1] \in Seq(Nat) /\ l \in Nat /\ a[1] = Append(p[1], l)
    BY <2>3, PlacesAreGrown
  <2>5. Len(p[1]) = n /\ Len(b[1]) \in 0..n /\ a[1][n + 1] = l /\ \A m \in 1..n : a[1][m] = p[1][m]
    <3>1. a[1] \in Seq(Nat) /\ Len(p[1]) \in Nat /\ Len(a[1]) = Len(p[1]) + 1 /\ a[1][Len(p[1]) + 1] = l
          /\ \A m \in 1..Len(p[1]) : a[1][m] = p[1][m]
      BY <2>4, Lengthened
    <3>2. Len(b[1]) \in Nat /\ Len(b[1]) < Len(a[1]) /\ (b[1] # <<>> => Len(b[1]) # 0)
      BY <2>1, <2>4 DEF Below
    <3>3. Len(p[1]) = n
      BY <2>1, <3>1
    <3>4. Len(a[1]) = n + 1
      BY <2>1
    <3>5. Len(b[1]) \in 0..n
      BY <3>2, <3>4
    <3> DEFINE last == Len(p[1])
               whole == a[1]
               part == p[1]
    <3>6. last = n /\ whole[last + 1] = l /\ \A m \in 1..last : whole[m] = part[m]
      BY <3>1, <3>3
    <3> HIDE DEF last, whole, part
    <3>7. whole[n + 1] = l /\ \A m \in 1..n : whole[m] = part[m]
      BY <3>6
    <3>8. QED
      BY <3>3, <3>5, <3>7 DEF whole, part
  <2>6. CASE Len(b[1]) = n
    <3>1. \A m \in 1..Len(b[1]) : b[1][m] = p[1][m]
      BY <2>1, <2>5, <2>6 DEF Below
    <3>11. b[1] = p[1]
      BY <2>4, <2>5, <2>6, <3>1, SameWay
    <3>2. b = p
      BY <3>11, SamePlace
    <3>3. QED
      BY <2>5, <2>6, <3>2
  <2>7. CASE Len(b[1]) < n
    <3>1. Below(p, b)
      BY <2>1, <2>5, <2>7 DEF Below
    <3>2. Goes(p, b)
      BY <1>2, <2>5, <3>1
    <3>3. Len(b[1]) + 1 \in 1..n
      BY <2>5, <2>7
    <3>4. QED
      BY <2>5, <3>2, <3>3
  <2>8. QED
    BY <2>5, <2>6, <2>7
<1>3. \A n \in Nat : n \in S
  <2> HIDE DEF S
  <2>1. QED
    BY <1>1, <1>2, OneByOne
<1>4. Len(i[1]) \in Nat /\ Len(s[1]) \in Nat /\ i[1] \in Seq(Nat) /\ s[1] \in Seq(Nat)
  BY PlacesAreGrown
<1>5. Goes(i, s)
  BY <1>3, <1>4
<1> DEFINE k == i[1][Len(s[1]) + 1]
           c == Scan!Children(s)[k]
<1>6. k \in DOMAIN s[2].present /\ k \in Nat /\ c \in Places /\ c[1] = Append(s[1], k)
  <2>1. k \in DOMAIN s[2].present
    BY <1>5
  <2> HIDE DEF k
  <2>2. k \in Nat /\ c \in Places
    BY <2>1, PlacesAreGrown
  <2>3. c = <<Append(s[1], k), s[2].present[k]>>
    BY <2>1, ChildIs
  <2>4. QED
    BY <2>1, <2>2, <2>3
<1> HIDE DEF c
<1>7. c[1] \in Seq(Nat) /\ Len(c[1]) = Len(s[1]) + 1 /\ \A l \in 1..Len(s[1]) + 1 : i[1][l] = c[1][l]
  <2>1. /\ c[1] \in Seq(Nat) /\ Len(c[1]) = Len(s[1]) + 1 /\ c[1][Len(s[1]) + 1] = k
        /\ \A l \in 1..Len(s[1]) : c[1][l] = s[1][l]
    <3> HIDE DEF k
    <3>1. QED
      BY <1>4, <1>6, Lengthened
  <2>2. \A l \in 1..Len(s[1]) : i[1][l] = s[1][l]
    BY DEF Below
  <2>3. ASSUME NEW l \in 1..Len(s[1]) + 1 PROVE i[1][l] = c[1][l]
    <3>1. CASE l = Len(s[1]) + 1
      BY <2>1, <3>1
    <3>2. CASE l # Len(s[1]) + 1
      <4>1. l \in 1..Len(s[1])
        BY <1>4, <3>2
      <4>2. QED
        BY <2>1, <2>2, <4>1
    <3>3. QED
      BY <3>1, <3>2
  <2>4. QED
    BY <2>1, <2>3
<1>8. CASE Len(i[1]) = Len(s[1]) + 1
  <2>1. i[1] = c[1]
    BY <1>4, <1>7, <1>8, SameWay
  <2>2. QED
    BY <1>6, <2>1, SamePlace DEF c
<1>9. CASE Len(i[1]) # Len(s[1]) + 1
  <2>1. Below(i, c)
    BY <1>4, <1>7, <1>9 DEF Below
  <2>2. QED
    BY <1>6, <2>1 DEF c
<1>10. QED
  BY <1>8, <1>9

\* The closure over the schema is one: what holds the type, or a holder, holds.
Closed ==
  \A t \in DOMAIN schema : kind \in schema[t] \/ schema[t] \cap holders # {} => t \in holders

\* Above what was asked for the walk goes down.
LEMMA NothingIsPruned ==
  ASSUME Scan!LegalInputs, GivenInv, Closed, holders \subseteq DOMAIN schema,
         NEW i \in Places, NEW s \in Places, i[2].type = kind, Below(i, s), s[1] # <<>>
  PROVE  s[2].type # kind /\ Scan!descends(s[2].type)
<1> DEFINE Wanted(a) == a[2].type = kind \/ a[2].type \in holders \/ a[2].type \notin DOMAIN schema \cup Kinds
           Found(b) == b[2].type \notin Kinds /\ Scan!descends(b[2].type)
           S == {n \in Nat : \A a, b \in Places :
                    Len(a[1]) = n /\ Wanted(a) /\ Below(a, b) /\ b[1] # <<>> => Found(b)}
<1>1. 0 \in S
  <2>1. \A a, b \in Places : Len(b[1]) \in Nat
    BY PlacesAreGrown
  <2>2. QED
    BY <2>1 DEF Below
<1>2. ASSUME NEW n \in Nat, n \in S PROVE n + 1 \in S
  <2>1. SUFFICES ASSUME NEW a \in Places, NEW b \in Places, Len(a[1]) = n + 1, Wanted(a), Below(a, b), b[1] # <<>>
                 PROVE  Found(b)
    OBVIOUS
  <2>2. a[1] # <<>>
    <3>1. Len(a[1]) # 0
      BY <2>1
    <3>2. QED
      BY <3>1
  <2>30. PICK p \in Places : \E l \in DOMAIN p[2].present : a = <<Append(p[1], l), p[2].present[l]>>
    BY <2>2, PlacesAreGrown
  <2>3. PICK l \in DOMAIN p[2].present : a = <<Append(p[1], l), p[2].present[l]>>
    BY <2>30
  <2>4. p[1] \in Seq(Nat) /\ b[1] \in Seq(Nat) /\ l \in Nat /\ a[1] = Append(p[1], l)
    BY <2>3, PlacesAreGrown
  <2>5. Len(p[1]) = n /\ Len(b[1]) \in 0..n /\ Len(b[1]) # 0 /\ \A m \in 1..n : a[1][m] = p[1][m]
    <3>1. a[1] \in Seq(Nat) /\ Len(p[1]) \in Nat /\ Len(a[1]) = Len(p[1]) + 1 /\ a[1][Len(p[1]) + 1] = l
          /\ \A m \in 1..Len(p[1]) : a[1][m] = p[1][m]
      BY <2>4, Lengthened
    <3>2. Len(b[1]) \in Nat /\ Len(b[1]) < Len(a[1]) /\ (b[1] # <<>> => Len(b[1]) # 0)
      BY <2>1, <2>4 DEF Below
    <3>3. Len(p[1]) = n
      BY <2>1, <3>1
    <3>4. Len(a[1]) = n + 1 /\ b[1] # <<>>
      BY <2>1
    <3>5. Len(b[1]) \in 0..n /\ Len(b[1]) # 0
      BY <3>2, <3>4
    <3> DEFINE last == Len(p[1])
               whole == a[1]
               part == p[1]
    <3>6. last = n /\ \A m \in 1..last : whole[m] = part[m]
      BY <3>1, <3>3
    <3> HIDE DEF last, whole, part
    <3>7. \A m \in 1..n : whole[m] = part[m]
      BY <3>6
    <3>8. QED
      BY <3>3, <3>5, <3>7 DEF whole, part
  <2>6. p[1] # <<>> /\ a[2] \in Inside(p)
    <3>1. Len(p[1]) # 0
      BY <2>5
    <3>2. p[1] # <<>>
      BY <3>1
    <3>3. a[2] = p[2].present[l]
      BY <2>3
    <3>4. QED
      BY <2>3, <3>2, <3>3 DEF Inside
  <2>7. p[2].type \notin Kinds
    BY <2>6, GivenIsLegal
  <2>8. p[2].type \in DOMAIN schema => p[2].type \in holders
    <3>1. SUFFICES ASSUME p[2].type \in DOMAIN schema PROVE p[2].type \in holders
      OBVIOUS
    <3>2. a[2].type \in schema[p[2].type]
      BY <2>6, <3>1, GivenIsLegal
    <3>3. a[2].type \in DOMAIN schema \cup Kinds
      BY <3>1, <3>2, GivenIsLegal
    <3>4. a[2].type = kind \/ a[2].type \in holders
      BY <2>1, <3>3
    <3>5. QED
      BY <3>1, <3>2, <3>4 DEF Closed
  <2>9. Found(p) /\ Wanted(p)
    BY <2>7, <2>8 DEF Scan!descends
  <2>10. CASE Len(b[1]) = n
    <3>1. \A m \in 1..Len(b[1]) : b[1][m] = p[1][m]
      BY <2>1, <2>5, <2>10 DEF Below
    <3>2. b[1] = p[1]
      BY <2>4, <2>5, <2>10, <3>1, SameWay
    <3>3. b = p
      BY <3>2, SamePlace
    <3>4. QED
      BY <2>9, <3>3
  <2>11. CASE Len(b[1]) < n
    <3>1. Below(p, b)
      BY <2>1, <2>5, <2>11 DEF Below
    <3>2. QED
      BY <1>2, <2>1, <2>5, <2>9, <3>1
  <2>12. QED
    BY <2>5, <2>10, <2>11
<1>3. \A n \in Nat : n \in S
  <2> HIDE DEF S
  <2>1. QED
    BY <1>1, <1>2, OneByOne
<1>4. Len(i[1]) \in Nat
  BY PlacesAreGrown
<1>5. QED
  BY <1>3, <1>4 DEF GivenInv

-----------------------------------------------------------------------------
\* One way is before another: where they part, it goes to the earlier field.
Earlier(p, q) ==
  \E n \in 1..Len(p) : n <= Len(q) /\ p[n] < q[n] /\ \A l \in 1..(n - 1) : p[l] = q[l]

LEMMA EarlierIsAnother ==
  ASSUME NEW p \in Seq(Nat) PROVE ~Earlier(p, p)
BY DEF Earlier

LEMMA EarlierBelow ==
  ASSUME NEW p \in Seq(Nat), NEW q \in Seq(Nat), NEW k \in Nat
  PROVE  /\ Earlier(p, q) => Earlier(Append(p, k), q)
         /\ Earlier(q, p) => Earlier(q, Append(p, k))
<1> DEFINE c == Append(p, k)
<1>1. c \in Seq(Nat) /\ Len(c) = Len(p) + 1 /\ Len(p) \in Nat /\ \A m \in 1..Len(p) : c[m] = p[m]
  BY Lengthened
<1> HIDE DEF c
<1>2. ASSUME Earlier(p, q) PROVE Earlier(c, q)
  <2>1. PICK n \in 1..Len(p) : n <= Len(q) /\ p[n] < q[n] /\ \A l \in 1..(n - 1) : p[l] = q[l]
    BY <1>2 DEF Earlier
  <2>2. n \in 1..Len(c) /\ c[n] = p[n] /\ \A l \in 1..(n - 1) : c[l] = p[l]
    BY <1>1
  <2>3. QED
    BY <2>1, <2>2 DEF Earlier
<1>3. ASSUME Earlier(q, p) PROVE Earlier(q, c)
  <2>1. PICK n \in 1..Len(q) : n <= Len(p) /\ q[n] < p[n] /\ \A l \in 1..(n - 1) : q[l] = p[l]
    BY <1>3 DEF Earlier
  <2>2. n <= Len(c) /\ c[n] = p[n] /\ \A l \in 1..(n - 1) : c[l] = p[l]
    BY <1>1, <2>1
  <2>3. QED
    BY <2>1, <2>2 DEF Earlier
<1>4. QED
  BY <1>2, <1>3 DEF c

LEMMA SiblingsInOrder ==
  ASSUME NEW p \in Seq(Nat), NEW k \in Nat, NEW l \in Nat, k < l
  PROVE  Earlier(Append(p, k), Append(p, l))
<1> DEFINE n == Len(p) + 1
<1>1. /\ Len(Append(p, k)) = n /\ Len(Append(p, l)) = n /\ n \in 1..n
      /\ Append(p, k)[n] = k /\ Append(p, l)[n] = l
  BY Lengthened
<1>2. \A m \in 1..(n - 1) : Append(p, k)[m] = p[m] /\ Append(p, l)[m] = p[m]
  BY Lengthened
<1>3. QED
  BY <1>1, <1>2 DEF Earlier

\* The closure: what a pass is past has its holders, unless one was added since.
ClosingInv ==
  /\ reading \in {"closing", "walking", "done"} /\ growing \in BOOLEAN
  /\ holders \subseteq DOMAIN schema /\ unlooked \subseteq DOMAIN schema
  /\ \A t \in DOMAIN schema : kind \in schema[t] => t \in holders
  /\ growing = FALSE => \A t \in DOMAIN schema \ unlooked : schema[t] \cap holders # {} => t \in holders
  /\ reading = "closing" => stack = <<>> /\ sites = <<>>
  /\ reading # "closing" => growing = FALSE /\ unlooked = {}
  /\ reading = "done" => stack = <<>>

\* The walk stands among the places of the message, in document order: what it
\* found, then what it has still to visit.
OrderInv ==
  /\ stack \in Seq(Places) /\ sites \in Seq(Places)
  /\ \A k \in DOMAIN sites : sites[k][2].type = kind /\ sites[k][1] # <<>>
  /\ \A j, k \in DOMAIN sites : j < k => Earlier(sites[j][1], sites[k][1])
  /\ \A j, k \in DOMAIN stack : j < k => Earlier(stack[j][1], stack[k][1])
  /\ \A j \in DOMAIN sites : \A k \in DOMAIN stack : Earlier(sites[j][1], stack[k][1])

\* What was asked for is found, or at or below what there is to visit.
AsFound(i) == \E k \in DOMAIN sites : sites[k] = i
ToVisit(i) == \E k \in DOMAIN stack : i = stack[k] \/ Below(i, stack[k])
FoundInv ==
  reading # "closing" => \A i \in Places : i[2].type = kind /\ i[1] # <<>> => AsFound(i) \/ ToVisit(i)

ScanInv == GivenInv /\ ClosingInv /\ OrderInv /\ FoundInv

LEMMA ScanBegins ==
  ASSUME Scan!LegalInputs, Scan!Init PROVE ScanInv
<1>1. GivenInv
  BY DEF Scan!Init, GivenInv
<1>2. ClosingInv
  BY DEF Scan!Init, ClosingInv
<1>3. OrderInv
  BY DEF Scan!Init, OrderInv
<1>4. FoundInv
  BY DEF Scan!Init, FoundInv
<1>5. QED
  BY <1>1, <1>2, <1>3, <1>4 DEF ScanInv

LEMMA LookKeeps ==
  ASSUME ScanInv, NEW t \in unlooked, Scan!Look(t) PROVE ScanInv'
<1> USE DEF Scan!Look
<1>1. GivenInv'
  BY DEF ScanInv, GivenInv
<1>2. ClosingInv'
  <2>1. CASE t \notin holders /\ schema[t] \cap holders # {}
    BY <2>1 DEF ScanInv, ClosingInv
  <2>2. CASE ~(t \notin holders /\ schema[t] \cap holders # {})
    BY <2>2 DEF ScanInv, ClosingInv
  <2>3. QED
    BY <2>1, <2>2
<1>3. OrderInv'
  BY DEF ScanInv, ClosingInv, OrderInv, Places, Whole
<1>4. FoundInv'
  BY DEF ScanInv, ClosingInv, FoundInv
<1>5. QED
  BY <1>1, <1>2, <1>3, <1>4 DEF ScanInv

LEMMA PassKeeps ==
  ASSUME Scan!LegalInputs, ScanInv, Scan!Pass PROVE ScanInv'
<1> USE DEF Scan!Pass
<1>1. GivenInv'
  BY DEF ScanInv, GivenInv
<1>2. Places' = Places /\ Whole' = Whole
  BY DEF Places, Whole
<1>3. CASE growing
  <2>1. ClosingInv'
    BY <1>3 DEF ScanInv, ClosingInv
  <2>2. OrderInv'
    BY <1>2, <1>3 DEF ScanInv, ClosingInv, OrderInv
  <2>3. FoundInv'
    BY <1>3 DEF FoundInv
  <2>4. QED
    BY <1>1, <2>1, <2>2, <2>3 DEF ScanInv
<1>4. CASE ~growing
  <2>1. reading' = "walking" /\ stack' = <<Whole>> /\ sites' = <<>> /\ growing = FALSE
    BY <1>4 DEF ScanInv, ClosingInv, Whole
  <2>2. ClosingInv'
    BY <1>4, <2>1 DEF ScanInv, ClosingInv
  <2>3. Whole \in Places
    BY PlacesAreGrown DEF ScanInv
  <2>4. OrderInv'
    BY <1>2, <2>1, <2>3 DEF OrderInv
  <2>5. ASSUME NEW i \in Places, i[1] # <<>> PROVE Below(i, stack'[1])
    <3>1. i[1] \in Seq(Nat)
      BY PlacesAreGrown DEF ScanInv
    <3>2. Len(i[1]) > 0
      BY <2>5, <3>1
    <3>3. QED
      BY <2>1, <3>2 DEF Below, Whole
  <2>6. FoundInv'
    BY <1>2, <2>1, <2>5 DEF FoundInv, ToVisit, Below
  <2>7. QED
    BY <1>1, <2>2, <2>4, <2>6 DEF ScanInv
<1>5. QED
  BY <1>3, <1>4

LEMMA FinishKeeps ==
  ASSUME ScanInv, Scan!Finish PROVE ScanInv'
<1> USE DEF Scan!Finish
<1>1. GivenInv'
  BY DEF ScanInv, GivenInv
<1>2. Places' = Places
  BY DEF Places, Whole
<1>3. ClosingInv'
  BY DEF ScanInv, ClosingInv
<1>4. OrderInv'
  BY <1>2 DEF ScanInv, OrderInv
<1>5. FoundInv'
  BY <1>2 DEF ScanInv, FoundInv, AsFound, ToVisit
<1>6. QED
  BY <1>1, <1>3, <1>4, <1>5 DEF ScanInv

\* The head of the stack is a site: it leaves, and is the last of the sites.
LEMMA SiteKeeps ==
  ASSUME Scan!LegalInputs, ScanInv, Scan!Visit, Head(stack)[2].type = kind, Head(stack)[1] # <<>>
  PROVE  OrderInv' /\ FoundInv'
<1> DEFINE s == Head(stack)
<1>1. stack # <<>> /\ sites' = Append(sites, s) /\ stack' = Tail(stack) /\ Places' = Places /\ kind' = kind /\ reading = "walking"
  BY DEF Scan!Visit, Places, Whole
<1>2. stack \in Seq(Places) /\ sites \in Seq(Places) /\ s \in Places /\ s = stack[1] /\ 1 \in DOMAIN stack
  BY <1>1 DEF ScanInv, OrderInv
<1>3. s[2].type = kind /\ s[1] # <<>>
  OBVIOUS
<1> HIDE DEF s
<1>4. /\ stack' \in Seq(Places) /\ sites' \in Seq(Places)
      /\ DOMAIN sites' = 1..Len(sites) + 1 /\ sites'[Len(sites) + 1] = s /\ Len(sites) \in Nat
      /\ DOMAIN sites = 1..Len(sites) /\ \A k \in DOMAIN sites : sites'[k] = sites[k]
      /\ DOMAIN stack = 1..Len(stack) /\ Len(stack) \in Nat /\ DOMAIN stack' = 1..Len(stack) - 1
      /\ \A k \in DOMAIN stack' : stack'[k] = stack[k + 1] /\ k + 1 \in DOMAIN stack
  BY <1>1, <1>2
<1>5. ASSUME NEW k \in DOMAIN sites' PROVE k \in DOMAIN sites \/ k = Len(sites) + 1
  BY <1>4
<1>6. \A k \in DOMAIN sites' : sites'[k][2].type = kind /\ sites'[k][1] # <<>>
  BY <1>3, <1>4, <1>5 DEF ScanInv, OrderInv
<1>7. ASSUME NEW j \in DOMAIN sites', NEW k \in DOMAIN sites', j < k PROVE Earlier(sites'[j][1], sites'[k][1])
  <2>1. j \in DOMAIN sites
    BY <1>4, <1>7
  <2>2. CASE k \in DOMAIN sites
    BY <1>4, <1>7, <2>1, <2>2 DEF ScanInv, OrderInv
  <2>3. CASE k = Len(sites) + 1
    BY <1>2, <1>4, <2>1, <2>3 DEF ScanInv, OrderInv
  <2>4. QED
    BY <1>5, <2>2, <2>3
<1>8. ASSUME NEW j \in DOMAIN stack', NEW k \in DOMAIN stack', j < k PROVE Earlier(stack'[j][1], stack'[k][1])
  <2>1. j + 1 < k + 1
    BY <1>4, <1>8
  <2>2. QED
    BY <1>4, <2>1 DEF ScanInv, OrderInv
<1>9. ASSUME NEW j \in DOMAIN sites', NEW k \in DOMAIN stack' PROVE Earlier(sites'[j][1], stack'[k][1])
  <2>1. CASE j \in DOMAIN sites
    BY <1>4, <2>1 DEF ScanInv, OrderInv
  <2>2. CASE j = Len(sites) + 1
    <3>1. 1 < k + 1
      BY <1>4
    <3>2. QED
      BY <1>2, <1>4, <2>2, <3>1 DEF ScanInv, OrderInv
  <2>3. QED
    BY <1>5, <2>1, <2>2
<1>10. OrderInv'
  BY <1>1, <1>4, <1>6, <1>7, <1>8, <1>9 DEF OrderInv
<1>11. ASSUME NEW i \in Places, i[2].type = kind, i[1] # <<>> PROVE AsFound(i)' \/ ToVisit(i)'
  <2>1. CASE AsFound(i)
    BY <1>4, <2>1 DEF AsFound
  <2>2. ASSUME NEW k \in DOMAIN stack, i = stack[k] \/ Below(i, stack[k]) PROVE AsFound(i)' \/ ToVisit(i)'
    <3>1. CASE k # 1
      <4>1. k - 1 \in DOMAIN stack' /\ stack'[k - 1] = stack[k]
        BY <1>4, <3>1
      <4>2. QED
        BY <2>2, <4>1 DEF ToVisit, Below
    <3>2. CASE k = 1 /\ i = s
      BY <1>4, <3>2 DEF AsFound
    <3>3. CASE k = 1 /\ Below(i, s)
      <4>1. DOMAIN s[2].present # {}
        BY <1>2, <3>3, WayDown DEF ScanInv
      <4>2. Inside(s) # {}
        BY <4>1 DEF Inside
      <4>3. QED
        BY <1>2, <1>3, <4>2, GivenIsLegal DEF ScanInv, GivenInv
    <3>4. QED
      BY <1>2, <2>2, <3>1, <3>2, <3>3
  <2>3. AsFound(i) \/ ToVisit(i)
    BY <1>1, <1>11 DEF ScanInv, FoundInv
  <2>4. QED
    BY <2>1, <2>2, <2>3 DEF ToVisit
<1>12. FoundInv'
  BY <1>1, <1>11 DEF FoundInv
<1>13. QED
  BY <1>10, <1>12

\* The head of the stack is gone into, or left alone.
LEMMA DescentKeeps ==
  ASSUME Scan!LegalInputs, ScanInv, Scan!Visit, ~(Head(stack)[2].type = kind /\ Head(stack)[1] # <<>>)
  PROVE  OrderInv' /\ FoundInv'
<1> DEFINE s == Head(stack)
           into == IF s[1] = <<>> \/ Scan!descends(s[2].type) THEN Scan!Children(s) ELSE <<>>
           n == Len(into)
<1>1. /\ stack # <<>> /\ sites' = sites /\ stack' = into \o Tail(stack)
      /\ Places' = Places /\ kind' = kind /\ reading = "walking"
  BY DEF Scan!Visit, Places, Whole
<1>2. stack \in Seq(Places) /\ sites \in Seq(Places) /\ s \in Places /\ s = stack[1] /\ 1 \in DOMAIN stack
  BY <1>1 DEF ScanInv, OrderInv
<1>3. s[2].type = kind => s[1] = <<>>
  OBVIOUS
<1>4. s[1] \in Seq(Nat) /\ \A k \in DOMAIN stack : stack[k][1] \in Seq(Nat)
  <2> HIDE DEF s
  <2>1. QED
    BY <1>2, PlacesAreGrown DEF ScanInv
<1> HIDE DEF s
<1>5. s[2].present \in Seq(Inside(s)) /\ DOMAIN Scan!Children(s) = DOMAIN s[2].present
  BY <1>2, GivenIsLegal DEF ScanInv, Scan!Children
<1>6. \A k \in DOMAIN s[2].present : k \in Nat /\ Scan!Children(s)[k] \in Places /\ Scan!Children(s)[k][1] = Append(s[1], k)
  <2>1. \A k \in DOMAIN s[2].present : k \in Nat /\ Scan!Children(s)[k] \in Places
    BY <1>2, PlacesAreGrown DEF ScanInv
  <2>2. \A k \in DOMAIN s[2].present : Scan!Children(s)[k] = <<Append(s[1], k), s[2].present[k]>>
    BY ChildIs
  <2>3. QED
    BY <2>1, <2>2
<1>7. Scan!Children(s) \in Seq(Places)
  <2> DEFINE c == Scan!Children(s)
  <2>1. c = [k \in DOMAIN s[2].present |-> c[k]]
    BY DEF Scan!Children
  <2>2. DOMAIN s[2].present = 1..Len(s[2].present) /\ Len(s[2].present) \in Nat
    BY <1>5
  <2> HIDE DEF c
  <2>3. c \in [1..Len(s[2].present) -> Places]
    BY <1>6, <2>1, <2>2 DEF c
  <2>4. c \in Seq(Places)
    BY <2>2, <2>3
  <2>5. QED
    BY <2>4 DEF c
<1>8. into \in Seq(Places) /\ \A k \in DOMAIN into : k \in Nat /\ into[k][1] = Append(s[1], k)
  <2>1. CASE s[1] = <<>> \/ Scan!descends(s[2].type)
    BY <1>5, <1>6, <1>7, <2>1
  <2>2. CASE ~(s[1] = <<>> \/ Scan!descends(s[2].type))
    BY <2>2
  <2>3. QED
    BY <2>1, <2>2
<1>9. ASSUME s[1] = <<>> \/ Scan!descends(s[2].type) PROVE into = Scan!Children(s)
  BY <1>9
<1> HIDE DEF into
<1>10. /\ stack' \in Seq(Places) /\ DOMAIN into = 1..n /\ n \in Nat /\ Len(stack) \in Nat /\ DOMAIN stack = 1..Len(stack)
       /\ DOMAIN stack' = 1..n + Len(stack) - 1
       /\ \A k \in 1..n : stack'[k] = into[k]
       /\ \A k \in DOMAIN stack' : k > n => stack'[k] = stack[k - n + 1] /\ k - n + 1 \in DOMAIN stack /\ 1 < k - n + 1
  BY <1>1, <1>2, <1>8
<1>11. \A j, k \in DOMAIN stack : j < k => Earlier(stack[j][1], stack[k][1])
  BY DEF ScanInv, OrderInv
<1>12. ASSUME NEW j \in DOMAIN stack', NEW k \in DOMAIN stack', j < k PROVE Earlier(stack'[j][1], stack'[k][1])
  <2>1. CASE k <= n
    <3>1. j \in 1..n /\ k \in 1..n /\ j \in DOMAIN into /\ k \in DOMAIN into
      BY <1>10, <1>12, <2>1
    <3>2. j \in Nat /\ k \in Nat /\ into[j][1] = Append(s[1], j) /\ into[k][1] = Append(s[1], k)
      BY <1>8, <3>1
    <3>3. stack'[j] = into[j] /\ stack'[k] = into[k]
      BY <1>10, <3>1
    <3>4. Earlier(Append(s[1], j), Append(s[1], k))
      BY <1>4, <1>12, <3>2, SiblingsInOrder
    <3>5. QED
      BY <3>2, <3>3, <3>4
  <2>2. CASE j <= n /\ k > n
    <3> DEFINE l == k - n + 1
    <3>1. j \in 1..n /\ j \in DOMAIN into /\ stack'[j][1] = Append(s[1], j) /\ j \in Nat
      BY <1>8, <1>10, <2>2
    <3>2. l \in DOMAIN stack /\ stack'[k] = stack[l] /\ 1 < l
      BY <1>10, <2>2
    <3> HIDE DEF l
    <3>3. Earlier(s[1], stack[l][1])
      BY <1>2, <1>11, <3>2
    <3>4. QED
      BY <1>4, <3>1, <3>2, <3>3, EarlierBelow
  <2>3. CASE j > n
    <3>1. k > n /\ j - n + 1 < k - n + 1
      BY <1>10, <1>12, <2>3
    <3>2. QED
      BY <1>10, <1>11, <2>3, <3>1
  <2>4. QED
    BY <1>10, <2>1, <2>2, <2>3
<1>13. ASSUME NEW j \in DOMAIN sites, NEW k \in DOMAIN stack' PROVE Earlier(sites[j][1], stack'[k][1])
  <2>1. sites[j][1] \in Seq(Nat) /\ \A l \in DOMAIN stack : Earlier(sites[j][1], stack[l][1])
    <3>1. sites[j] \in Places
      BY <1>2
    <3>2. QED
      BY <3>1, PlacesAreGrown DEF ScanInv, OrderInv
  <2>2. CASE k <= n
    <3>1. k \in 1..n /\ k \in DOMAIN into /\ stack'[k][1] = Append(s[1], k) /\ k \in Nat
      BY <1>8, <1>10, <2>2
    <3>2. Earlier(sites[j][1], s[1])
      BY <1>2, <2>1
    <3>3. QED
      BY <1>4, <2>1, <3>1, <3>2, EarlierBelow
  <2>3. CASE k > n
    BY <1>10, <2>1, <2>3
  <2>4. QED
    BY <1>10, <2>2, <2>3
<1>14. OrderInv'
  BY <1>1, <1>2, <1>10, <1>12, <1>13 DEF ScanInv, OrderInv
<1>15. ASSUME NEW i \in Places, i[2].type = kind, i[1] # <<>> PROVE AsFound(i)' \/ ToVisit(i)'
  <2>1. CASE AsFound(i)
    BY <1>1, <2>1 DEF AsFound
  <2>2. ASSUME NEW k \in DOMAIN stack, i = stack[k] \/ Below(i, stack[k]) PROVE ToVisit(i)'
    <3>1. CASE k # 1
      <4> DEFINE l == k + n - 1
      <4>1. l \in DOMAIN stack' /\ l > n /\ l - n + 1 = k
        BY <1>10, <3>1
      <4>2. stack'[l] = stack[k]
        BY <1>10, <4>1
      <4> HIDE DEF l
      <4>3. QED
        BY <2>2, <4>1, <4>2 DEF ToVisit, Below
    <3>2. CASE k = 1 /\ i = s
      BY <1>3, <1>15, <3>2
    <3>3. CASE k = 1 /\ Below(i, s)
      <4> DEFINE l == i[1][Len(s[1]) + 1]
      <4>1. l \in DOMAIN s[2].present /\ (i = Scan!Children(s)[l] \/ Below(i, Scan!Children(s)[l]))
        BY <1>2, <3>3, WayDown DEF ScanInv
      <4> HIDE DEF l
      <4>2. Closed /\ holders \subseteq DOMAIN schema
        BY <1>1 DEF ScanInv, ClosingInv, Closed
      <4>3. s[1] = <<>> \/ Scan!descends(s[2].type)
        BY <1>2, <1>15, <3>3, <4>2, NothingIsPruned DEF ScanInv
      <4>4. into = Scan!Children(s)
        BY <1>9, <4>3
      <4>5. l \in DOMAIN into
        BY <1>5, <4>1, <4>4
      <4>6. l \in 1..n /\ l \in DOMAIN stack' /\ stack'[l] = into[l]
        BY <1>2, <1>10, <4>5
      <4>7. QED
        BY <4>1, <4>4, <4>6 DEF ToVisit, Below
    <3>4. QED
      BY <1>2, <2>2, <3>1, <3>2, <3>3
  <2>3. AsFound(i) \/ ToVisit(i)
    BY <1>1, <1>15 DEF ScanInv, FoundInv
  <2>4. QED
    BY <2>1, <2>2, <2>3 DEF ToVisit
<1>16. FoundInv'
  BY <1>1, <1>15 DEF FoundInv
<1>17. QED
  BY <1>14, <1>16

LEMMA VisitKeeps ==
  ASSUME Scan!LegalInputs, ScanInv, Scan!Visit PROVE ScanInv'
<1>1. GivenInv'
  BY DEF ScanInv, GivenInv, Scan!Visit
<1>2. ClosingInv'
  BY DEF ScanInv, ClosingInv, Scan!Visit
<1>3. OrderInv' /\ FoundInv'
  BY SiteKeeps, DescentKeeps
<1>4. QED
  BY <1>1, <1>2, <1>3 DEF ScanInv

LEMMA ScanInvariance ==
  ASSUME Scan!LegalInputs PROVE Scan!Spec => []ScanInv
<1>1. Scan!Init => ScanInv
  BY ScanBegins
<1>2. ScanInv /\ [Scan!Next]_Scan!vars => ScanInv'
  <2>1. SUFFICES ASSUME ScanInv, [Scan!Next]_Scan!vars PROVE ScanInv'
    OBVIOUS
  <2>2. CASE UNCHANGED Scan!vars
    BY <2>1, <2>2 DEF Scan!vars, ScanInv, GivenInv, ClosingInv, OrderInv, FoundInv, AsFound, ToVisit, Places, Whole
  <2>3. CASE \E t \in unlooked : Scan!Look(t)
    BY <2>1, <2>3, LookKeeps
  <2>4. CASE Scan!Pass
    BY <2>1, <2>4, PassKeeps
  <2>5. CASE Scan!Visit
    BY <2>1, <2>5, VisitKeeps
  <2>6. CASE Scan!Finish
    BY <2>1, <2>6, FinishKeeps
  <2>7. QED
    BY <2>1, <2>2, <2>3, <2>4, <2>5, <2>6 DEF Scan!Next
<1>3. QED
  BY <1>1, <1>2, PTL DEF Scan!Spec

\* What stands earlier on the list is at another place.
LEMMA SitesAreApart ==
  ASSUME Scan!LegalInputs, ScanInv
  PROVE  \A j, k \in DOMAIN sites : sites[j][1] = sites[k][1] => j = k
<1>1. SUFFICES ASSUME NEW j \in DOMAIN sites, NEW k \in DOMAIN sites, sites[j][1] = sites[k][1], j < k PROVE FALSE
  <2>1. DOMAIN sites = 1..Len(sites) /\ Len(sites) \in Nat
    BY DEF ScanInv, OrderInv
  <2>2. QED
    BY <2>1
<1>2. sites[j] \in Places
  BY DEF ScanInv, OrderInv
<1>3. sites[j][1] \in Seq(Nat)
  BY <1>2, PlacesAreGrown DEF ScanInv
<1>4. Earlier(sites[j][1], sites[j][1])
  BY <1>1 DEF ScanInv, OrderInv
<1>5. QED
  BY <1>3, <1>4, EarlierIsAnother

-----------------------------------------------------------------------------
\* The closure and the walk keep to the schema and to what was asked for, and find
\* no place twice.
THEOREM ScanTypeOK ==
  ASSUME Scan!LegalInputs PROVE Scan!Spec => []Scan!TypeOK
<1>1. ScanInv => Scan!TypeOK
  BY SitesAreApart DEF ScanInv, ClosingInv, OrderInv, Scan!TypeOK
<1>2. QED
  BY <1>1, ScanInvariance, PTL

\* The sites found are the written values of the type asked for, all of them and no
\* other, for any schema and a message of any depth: what the closure prunes holds
\* none (containers and _sites).
THEOREM EverySiteIsFoundAlways ==
  ASSUME Scan!LegalInputs PROVE Scan!Spec => []Scan!EverySiteIsFound
<1>1. ASSUME ScanInv, reading = "done"
      PROVE  {sites[k] : k \in DOMAIN sites} = {i \in Places : i[2].type = kind /\ i[1] # <<>>}
  <2>1. \A k \in DOMAIN sites : sites[k] \in Places /\ sites[k][2].type = kind /\ sites[k][1] # <<>>
    BY <1>1 DEF ScanInv, OrderInv
  <2>2. stack = <<>>
    BY <1>1 DEF ScanInv, ClosingInv
  <2>3. \A i \in Places : i[2].type = kind /\ i[1] # <<>> => AsFound(i)
    BY <1>1, <2>2 DEF ScanInv, FoundInv, ToVisit
  <2>4. QED
    BY <2>1, <2>3 DEF AsFound
<1>2. ScanInv => Scan!EverySiteIsFound
  BY <1>1 DEF Scan!EverySiteIsFound, Places, Whole
<1>3. QED
  BY <1>2, ScanInvariance, PTL

\* At every point of the walk its sites come in document order, none of them inside
\* another (_sites, which goes down before it goes on).
THEOREM SitesAreAlwaysInOrder ==
  ASSUME Scan!LegalInputs PROVE Scan!Spec => []Scan!SitesAreInOrder
<1>1. ScanInv => Scan!SitesAreInOrder
  BY DEF ScanInv, OrderInv, Earlier, Scan!SitesAreInOrder
<1>2. QED
  BY <1>1, ScanInvariance, PTL

LEMMA ScanCounts == \A S : Scan!Cardinality(S) = Cardinality(S)
BY DEF Scan!Cardinality, Cardinality

\* No more than one member, or two that differ.
LEMMA AtMostOne ==
  ASSUME NEW S, IsFiniteSet(S)
  PROVE  ~(Cardinality(S) > 1) <=> \A a, b \in S : a = b
<1>1. ASSUME Cardinality(S) <= 1 PROVE \A a, b \in S : a = b
  <2>1. Cardinality(S) \in Nat
    BY FS_CardinalityType
  <2>2. CASE Cardinality(S) = 0
    BY <2>2, FS_EmptySet
  <2>3. CASE Cardinality(S) = 1
    <3>1. PICK x : S = {x}
      BY <2>3, FS_Singleton
    <3>2. QED
      BY <3>1
  <2>4. QED
    BY <1>1, <2>1, <2>2, <2>3
<1>2. ASSUME \A a, b \in S : a = b PROVE Cardinality(S) <= 1
  <2>1. CASE S = {}
    BY <2>1, FS_EmptySet
  <2>2. CASE S # {}
    <3>1. PICK x : S = {x}
      BY <1>2, <2>2
    <3>2. QED
      BY <3>1, FS_Singleton
  <2>3. QED
    BY <2>1, <2>2
<1>3. Cardinality(S) \in Nat
  BY FS_CardinalityType
<1>4. QED
  BY <1>1, <1>2, <1>3

\* A value the rules are silent on has a member, and never two last resorts (rules
\* S031 to S034).
THEOREM OneLastResortAlways ==
  ASSUME Scan!LegalInputs PROVE Scan!Spec => []Scan!OneLastResort
<1> DEFINE Spoken(i) == i[1] \in Scan!S031 \cup Scan!S032 \cup Scan!S033 \cup Scan!S034
           Resort(i, a) == a \in DOMAIN i[2].members /\ ~i[2].members[a].language
<1>1. ASSUME ScanInv, NEW k \in DOMAIN sites
      PROVE  Spoken(sites[k]) <=> Scan!without_any(sites[k]) \/ Scan!two_last_resorts(sites[k])
  <2> DEFINE Found == {sites[j] : j \in DOMAIN sites}
             i == sites[k]
  <2>1. i \in Found /\ \A f \in Found : f[1] = i[1] => f = i
    BY <1>1, SitesAreApart
  <2>2. kind \in {"TranslatedString", "TranslatedImage"}
    BY <1>1, GivenIsLegal DEF ScanInv, GivenInv
  <2> HIDE DEF i, Found
  <2>3. i[1] \in {f[1] : f \in {s \in Found : Scan!without_any(s)}} <=> Scan!without_any(i)
    BY <2>1
  <2>4. i[1] \in {f[1] : f \in {s \in Found : Scan!two_last_resorts(s)}} <=> Scan!two_last_resorts(i)
    BY <2>1
  <2>5. CASE kind = "TranslatedString"
    BY <2>3, <2>4, <2>5 DEF Scan!S031, Scan!S032, Scan!S033, Scan!S034, Found, i
  <2>6. CASE kind = "TranslatedImage"
    BY <2>3, <2>4, <2>6 DEF Scan!S031, Scan!S032, Scan!S033, Scan!S034, Found, i
  <2>7. QED
    BY <2>2, <2>5, <2>6
<1>2. ASSUME ScanInv, NEW k \in DOMAIN sites
      PROVE  ~Scan!two_last_resorts(sites[k]) <=> \A a, b : Resort(sites[k], a) /\ Resort(sites[k], b) => a = b
  <2> DEFINE i == sites[k]
             U == Scan!untagged(i[2].members)
  <2>1. i \in Places
    BY <1>2 DEF ScanInv, OrderInv
  <2>2. IsFiniteSet(DOMAIN i[2].members)
    <3>1. i[2].members \in Seq({i[2].members[l] : l \in DOMAIN i[2].members})
      BY <1>2, <2>1, GivenIsLegal DEF ScanInv
    <3> HIDE DEF i
    <3>2. DOMAIN i[2].members = 1..Len(i[2].members) /\ Len(i[2].members) \in Nat
      BY <3>1
    <3>3. QED
      BY <3>2, FS_Interval
  <2>3. U \subseteq DOMAIN i[2].members
    BY DEF Scan!untagged
  <2>4. IsFiniteSet(U)
    BY <2>2, <2>3, FS_Subset
  <2>5. Scan!two_last_resorts(i) <=> Cardinality(U) > 1
    BY ScanCounts DEF Scan!two_last_resorts
  <2>6. \A a : a \in U <=> Resort(i, a)
    BY DEF Scan!untagged
  <2> HIDE DEF U, Resort
  <2>7. QED
    BY <2>4, <2>5, <2>6, AtMostOne
<1>3. ASSUME ScanInv, NEW k \in DOMAIN sites
      PROVE  Scan!without_any(sites[k]) <=> ~(Len(sites[k][2].members) > 0)
  <2> DEFINE i == sites[k]
  <2>1. i \in Places
    BY <1>3 DEF ScanInv, OrderInv
  <2>2. i[2].members \in Seq({i[2].members[l] : l \in DOMAIN i[2].members})
    BY <1>3, <2>1, GivenIsLegal DEF ScanInv
  <2> HIDE DEF i
  <2>3. i[2].members = <<>> <=> ~(Len(i[2].members) > 0)
    BY <2>2
  <2>4. QED
    BY <2>3 DEF i, Scan!without_any
<1>4. ASSUME ScanInv, NEW k \in DOMAIN sites
      PROVE  ~Spoken(sites[k]) <=> /\ Len(sites[k][2].members) > 0
                                   /\ \A a, b : Resort(sites[k], a) /\ Resort(sites[k], b) => a = b
  <2> HIDE DEF Spoken, Resort
  <2>1. QED
    BY <1>1, <1>2, <1>3, <1>4
<1>5. ScanInv => Scan!OneLastResort
  BY <1>4 DEF Scan!OneLastResort
<1>6. QED
  BY <1>5, ScanInvariance, PTL

=============================================================================
