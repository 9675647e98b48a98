------------------------- MODULE TimestampWalkProofs -------------------------
(***************************************************************************)
(* What the timestamp walk says of a trip and of a role's messages, for    *)
(* any feed, any number of stops and any width of a timestamp.             *)
(***************************************************************************)
EXTENDS TimestampWalk, SequenceTheorems, TLAPS

-----------------------------------------------------------------------------
\* The events of a sequence, as a set.
Elems(s) == {s[i] : i \in DOMAIN s}

LEMMA ElemsConcat ==
  ASSUME NEW s \in Seq(Events), NEW t \in Seq(Events)
  PROVE  s \o t \in Seq(Events) /\ Elems(s \o t) = Elems(s) \cup Elems(t)
<1>1. s \o t \in Seq(Events) /\ Len(s \o t) = Len(s) + Len(t)
  OBVIOUS
<1>2. \A i \in DOMAIN s : i \in DOMAIN (s \o t) /\ (s \o t)[i] = s[i]
  BY <1>1
<1>3. \A i \in DOMAIN t : Len(s) + i \in DOMAIN (s \o t) /\ (s \o t)[Len(s) + i] = t[i]
  BY <1>1
<1>4. ASSUME NEW i \in DOMAIN (s \o t) PROVE (s \o t)[i] \in Elems(s) \cup Elems(t)
  <2>1. CASE i <= Len(s)
    BY <1>1, <2>1 DEF Elems
  <2>2. CASE i > Len(s)
    <3>1. i - Len(s) \in DOMAIN t /\ (s \o t)[i] = t[i - Len(s)]
      BY <1>1, <2>2
    <3>2. QED
      BY <3>1 DEF Elems
  <2>3. QED
    BY <1>1, <2>1, <2>2
<1>5. Elems(s \o t) \subseteq Elems(s) \cup Elems(t)
  BY <1>4 DEF Elems
<1>6. Elems(s) \subseteq Elems(s \o t)
  BY <1>2 DEF Elems
<1>7. Elems(t) \subseteq Elems(s \o t)
  BY <1>3 DEF Elems
<1>8. QED
  BY <1>1, <1>5, <1>6, <1>7

LEMMA ElemsConcat3 ==
  ASSUME NEW s \in Seq(Events), NEW t \in Seq(Events), NEW u \in Seq(Events)
  PROVE  /\ s \o t \o u \in Seq(Events)
         /\ Elems(s \o t \o u) = Elems(s) \cup Elems(t) \cup Elems(u)
<1>1. s \o t \in Seq(Events) /\ Elems(s \o t) = Elems(s) \cup Elems(t)
  BY ElemsConcat
<1> DEFINE st == s \o t
<1>2. st \in Seq(Events)
  BY <1>1
<1> HIDE DEF st
<1>3. st \o u \in Seq(Events) /\ Elems(st \o u) = Elems(st) \cup Elems(u)
  BY <1>2, ElemsConcat
<1>4. QED
  BY <1>1, <1>3 DEF st

LEMMA ElemsWhere ==
  ASSUME NEW c, NEW rule \in Rules, NEW part \in Parts,
         index \in Nat, position \in Nat
  PROVE  /\ Where(c, rule, part) \in Seq(Events)
         /\ Elems(Where(c, rule, part)) = IF c THEN {Event(rule, part)} ELSE {}
<1>1. Event(rule, part) \in Events
  BY DEF Event, Events
<1>2. CASE c
  BY <1>1, <1>2 DEF Where, Elems
<1>3. CASE ~c
  BY <1>3 DEF Where, Elems
<1>4. QED
  BY <1>2, <1>3

-----------------------------------------------------------------------------
\* Types.

InEntity == pc \in {"trip_update", "stops", "vehicle", "alert"}

TypeInv ==
  /\ feed \in Seq(Message)
  /\ n \in 1..Len(feed)
  /\ pc \in {"header", "entities", "trip_update", "stops", "vehicle", "alert", "done"}
  /\ index \in 0..Len(message.entity)
  /\ InEntity => index >= 1
  /\ position \in Nat
  /\ pc = "stops" => /\ entity.trip_update # None
                     /\ position \in 1..(Len(entity.trip_update.stop_time_update) + 1)
  /\ pc = "alert" => position >= 1
  /\ previous_arrival \in Int64 \cup {None}
  /\ previous_departure \in Int64 \cup {None}
  /\ events \in Seq(Events)
  /\ pc \in {"header", "done"} => events = <<>> /\ index = 0
  /\ reported \in Seq(Seq(Events))
  /\ Len(reported) = IF pc = "done" THEN n ELSE n - 1

LEMMA Narrowed ==
  ASSUME NEW v \in Int PROVE int64(v) \in Int64
<1>1. HalfWord \in Nat \ {0}
  BY WordAssumption
<1>2. (v + HalfWord) % (2 * HalfWord) \in 0..(2 * HalfWord - 1)
  BY <1>1
<1>3. QED
  BY <1>1, <1>2 DEF int64, Int64

LEMMA MessageType ==
  ASSUME feed \in Seq(Message), n \in 1..Len(feed)
  PROVE  /\ message \in Message
         /\ header_timestamp \in Int64
         /\ previous \in Int64 \cup {None}
         /\ message.entity \in Seq(Entity)
         /\ message.millis \in Nat
<1>1. message \in Message
  BY DEF message
<1>2. message.timestamp \in Int
  BY <1>1, WordAssumption DEF Message, UInt64
<1>3. n > 1 => feed[n - 1].timestamp \in Int
  <2>1. SUFFICES ASSUME n > 1 PROVE feed[n - 1].timestamp \in Int
    OBVIOUS
  <2>2. n - 1 \in 1..Len(feed)
    BY <2>1
  <2>3. feed[n - 1] \in Message
    BY <2>2
  <2>4. feed[n - 1].timestamp \in UInt64
    BY <2>3 DEF Message
  <2>5. QED
    BY <2>4, WordAssumption DEF UInt64
<1>4. previous \in Int64 \cup {None}
  BY <1>3, Narrowed DEF previous
<1>5. QED
  BY <1>1, <1>2, <1>4, Narrowed DEF Message, header_timestamp

LEMMA EntityType ==
  ASSUME TypeInv, InEntity
  PROVE  /\ entity \in Entity
         /\ entity.trip_update # None => entity.trip_update \in TripUpdate
         /\ entity.alert \in Seq(UInt64)
<1>1. message.entity \in Seq(Entity) /\ index \in 1..Len(message.entity)
  BY MessageType DEF TypeInv
<1>2. entity \in Entity
  BY <1>1 DEF entity
<1>3. QED
  BY <1>2 DEF Entity

LEMMA StopType ==
  ASSUME TypeInv, pc = "stops", position <= Len(entity.trip_update.stop_time_update)
  PROVE  /\ stop_time_update \in Stop
         /\ stop_time_update.arrival \in Int64 \cup {None}
         /\ stop_time_update.departure \in Int64 \cup {None}
<1>1. entity.trip_update \in TripUpdate
  BY EntityType DEF TypeInv, InEntity
<1>2. entity.trip_update.stop_time_update \in Seq(Stop)
  BY <1>1 DEF TripUpdate
<1>3. position \in 1..Len(entity.trip_update.stop_time_update)
  BY <1>2 DEF TypeInv
<1>4. stop_time_update \in Stop
  BY <1>2, <1>3 DEF stop_time_update
<1>5. QED
  BY <1>4 DEF Stop

-----------------------------------------------------------------------------
\* What each step yields.

LEMMA HeaderYields ==
  ASSUME TypeInv
  PROVE  /\ against_previous \in Seq(Events)
         /\ previous # None =>
              /\ header_timestamp = previous =>
                   Event("E017", "header") \in Elems(against_previous)
              /\ header_timestamp < previous =>
                   Event("E018", "header") \in Elems(against_previous)
              /\ /\ header_timestamp > previous
                 /\ int64(header_timestamp - previous) > MINIMUM_REFRESH_INTERVAL_SECONDS
                 => Event("W007", "header") \in Elems(against_previous)
         /\ \A e \in Elems(against_previous) : e.entity = index /\ e.part = "header"
<1> DEFINE a == Where(header_timestamp = previous, "E017", "header")
           b == Where(header_timestamp < previous, "E018", "header")
           c == Where(/\ header_timestamp > previous
                      /\ int64(header_timestamp - previous) > MINIMUM_REFRESH_INTERVAL_SECONDS,
                      "W007", "header")
<1>1. {"E017", "E018", "W007"} \subseteq Rules /\ "header" \in Parts
  BY DEF Rules, Parts
<1>2. index \in Nat /\ position \in Nat
  BY DEF TypeInv
<1>3. CASE previous = None
  BY <1>3 DEF against_previous, Elems
<1>4. CASE previous # None
  <2>1. /\ a \in Seq(Events)
        /\ Elems(a) = IF header_timestamp = previous THEN {Event("E017", "header")} ELSE {}
    BY <1>1, <1>2, ElemsWhere
  <2>2. /\ b \in Seq(Events)
        /\ Elems(b) = IF header_timestamp < previous THEN {Event("E018", "header")} ELSE {}
    BY <1>1, <1>2, ElemsWhere
  <2>3. /\ c \in Seq(Events)
        /\ Elems(c) = IF /\ header_timestamp > previous
                         /\ int64(header_timestamp - previous)
                              > MINIMUM_REFRESH_INTERVAL_SECONDS
                      THEN {Event("W007", "header")} ELSE {}
    BY <1>1, <1>2, ElemsWhere
  <2>4. against_previous = a \o b \o c
    BY <1>4 DEF against_previous
  <2> HIDE DEF a, b, c
  <2>5. /\ a \o b \o c \in Seq(Events)
        /\ Elems(a \o b \o c) = Elems(a) \cup Elems(b) \cup Elems(c)
    BY <2>1, <2>2, <2>3, ElemsConcat3
  <2>7. QED
    BY <2>1, <2>2, <2>3, <2>4, <2>5 DEF Event
<1>5. QED
  BY <1>3, <1>4

\* What an entity's own timestamp is told is said of that entity and is never
\* about the order of its stops.
LEMMA TimestampYields ==
  ASSUME TypeInv, NEW t \in Int64, NEW part \in Parts
  PROVE  /\ TimestampEvents(t, part) \in Seq(Events)
         /\ \A e \in Elems(TimestampEvents(t, part)) :
              /\ e.entity = index /\ e.rule \notin {"E022", "E025"}
              /\ e.rule = "E050" =>
                   /\ t # 0 /\ e = Event("E050", part)
                   /\ is_in_future(message.millis, t, IN_FUTURE_TOLERANCE_SECONDS)
         /\ t # 0 /\ header_timestamp # 0 /\ t > header_timestamp =>
              Event("E012", part) \in Elems(TimestampEvents(t, part))
<1> DEFINE a == Where(header_timestamp # 0 /\ t > header_timestamp, "E012", part)
           b == Where(~is_posix(t), "E001", part)
           c == Where(is_posix(t) /\ is_in_future(message.millis, t,
                                                  IN_FUTURE_TOLERANCE_SECONDS),
                      "E050", part)
<1>1. {"E012", "E001", "E050", "W001"} \subseteq Rules
  BY DEF Rules
<1>2. index \in Nat /\ position \in Nat
  BY DEF TypeInv
<1>6. \A rule : Event(rule, part).rule = rule /\ Event(rule, part).entity = index
  BY DEF Event
<1>3. CASE t = 0
  <2>1. Event("W001", part) \in Events
    BY <1>1, <1>2 DEF Event, Events
  <2>2. TimestampEvents(t, part) = <<Event("W001", part)>>
    BY <1>3 DEF TimestampEvents
  <2>3. Elems(TimestampEvents(t, part)) = {Event("W001", part)}
    BY <2>2 DEF Elems
  <2>4. TimestampEvents(t, part) \in Seq(Events)
    BY <2>1, <2>2
  <2>5. \A e \in Elems(TimestampEvents(t, part)) : e.entity = index /\ e.rule = "W001"
    BY <1>6, <2>3
  <2>6. QED
    BY <1>3, <2>4, <2>5
<1>4. CASE t # 0
  <2>1. /\ a \in Seq(Events)
        /\ Elems(a) = IF header_timestamp # 0 /\ t > header_timestamp
                      THEN {Event("E012", part)} ELSE {}
    BY <1>1, <1>2, ElemsWhere
  <2>2. b \in Seq(Events) /\ Elems(b) \subseteq {Event("E001", part)}
    BY <1>1, <1>2, ElemsWhere DEF is_posix
  <2>3. /\ c \in Seq(Events)
        /\ Elems(c) = IF is_posix(t) /\ is_in_future(message.millis, t,
                                                     IN_FUTURE_TOLERANCE_SECONDS)
                      THEN {Event("E050", part)} ELSE {}
    BY <1>1, <1>2, ElemsWhere
  <2>4. TimestampEvents(t, part) = a \o b \o c
    BY <1>4 DEF TimestampEvents
  <2> HIDE DEF a, b, c
  <2>5. /\ a \o b \o c \in Seq(Events)
        /\ Elems(a \o b \o c) = Elems(a) \cup Elems(b) \cup Elems(c)
    BY <2>1, <2>2, <2>3, ElemsConcat3
  <2>6. Elems(TimestampEvents(t, part)) = Elems(a) \cup Elems(b) \cup Elems(c)
    BY <2>4, <2>5
  <2>7. \A e \in Elems(a) \cup Elems(b) : e.entity = index /\ e.rule \in {"E012", "E001"}
    BY <1>6, <2>1, <2>2
  <2>8. \A e \in Elems(c) :
          /\ e = Event("E050", part) /\ e.entity = index /\ e.rule = "E050"
          /\ is_in_future(message.millis, t, IN_FUTURE_TOLERANCE_SECONDS)
    BY <1>6, <2>3
  <2>9. header_timestamp # 0 /\ t > header_timestamp => Event("E012", part) \in Elems(a)
    BY <2>1
  <2>10. TimestampEvents(t, part) \in Seq(Events)
    BY <2>4, <2>5
  <2>11. QED
    BY <1>4, <2>6, <2>7, <2>8, <2>9, <2>10
<1>5. QED
  BY <1>3, <1>4

LEMMA CompareYields ==
  ASSUME TypeInv, NEW v \in Int64, NEW s \in Int64 \cup {None}, NEW o \in Int64 \cup {None},
         NEW part \in Parts
  PROVE  /\ Compare(v, s, o, part) \in Seq(Events)
         /\ Elems(Compare(v, s, o, part)) =
              IF (s # None /\ v <= s) \/ (o # None /\ v <= o)
              THEN {Event("E022", part)} ELSE {}
<1> DEFINE a == Where(s # None /\ v < s, "E022", part)
           b == Where(s # None /\ v = s, "E022", part)
           c == Where(o # None /\ v < o, "E022", part)
           d == Where(o # None /\ v = o, "E022", part)
           E == Event("E022", part)
<1>1. "E022" \in Rules /\ index \in Nat /\ position \in Nat
  BY DEF Rules, TypeInv
<1>2. a \in Seq(Events) /\ Elems(a) = IF s # None /\ v < s THEN {E} ELSE {}
  BY <1>1, ElemsWhere
<1>3. b \in Seq(Events) /\ Elems(b) = IF s # None /\ v = s THEN {E} ELSE {}
  BY <1>1, ElemsWhere
<1>4. c \in Seq(Events) /\ Elems(c) = IF o # None /\ v < o THEN {E} ELSE {}
  BY <1>1, ElemsWhere
<1>5. d \in Seq(Events) /\ Elems(d) = IF o # None /\ v = o THEN {E} ELSE {}
  BY <1>1, ElemsWhere
<1>6. Compare(v, s, o, part) = a \o b \o c \o d
  BY DEF Compare
<1>7. (s # None => s \in Int) /\ (o # None => o \in Int) /\ v \in Int
  BY WordAssumption DEF Int64
<1> HIDE DEF a, b, c, d, E
<1>8. /\ a \o b \o c \in Seq(Events)
      /\ Elems(a \o b \o c) = Elems(a) \cup Elems(b) \cup Elems(c)
  BY <1>2, <1>3, <1>4, ElemsConcat3
<1> DEFINE abc == a \o b \o c
<1> HIDE DEF abc
<1>9. abc \in Seq(Events)
  BY <1>8 DEF abc
<1>10. abc \o d \in Seq(Events) /\ Elems(abc \o d) = Elems(abc) \cup Elems(d)
  BY <1>5, <1>9, ElemsConcat
<1>11. Elems(Compare(v, s, o, part)) = Elems(a) \cup Elems(b) \cup Elems(c) \cup Elems(d)
  BY <1>6, <1>8, <1>10 DEF abc
<1>12. CASE (s # None /\ v <= s) \/ (o # None /\ v <= o)
  <2>1. (s # None /\ v < s) \/ (s # None /\ v = s) \/ (o # None /\ v < o) \/ (o # None /\ v = o)
    BY <1>7, <1>12
  <2>2. QED
    BY <1>2, <1>3, <1>4, <1>5, <1>6, <1>10, <1>11, <1>12, <2>1 DEF E, abc
<1>13. CASE ~((s # None /\ v <= s) \/ (o # None /\ v <= o))
  <2>1. ~(s # None /\ v < s) /\ ~(s # None /\ v = s) /\ ~(o # None /\ v < o)
        /\ ~(o # None /\ v = o)
    BY <1>7, <1>13
  <2>2. QED
    BY <1>2, <1>3, <1>4, <1>5, <1>6, <1>10, <1>11, <1>13, <2>1 DEF abc
<1>14. QED
  BY <1>12, <1>13

-----------------------------------------------------------------------------
\* Nothing in a sequence of events is about the order of stops of entity k.
Quiet(s, k) == \A e \in Elems(s) : ~(e.rule \in {"E022", "E025"} /\ e.entity = k)

LEMMA FieldYields ==
  ASSUME TypeInv, NEW v \in Int64 \cup {None}, NEW s \in Int64 \cup {None},
         NEW o \in Int64 \cup {None}, NEW part \in Parts
  PROVE  /\ FieldEvents(v, s, o, part) \in Seq(Events)
         /\ \A e \in Elems(FieldEvents(v, s, o, part)) : e.entity = index /\ e.rule # "E050"
         /\ Quiet(FieldEvents(v, s, o, part), index) <=>
              (v # None => (s # None => v > s) /\ (o # None => v > o))
<1>1. CASE v = None
  <2>1. FieldEvents(v, s, o, part) = <<>>
    BY <1>1 DEF FieldEvents
  <2>2. QED
    BY <1>1, <2>1 DEF Elems, Quiet
<1>2. CASE v # None
  <2>1. v \in Int64
    BY <1>2
  <2> DEFINE a == Where(~is_posix(v), "E001", part)
             b == Compare(v, s, o, part)
  <2>2. a \in Seq(Events) /\ Elems(a) \subseteq {Event("E001", part)}
    <3>1. "E001" \in Rules /\ index \in Nat /\ position \in Nat
      BY DEF Rules, TypeInv
    <3>2. QED
      BY <3>1, ElemsWhere
  <2>3. /\ b \in Seq(Events)
        /\ Elems(b) = IF (s # None /\ v <= s) \/ (o # None /\ v <= o)
                      THEN {Event("E022", part)} ELSE {}
    BY <2>1, CompareYields
  <2>4. FieldEvents(v, s, o, part) = a \o b
    BY <1>2 DEF FieldEvents
  <2> HIDE DEF a, b
  <2>5. a \o b \in Seq(Events) /\ Elems(a \o b) = Elems(a) \cup Elems(b)
    BY <2>2, <2>3, ElemsConcat
  <2>6. (s # None => s \in Int) /\ (o # None => o \in Int) /\ v \in Int
    BY <2>1 DEF Int64
  <2>7. ((s # None /\ v <= s) \/ (o # None /\ v <= o)) <=>
           ~((s # None => v > s) /\ (o # None => v > o))
    BY <2>6
  <2>8. /\ Event("E001", part).rule = "E001" /\ Event("E001", part).entity = index
        /\ Event("E022", part).rule = "E022" /\ Event("E022", part).entity = index
    BY DEF Event
  <2>9. QED
    BY <1>2, <2>2, <2>3, <2>4, <2>5, <2>7, <2>8 DEF Quiet
<1>3. QED
  BY <1>1, <1>2

\* A stop is told nothing about its order exactly when its times are past the
\* two that are carried and its departure is not before its arrival.
InOrder(a, d) ==
  /\ a # None => (previous_arrival # None => a > previous_arrival)
                 /\ (previous_departure # None => a > previous_departure)
  /\ d # None => (previous_arrival # None => d > previous_arrival)
                 /\ (previous_departure # None => d > previous_departure)
  /\ a # None /\ d # None => a <= d

LEMMA StopYields ==
  ASSUME TypeInv, StopTimeUpdate
  PROVE  /\ events' \in Seq(Events)
         /\ Elems(events) \subseteq Elems(events')
         /\ \A e \in Elems(events') :
              e \in Elems(events) \/ (e.entity = index /\ e.rule # "E050")
         /\ Quiet(events', index) <=>
              Quiet(events, index) /\ InOrder(stop_time_update.arrival,
                                              stop_time_update.departure)
<1> DEFINE a == stop_time_update.arrival
           d == stop_time_update.departure
           x == FieldEvents(a, previous_arrival, previous_departure, "arrival")
           y == FieldEvents(d, previous_departure, previous_arrival, "departure")
           c == a # None /\ d # None /\ d < a
           z == Where(c, "E025", "departure")
<1>1. a \in Int64 \cup {None} /\ d \in Int64 \cup {None}
  BY StopType DEF StopTimeUpdate
<1>2. previous_arrival \in Int64 \cup {None} /\ previous_departure \in Int64 \cup {None}
  BY DEF TypeInv
<1>3. {"arrival", "departure"} \subseteq Parts /\ "E025" \in Rules
  BY DEF Parts, Rules
<1> HIDE DEF a, d
<1>4. /\ x \in Seq(Events)
      /\ \A e \in Elems(x) : e.entity = index /\ e.rule # "E050"
      /\ Quiet(x, index) <=> (a # None => (previous_arrival # None => a > previous_arrival)
                                /\ (previous_departure # None => a > previous_departure))
  BY <1>1, <1>2, <1>3, FieldYields
<1>5. /\ y \in Seq(Events)
      /\ \A e \in Elems(y) : e.entity = index /\ e.rule # "E050"
      /\ Quiet(y, index) <=> (d # None => (previous_departure # None => d > previous_departure)
                                /\ (previous_arrival # None => d > previous_arrival))
  <2> DEFINE s == previous_departure
             o == previous_arrival
  <2>1. /\ d \in Int64 \cup {None} /\ s \in Int64 \cup {None} /\ o \in Int64 \cup {None}
        /\ "departure" \in Parts
    BY <1>1, <1>2, <1>3
  <2> HIDE DEF s, o
  <2>2. /\ FieldEvents(d, s, o, "departure") \in Seq(Events)
        /\ \A e \in Elems(FieldEvents(d, s, o, "departure")) : e.entity = index /\ e.rule # "E050"
        /\ Quiet(FieldEvents(d, s, o, "departure"), index) <=>
             (d # None => (s # None => d > s) /\ (o # None => d > o))
    BY <2>1, FieldYields
  <2>3. QED
    BY <2>2 DEF s, o
<1>6. z \in Seq(Events) /\ Elems(z) = IF c THEN {Event("E025", "departure")} ELSE {}
  <2>1. index \in Nat /\ position \in Nat
    BY DEF TypeInv
  <2> HIDE DEF c
  <2>2. QED
    BY <1>3, <2>1, ElemsWhere
<1>7. events' = events \o x \o y \o z
  BY DEF StopTimeUpdate, a, d
<1> HIDE DEF x, y, z
<1> DEFINE old == events \o x \o y
<1>8. old \in Seq(Events) /\ Elems(old) = Elems(events) \cup Elems(x) \cup Elems(y)
  BY <1>4, <1>5, ElemsConcat3 DEF TypeInv
<1> HIDE DEF old
<1>9. old \o z \in Seq(Events) /\ Elems(old \o z) = Elems(old) \cup Elems(z)
  BY <1>6, <1>8, ElemsConcat
<1>10. events' = old \o z
  BY <1>7 DEF old
<1>11. Elems(events') = Elems(events) \cup Elems(x) \cup Elems(y) \cup Elems(z)
  BY <1>8, <1>9, <1>10
<1>12. (a # None => a \in Int) /\ (d # None => d \in Int)
  BY <1>1 DEF Int64
<1>13. c <=> ~(a # None /\ d # None => a <= d)
  BY <1>12
<1>14. /\ Event("E025", "departure").rule = "E025"
       /\ Event("E025", "departure").entity = index
  BY DEF Event
<1> HIDE DEF c
<1>15. Quiet(z, index) <=> ~c
  BY <1>6, <1>14 DEF Quiet
<1>16. \A e \in Elems(z) : e.entity = index /\ e.rule # "E050"
  BY <1>6, <1>14
<1>17. Quiet(events', index) <=> Quiet(events, index) /\ Quiet(x, index)
                                   /\ Quiet(y, index) /\ Quiet(z, index)
  BY <1>11 DEF Quiet
<1>18. Quiet(events', index) <=> Quiet(events, index) /\ InOrder(a, d)
  BY <1>4, <1>5, <1>13, <1>15, <1>17 DEF InOrder
<1>19. QED
  BY <1>4, <1>5, <1>9, <1>10, <1>11, <1>16, <1>18 DEF a, d

\* A timestamp of this part is ahead of the clock; the events say so too if it is
\* ahead of its header.
InFuture(part, found) ==
  \E t \in Int64 :
    /\ t # 0 /\ is_in_future(message.millis, t, IN_FUTURE_TOLERANCE_SECONDS)
    /\ header_timestamp # 0 /\ t > header_timestamp => Event("E012", part) \in Elems(found)

LEMMA TimestampInFuture ==
  ASSUME TypeInv, NEW t \in Int64, NEW part \in Parts
  PROVE  LET x == TimestampEvents(t, part)
         IN  /\ x \in Seq(Events)
             /\ \A e \in Elems(x) :
                  /\ e.entity = index /\ e.rule \notin {"E022", "E025"}
                  /\ e.rule = "E050" => InFuture(e.part, x)
<1>1. Event("E050", part).part = part
  BY DEF Event
<1>2. QED
  BY <1>1, TimestampYields DEF InFuture

\* Every other step that adds to the events adds nothing about an order, and of
\* the future only what it finds there.
LEMMA OthersYield ==
  ASSUME TypeInv, BeginTrip \/ Vehicle \/ AlertBound
  PROVE  /\ events' \in Seq(Events)
         /\ Elems(events) \subseteq Elems(events')
         /\ \A e \in Elems(events') :
              e \in Elems(events)
                \/ /\ e.entity = index /\ e.rule \notin {"E022", "E025"}
                   /\ e.rule = "E050" => InFuture(e.part, events')
<1>0. {"trip_update", "vehicle", "alert"} \subseteq Parts /\ "E001" \in Rules
  BY DEF Parts, Rules
<1>1. SUFFICES \E x \in Seq(Events) :
                 /\ events' = events \o x
                 /\ \A e \in Elems(x) :
                      /\ e.entity = index /\ e.rule \notin {"E022", "E025"}
                      /\ e.rule = "E050" => InFuture(e.part, x)
  BY ElemsConcat DEF TypeInv, InFuture
<1>2. CASE BeginTrip
  <2>1. entity.trip_update \in TripUpdate
    BY <1>2, EntityType DEF BeginTrip, InEntity
  <2>2. int64(entity.trip_update.timestamp) \in Int64
    BY <2>1, Narrowed, WordAssumption DEF TripUpdate, UInt64
  <2>3. QED
    BY <1>0, <1>2, <2>2, TimestampInFuture DEF BeginTrip
<1>3. CASE Vehicle
  <2>1. CASE entity.vehicle = None
    <3>1. <<>> \in Seq(Events) /\ Elems(<<>>) = {}
      BY DEF Elems
    <3>2. events' = events \o <<>>
      BY <1>3, <2>1 DEF Vehicle
    <3>3. QED
      BY <3>1, <3>2
  <2>2. CASE entity.vehicle # None
    <3>1. entity.vehicle \in UInt64
      BY <1>3, <2>2, EntityType DEF Vehicle, InEntity, Entity
    <3>2. int64(entity.vehicle) \in Int64
      BY <3>1, Narrowed, WordAssumption DEF UInt64
    <3>3. QED
      BY <1>0, <1>3, <2>2, <3>2, TimestampInFuture DEF Vehicle
  <2>3. QED
    BY <2>1, <2>2
<1>4. CASE AlertBound
  <2> DEFINE x == Where(~is_posix(int64(entity.alert[position])), "E001", "alert")
  <2>1. x \in Seq(Events) /\ Elems(x) \subseteq {Event("E001", "alert")}
    <3>1. index \in Nat /\ position \in Nat
      BY DEF TypeInv
    <3>2. QED
      BY <1>0, <3>1, ElemsWhere
  <2>2. events' = events \o x
    BY <1>4 DEF AlertBound
  <2> HIDE DEF x
  <2>3. \A e \in Elems(x) : e.entity = index /\ e.rule = "E001"
    BY <2>1 DEF Event
  <2>4. QED
    BY <2>1, <2>2, <2>3
<1>5. QED
  BY <1>2, <1>3, <1>4

-----------------------------------------------------------------------------
LEMMA TypeInit == Init => TypeInv
<1> SUFFICES ASSUME Init PROVE TypeInv
  OBVIOUS
<1>1. feed \in Seq(Message) /\ feed # <<>>
  BY FeedAssumption DEF Init
<1>2. n \in 1..Len(feed)
  BY <1>1 DEF Init
<1>3. Len(message.entity) \in Nat
  BY <1>1, <1>2, MessageType
<1>4. QED
  BY <1>1, <1>2, <1>3 DEF Init, TypeInv, InEntity

LEMMA HeaderStep ==
  ASSUME TypeInv, Header
  PROVE  /\ events' \in Seq(Events)
         /\ Said(events', {"E017", "E018", "E048", "W001"}, "header")
              \/ (header_timestamp # 0 /\ (previous = None \/ previous < header_timestamp))
         /\ \A e \in Elems(events') : e.entity = index
<1>0. /\ "header" \in Parts
      /\ {"E001", "E048", "W001", "W008", "E050"} \subseteq Rules
      /\ index \in Nat /\ position \in Nat
  BY DEF Rules, Parts, TypeInv
<1>1. CASE MissingHeaderTimestamp
  <2>1. PICK rule \in {"E048", "W001"} : events' = <<Event(rule, "header")>>
    BY <1>1 DEF MissingHeaderTimestamp
  <2>2. Event(rule, "header") \in Events /\ Event(rule, "header").rule = rule
        /\ Event(rule, "header").part = "header" /\ Event(rule, "header").entity = index
    BY <1>0 DEF Event, Events
  <2>3. QED
    BY <2>1, <2>2 DEF Said, Elems
<1>2. CASE HeaderTimestamp
  <2> DEFINE x == ~is_posix(header_timestamp)
             y == /\ is_posix(header_timestamp)
                  /\ age_millis(message.millis, header_timestamp)
                       > MAX_AGE_SECONDS * MILLIS_PER_SECOND
             z == /\ is_posix(header_timestamp)
                  /\ is_in_future(message.millis, header_timestamp, header_tolerance)
             a == Where(x, "E001", "header")
             b == Where(y, "W008", "header")
             c == Where(z, "E050", "header")
  <2>1. events' = a \o b \o c \o against_previous
    BY <1>2 DEF HeaderTimestamp
  <2> HIDE DEF x, y, z
  <2>2. a \in Seq(Events) /\ Elems(a) \subseteq {Event("E001", "header")}
    BY <1>0, ElemsWhere
  <2>3. b \in Seq(Events) /\ Elems(b) \subseteq {Event("W008", "header")}
    BY <1>0, ElemsWhere
  <2>4. c \in Seq(Events) /\ Elems(c) \subseteq {Event("E050", "header")}
    BY <1>0, ElemsWhere
  <2> DEFINE abc == a \o b \o c
  <2> HIDE DEF a, b, c
  <2>5. abc \in Seq(Events) /\ Elems(abc) = Elems(a) \cup Elems(b) \cup Elems(c)
    BY <2>2, <2>3, <2>4, ElemsConcat3
  <2>6. events' = abc \o against_previous
    BY <2>1
  <2> HIDE DEF abc
  <2>7. against_previous \in Seq(Events)
    BY HeaderYields
  <2>8. events' \in Seq(Events) /\ Elems(events') = Elems(abc) \cup Elems(against_previous)
    BY <2>5, <2>6, <2>7, ElemsConcat
  <2>9. \A e \in Elems(against_previous) : e.entity = index
    BY HeaderYields
  <2>10. \A e \in Elems(events') : e.entity = index
    BY <2>2, <2>3, <2>4, <2>5, <2>8, <2>9 DEF Event
  <2>11. ASSUME ~Said(events', {"E017", "E018", "E048", "W001"}, "header"), previous # None
         PROVE  previous < header_timestamp
    <3>1. /\ Event("E017", "header").rule = "E017" /\ Event("E017", "header").part = "header"
          /\ Event("E018", "header").rule = "E018" /\ Event("E018", "header").part = "header"
      BY DEF Event
    <3>2. /\ Event("E017", "header") \notin Elems(events')
          /\ Event("E018", "header") \notin Elems(events')
      BY <2>11, <3>1 DEF Said, Elems
    <3>3. ~(header_timestamp = previous) /\ ~(header_timestamp < previous)
      BY <2>8, <2>11, <3>2, HeaderYields
    <3>4. header_timestamp \in Int /\ previous \in Int
      BY <2>11, MessageType DEF TypeInv, Int64
    <3>5. QED
      BY <3>3, <3>4
  <2>12. QED
    BY <1>2, <2>8, <2>10, <2>11 DEF HeaderTimestamp
<1>3. QED
  BY <1>1, <1>2 DEF Header

LEMMA TypeNext == TypeInv /\ [Next]_vars => TypeInv'
<1> SUFFICES ASSUME TypeInv, [Next]_vars PROVE TypeInv'
  OBVIOUS
<1>0. feed \in Seq(Message) /\ n \in 1..Len(feed) /\ Len(message.entity) \in Nat
  BY MessageType DEF TypeInv
<1>1. CASE Header
  <2>1. message' = message
    BY <1>1 DEF Header, MissingHeaderTimestamp, HeaderTimestamp, message
  <2>2. events' \in Seq(Events)
    BY <1>1, HeaderStep
  <2>3. QED
    BY <1>1, <2>1, <2>2
    DEF Header, MissingHeaderTimestamp, HeaderTimestamp, TypeInv, InEntity
<1>2. CASE NextEntity
  <2>1. message' = message
    BY <1>2 DEF NextEntity, message
  <2>2. QED
    BY <1>0, <1>2, <2>1 DEF NextEntity, TypeInv, InEntity
<1>3. CASE NoTripUpdate
  <2>1. message' = message
    BY <1>3 DEF NoTripUpdate, message
  <2>2. QED
    BY <1>3, <2>1 DEF NoTripUpdate, TypeInv, InEntity
<1>4. CASE BeginTrip
  <2>1. message' = message /\ entity' = entity
    BY <1>4 DEF BeginTrip, message, entity
  <2>2. events' \in Seq(Events)
    BY <1>4, OthersYield
  <2>3. entity.trip_update \in TripUpdate
    BY <1>4, EntityType DEF BeginTrip, InEntity
  <2>4. Len(entity.trip_update.stop_time_update) \in Nat
    BY <2>3 DEF TripUpdate
  <2>5. QED
    BY <1>4, <2>1, <2>2, <2>4 DEF BeginTrip, TypeInv, InEntity
<1>5. CASE StopTimeUpdate
  <2>1. message' = message /\ entity' = entity
    BY <1>5 DEF StopTimeUpdate, message, entity
  <2>2. events' \in Seq(Events)
    BY <1>5, StopYields
  <2>3. stop_time_update.arrival \in Int64 \cup {None}
        /\ stop_time_update.departure \in Int64 \cup {None}
    BY <1>5, StopType DEF StopTimeUpdate
  <2>4. previous_arrival' \in Int64 \cup {None} /\ previous_departure' \in Int64 \cup {None}
    BY <1>5, <2>3 DEF StopTimeUpdate, advanced, TypeInv
  <2>5. entity.trip_update \in TripUpdate
    BY <1>5, EntityType DEF StopTimeUpdate, InEntity, TypeInv
  <2>6. Len(entity.trip_update.stop_time_update) \in Nat
    BY <2>5 DEF TripUpdate
  <2>7. QED
    <3>1. /\ feed' = feed /\ n' = n /\ pc = "stops" /\ pc' = pc
          /\ index' = index /\ reported' = reported /\ position' = position + 1
          /\ position <= Len(entity.trip_update.stop_time_update)
      BY <1>5 DEF StopTimeUpdate
    <3>2. QED
      BY <2>1, <2>2, <2>4, <2>6, <3>1 DEF TypeInv, InEntity
<1>6. CASE EndTrip
  <2>1. message' = message
    BY <1>6 DEF EndTrip, message
  <2>2. QED
    BY <1>6, <2>1 DEF EndTrip, TypeInv, InEntity
<1>7. CASE Vehicle
  <2>1. message' = message /\ events' \in Seq(Events)
    BY <1>7, OthersYield DEF Vehicle, message
  <2>2. QED
    BY <1>7, <2>1 DEF Vehicle, TypeInv, InEntity
<1>8. CASE AlertBound
  <2>1. message' = message /\ events' \in Seq(Events)
    BY <1>8, OthersYield DEF AlertBound, message
  <2>2. QED
    BY <1>8, <2>1 DEF AlertBound, TypeInv, InEntity
<1>9. CASE EndEntity
  <2>1. message' = message
    BY <1>9 DEF EndEntity, message
  <2>2. QED
    BY <1>9, <2>1 DEF EndEntity, TypeInv, InEntity
<1>10. CASE EndMessage
  <2>1. feed' = feed /\ n' \in 1..Len(feed)
    BY <1>0, <1>10 DEF EndMessage
  <2>2. Len(message'.entity) \in Nat
    <3>1. message' \in Message
      BY <1>0, <2>1 DEF message
    <3>2. QED
      BY <3>1 DEF Message
  <2>3. reported' \in Seq(Seq(Events)) /\ Len(reported') = Len(reported) + 1
    BY <1>10 DEF EndMessage, TypeInv
  <2>4. Len(reported') = IF pc' = "done" THEN n' ELSE n' - 1
    BY <1>0, <1>10, <2>3 DEF EndMessage, TypeInv
  <2>5. events' = <<>> /\ index' = 0 /\ pc' \in {"header", "done"}
    BY <1>10 DEF EndMessage
  <2>6. QED
    <3>1. /\ position' = position /\ previous_arrival' = previous_arrival
          /\ previous_departure' = previous_departure
      BY <1>10 DEF EndMessage
    <3>2. index' \in 0..Len(message'.entity)
      BY <2>2, <2>5
    <3>3. <<>> \in Seq(Events)
      OBVIOUS
    <3> HIDE DEF message, entity
    <3>4. QED
      BY <2>1, <2>3, <2>4, <2>5, <3>1, <3>2, <3>3 DEF TypeInv, InEntity
<1>11. CASE UNCHANGED vars
  BY <1>11 DEF vars, TypeInv, InEntity, message, entity
<1>12. QED
  BY <1>1, <1>2, <1>3, <1>4, <1>5, <1>6, <1>7, <1>8, <1>9, <1>10, <1>11 DEF Next

\* Every variable keeps its type.
THEOREM TypesHold == Spec => []TypeInv
BY TypeInit, TypeNext, PTL DEF Spec

-----------------------------------------------------------------------------
\* The order of a trip's times.

\* Climbs, of the first m stops.
ClimbsTo(stops, m) ==
  /\ \A i, j \in 1..m : i < j =>
       \A t \in Times(stops[i]), u \in Times(stops[j]) : t < u
  /\ \A i \in 1..m :
       stops[i].arrival # None /\ stops[i].departure # None =>
         stops[i].arrival <= stops[i].departure

LEMMA ClimbsIsClimbsTo ==
  ASSUME NEW stops \in Seq(Stop), NEW m \in 0..Len(stops)
  PROVE  Climbs(SubSeq(stops, 1, m)) <=> ClimbsTo(stops, m)
<1> DEFINE some == SubSeq(stops, 1, m)
<1>1. DOMAIN some = 1..m /\ \A i \in 1..m : some[i] = stops[i]
  OBVIOUS
<1> HIDE DEF some
<1>2. Climbs(some) <=> ClimbsTo(stops, m)
  BY <1>1 DEF Climbs, ClimbsTo
<1>3. QED
  BY <1>2 DEF some

\* What is carried is the time of some earlier stop; and while the trip is
\* silent, one of the two is as late as any time of any earlier stop.
Carried(stops, m) ==
  /\ previous_arrival # None => \E i \in 1..m : previous_arrival = stops[i].arrival
  /\ previous_departure # None => \E i \in 1..m : previous_departure = stops[i].departure
  /\ Quiet(events, index) =>
       \A i \in 1..m : \A t \in Times(stops[i]) :
         \/ previous_arrival # None /\ t <= previous_arrival
         \/ previous_departure # None /\ t <= previous_departure
  /\ Quiet(events, index) <=> ClimbsTo(stops, m)

OrderInv ==
  /\ \A e \in Elems(events) : e.entity <= index
  /\ pc = "trip_update" => \A e \in Elems(events) : e.entity < index
  /\ pc = "stops" => Carried(entity.trip_update.stop_time_update, position - 1)

\* One stop more: it is in order with what is carried exactly when it is in
\* order with everything before it.
LEMMA CarriedNext ==
  ASSUME TypeInv, OrderInv, StopTimeUpdate
  PROVE  Carried(entity.trip_update.stop_time_update, position - 1)'
<1> DEFINE S == entity.trip_update.stop_time_update
           m == position - 1
           a == stop_time_update.arrival
           d == stop_time_update.departure
<1>1. S \in Seq(Stop)
  BY EntityType DEF StopTimeUpdate, InEntity, TypeInv, TripUpdate
<1>2. position \in 1..Len(S) /\ m \in 0..Len(S)
  BY <1>1 DEF StopTimeUpdate, TypeInv
<1>3. a = S[position].arrival /\ d = S[position].departure
  BY DEF stop_time_update
<1>4. /\ \A i \in 1..Len(S) : S[i].arrival \in Int \cup {None}
      /\ \A i \in 1..Len(S) : S[i].departure \in Int \cup {None}
  <2> HIDE DEF S
  <2>1. \A i \in 1..Len(S) : S[i] \in Stop
    BY <1>1
  <2>2. QED
    BY <2>1 DEF Stop, Int64
<1>5. Carried(S, m)
  BY DEF StopTimeUpdate, OrderInv
<1>6. /\ previous_arrival' = advanced(a, previous_arrival)
      /\ previous_departure' = advanced(d, previous_departure)
      /\ index' = index /\ feed' = feed /\ n' = n /\ position' = position + 1
  BY DEF StopTimeUpdate
<1>7. S' = S
  BY <1>6 DEF entity, message
<1>8. Quiet(events', index) <=> Quiet(events, index) /\ InOrder(a, d)
  BY StopYields
<1>9. /\ previous_arrival \in Int \cup {None}
      /\ previous_departure \in Int \cup {None}
  BY DEF TypeInv, Int64
<1>10. None \notin Int
  BY WordAssumption
<1>11. (position - 1)' = position
  BY <1>2, <1>6
<1> HIDE DEF S, a, d
<1>12. a \in Int \cup {None} /\ d \in Int \cup {None}
  BY <1>2, <1>3, <1>4
<1>13. Times(S[position]) = {a, d} \ {None}
  BY <1>3 DEF Times
<1>14. /\ previous_arrival' # None =>
            \E i \in 1..position : previous_arrival' = S[i].arrival
       /\ previous_departure' # None =>
            \E i \in 1..position : previous_departure' = S[i].departure
  BY <1>2, <1>3, <1>5, <1>6 DEF Carried, advanced
<1>15. ASSUME ClimbsTo(S, position) PROVE ClimbsTo(S, m) /\ InOrder(a, d)
  <2>1. ClimbsTo(S, m)
    BY <1>2, <1>15 DEF ClimbsTo
  <2>2. \A i \in 1..m : \A t \in Times(S[i]), u \in Times(S[position]) : t < u
    BY <1>2, <1>15 DEF ClimbsTo
  <2>3. previous_arrival # None => \A u \in Times(S[position]) : previous_arrival < u
    <3>1. SUFFICES ASSUME previous_arrival # None
                   PROVE  \A u \in Times(S[position]) : previous_arrival < u
      OBVIOUS
    <3>2. PICK i \in 1..m : previous_arrival = S[i].arrival
      BY <1>5, <3>1 DEF Carried
    <3>3. previous_arrival \in Times(S[i])
      BY <3>1, <3>2 DEF Times
    <3>4. QED
      BY <2>2, <3>3
  <2>4. previous_departure # None => \A u \in Times(S[position]) : previous_departure < u
    <3>1. SUFFICES ASSUME previous_departure # None
                   PROVE  \A u \in Times(S[position]) : previous_departure < u
      OBVIOUS
    <3>2. PICK i \in 1..m : previous_departure = S[i].departure
      BY <1>5, <3>1 DEF Carried
    <3>3. previous_departure \in Times(S[i])
      BY <3>1, <3>2 DEF Times
    <3>4. QED
      BY <2>2, <3>3
  <2>5. a # None /\ d # None => a <= d
    BY <1>2, <1>3, <1>15 DEF ClimbsTo
  <2>6. QED
    BY <1>9, <1>12, <1>13, <2>1, <2>3, <2>4, <2>5 DEF InOrder
<1>16. ASSUME Quiet(events, index), InOrder(a, d)
       PROVE  /\ ClimbsTo(S, position)
              /\ \A i \in 1..position : \A t \in Times(S[i]) :
                   \/ previous_arrival' # None /\ t <= previous_arrival'
                   \/ previous_departure' # None /\ t <= previous_departure'
  <2>1. /\ ClimbsTo(S, m)
        /\ \A i \in 1..m : \A t \in Times(S[i]) :
             \/ previous_arrival # None /\ t <= previous_arrival
             \/ previous_departure # None /\ t <= previous_departure
    BY <1>5, <1>16 DEF Carried
  <2>2. \A i \in 1..m : \A t \in Times(S[i]) : t \in Int
    BY <1>2, <1>4 DEF Times
  <2>3. /\ previous_arrival # None => \A u \in Times(S[position]) : previous_arrival < u
        /\ previous_departure # None => \A u \in Times(S[position]) : previous_departure < u
    BY <1>9, <1>12, <1>13, <1>16 DEF InOrder
  <2>4. \A u \in Times(S[position]) : u \in Int
    BY <1>12, <1>13
  <2>5. \A i \in 1..m : \A t \in Times(S[i]), u \in Times(S[position]) : t < u
    BY <1>9, <2>1, <2>2, <2>3, <2>4
  <2>6. a # None /\ d # None => a <= d
    BY <1>16 DEF InOrder
  <2>7. \A i \in 1..position : i = position \/ i \in 1..m
    BY <1>2
  <2>8. ClimbsTo(S, position)
    BY <1>2, <1>3, <2>1, <2>5, <2>6, <2>7 DEF ClimbsTo
  <2>9. /\ previous_arrival # None =>
             previous_arrival' # None /\ previous_arrival <= previous_arrival'
        /\ previous_departure # None =>
             previous_departure' # None /\ previous_departure <= previous_departure'
    BY <1>6, <1>9, <1>10, <1>12, <1>16 DEF advanced, InOrder
  <2>10. previous_arrival' \in Int \cup {None} /\ previous_departure' \in Int \cup {None}
    BY <1>6, <1>9, <1>12 DEF advanced
  <2>11. \A i \in 1..m : \A t \in Times(S[i]) :
           \/ previous_arrival' # None /\ t <= previous_arrival'
           \/ previous_departure' # None /\ t <= previous_departure'
    BY <1>9, <1>10, <2>1, <2>2, <2>9, <2>10
  <2>12. \A t \in Times(S[position]) :
           \/ previous_arrival' # None /\ t <= previous_arrival'
           \/ previous_departure' # None /\ t <= previous_departure'
    BY <1>6, <1>12, <1>13 DEF advanced
  <2>13. QED
    BY <2>7, <2>8, <2>11, <2>12
<1>17. Quiet(events, index) <=> ClimbsTo(S, m)
  BY <1>5 DEF Carried
<1>18. Quiet(events', index) <=> ClimbsTo(S, position)
  BY <1>8, <1>15, <1>16, <1>17
<1>19. Carried(S, position - 1)' <=>
         /\ previous_arrival' # None => \E i \in 1..position : previous_arrival' = S[i].arrival
         /\ previous_departure' # None =>
              \E i \in 1..position : previous_departure' = S[i].departure
         /\ Quiet(events', index) =>
              \A i \in 1..position : \A t \in Times(S[i]) :
                \/ previous_arrival' # None /\ t <= previous_arrival'
                \/ previous_departure' # None /\ t <= previous_departure'
         /\ Quiet(events', index) <=> ClimbsTo(S, position)
  BY <1>6, <1>7, <1>11 DEF Carried, Quiet
<1>20. Carried(S, position - 1)'
  BY <1>8, <1>14, <1>16, <1>18, <1>19
<1>21. QED
  BY <1>20 DEF S

LEMMA OrderNext == TypeInv /\ OrderInv /\ [Next]_vars => OrderInv'
<1> SUFFICES ASSUME TypeInv, OrderInv, [Next]_vars PROVE OrderInv'
  OBVIOUS
<1>0. index \in Nat /\ \A e \in Elems(events) : e.entity \in Nat
  <2>1. index \in Nat /\ events \in Seq(Events)
    BY MessageType DEF TypeInv
  <2>2. \A e \in Elems(events) : e \in Events
    BY <2>1 DEF Elems
  <2>3. \A e \in Events : e.entity \in Nat
    BY DEF Events
  <2>4. QED
    BY <2>1, <2>2, <2>3
<1>1. CASE Header
  <2>1. \A e \in Elems(events') : e.entity = index
    BY <1>1, HeaderStep
  <2>2. index' = index /\ pc' = "entities"
    BY <1>1 DEF Header, MissingHeaderTimestamp, HeaderTimestamp
  <2>3. QED
    BY <1>0, <2>1, <2>2 DEF OrderInv
<1>2. CASE NextEntity
  <2>1. index' = index + 1 /\ pc' = "trip_update" /\ events' = events
    BY <1>2 DEF NextEntity
  <2>2. QED
    BY <1>0, <2>1 DEF OrderInv, Elems
<1>3. CASE NoTripUpdate \/ EndTrip \/ EndEntity
  <2>1. index' = index /\ pc' \notin {"stops", "trip_update"} /\ events' = events
    BY <1>3 DEF NoTripUpdate, EndTrip, EndEntity
  <2>2. QED
    BY <2>1 DEF OrderInv, Elems
<1>4. CASE Vehicle \/ AlertBound
  <2>1. index' = index /\ pc' \notin {"stops", "trip_update"}
    BY <1>4 DEF Vehicle, AlertBound
  <2>2. \A e \in Elems(events') : e \in Elems(events) \/ e.entity = index
    BY <1>4, OthersYield
  <2>3. QED
    BY <1>0, <2>1, <2>2 DEF OrderInv
<1>5. CASE BeginTrip
  <2>1. /\ index' = index /\ pc' = "stops" /\ position' = 1
        /\ previous_arrival' = None /\ previous_departure' = None
        /\ pc = "trip_update"
    BY <1>5 DEF BeginTrip
  <2>2. \A e \in Elems(events') :
          e \in Elems(events) \/ (e.entity = index /\ e.rule \notin {"E022", "E025"})
    BY <1>5, OthersYield
  <2>3. \A e \in Elems(events') : e.entity <= index
    BY <1>0, <2>2 DEF OrderInv
  <2>4. \A e \in Elems(events) : e.entity # index
    BY <1>0, <2>1 DEF OrderInv
  <2>5. Quiet(events', index')
    BY <2>1, <2>2, <2>4 DEF Quiet
  <2> DEFINE S == entity.trip_update.stop_time_update
  <2>6. ClimbsTo(S', 0)
    BY DEF ClimbsTo
  <2>7. 1..0 = {} /\ (position - 1)' = 0
    BY <2>1
  <2> HIDE DEF S
  <2>8. Carried(S, position - 1)'
    BY <2>1, <2>5, <2>6, <2>7 DEF Carried, Quiet
  <2>9. QED
    BY <2>1, <2>3, <2>8 DEF OrderInv, S
<1>6. CASE StopTimeUpdate
  <2>1. index' = index /\ pc' = "stops"
    BY <1>6 DEF StopTimeUpdate
  <2>2. \A e \in Elems(events') : e \in Elems(events) \/ e.entity = index
    BY <1>6, StopYields
  <2>3. Carried(entity.trip_update.stop_time_update, position - 1)'
    BY <1>6, CarriedNext
  <2>4. QED
    BY <1>0, <2>1, <2>2, <2>3 DEF OrderInv
<1>7. CASE EndMessage
  <2>1. events' = <<>> /\ pc' \in {"header", "done"}
    BY <1>7 DEF EndMessage
  <2>2. Elems(events') = {}
    BY <2>1 DEF Elems
  <2>3. QED
    BY <2>1, <2>2 DEF OrderInv
<1>8. CASE UNCHANGED vars
  <2>1. /\ events' = events /\ index' = index /\ pc' = pc /\ position' = position
        /\ feed' = feed /\ n' = n
        /\ previous_arrival' = previous_arrival /\ previous_departure' = previous_departure
    BY <1>8 DEF vars
  <2>2. QED
    BY <2>1 DEF OrderInv, Carried, Quiet, Elems, entity, message
<1>9. QED
  BY <1>1, <1>2, <1>3, <1>4, <1>5, <1>6, <1>7, <1>8 DEF Next

\* Two carried values judge a trip of any length: it is silent under E022 and
\* E025 exactly when its times climb from the first stop to the last.
THEOREM TripsAreJudgedWhole == Spec => []SilentExactlyWhenTimesClimb
<1>1. Init => OrderInv
  BY DEF Init, OrderInv, Elems
<1>2. TypeInv /\ OrderInv => SilentExactlyWhenTimesClimb
  <2>1. SUFFICES ASSUME TypeInv, OrderInv, pc = "stops"
                 PROVE  Climbs(SubSeq(entity.trip_update.stop_time_update, 1, position - 1))
                          <=> ~\E i \in DOMAIN events :
                                  /\ events[i].rule \in {"E022", "E025"}
                                  /\ events[i].entity = index
    BY DEF SilentExactlyWhenTimesClimb
  <2> DEFINE S == entity.trip_update.stop_time_update
  <2>2. S \in Seq(Stop)
    BY <2>1, EntityType DEF InEntity, TypeInv, TripUpdate
  <2>3. position - 1 \in 0..Len(S)
    BY <2>1, <2>2 DEF TypeInv
  <2>4. Quiet(events, index) <=> ClimbsTo(S, position - 1)
    BY <2>1 DEF OrderInv, Carried
  <2> HIDE DEF S
  <2>5. Climbs(SubSeq(S, 1, position - 1)) <=> Quiet(events, index)
    BY <2>2, <2>3, <2>4, ClimbsIsClimbsTo
  <2>6. QED
    BY <2>5 DEF S, Quiet, Elems
<1>3. QED
  BY <1>1, <1>2, TypesHold, OrderNext, PTL DEF Spec

-----------------------------------------------------------------------------
\* The header timestamps of a role's messages.

Halts == {"E017", "E018", "E048", "W001"}

Stamp(i) == int64(feed[i].timestamp)

\* What the walk has said of a header, a silent one having a timestamp past the
\* one before it, where there was one.
Judged(found, i) ==
  Said(found, Halts, "header")
    \/ (Stamp(i) # 0 /\ (i > 1 /\ Stamp(i - 1) # 0 => Stamp(i - 1) < Stamp(i)))

HeaderInv ==
  /\ pc \notin {"header", "done"} => Judged(events, n)
  /\ \A i \in DOMAIN reported : Judged(reported[i], i)
  /\ HeadersClimb

LEMMA SaidGrows ==
  ASSUME NEW s, NEW t, Elems(s) \subseteq Elems(t), NEW rules, NEW part, Said(s, rules, part)
  PROVE  Said(t, rules, part)
BY DEF Said, Elems

LEMMA HeaderNext == TypeInv /\ HeaderInv /\ [Next]_vars => HeaderInv'
<1> SUFFICES ASSUME TypeInv, HeaderInv, [Next]_vars PROVE HeaderInv'
  OBVIOUS
<1>0. \A i \in 1..Len(feed) : Stamp(i) \in Int
  <2>1. SUFFICES ASSUME NEW i \in 1..Len(feed) PROVE Stamp(i) \in Int
    OBVIOUS
  <2>2. feed[i] \in Message
    BY DEF TypeInv
  <2>3. feed[i].timestamp \in Int
    BY <2>2, WordAssumption DEF Message, UInt64
  <2>4. QED
    BY <2>3, Narrowed DEF Stamp, Int64
<1>1. CASE Header
  <2>1. feed' = feed /\ n' = n /\ reported' = reported /\ pc' = "entities"
    BY <1>1 DEF Header, MissingHeaderTimestamp, HeaderTimestamp
  <2>2. Said(events', Halts, "header")
          \/ (header_timestamp # 0 /\ (previous = None \/ previous < header_timestamp))
    BY <1>1, HeaderStep DEF Halts
  <2>3. header_timestamp = Stamp(n)
    BY DEF header_timestamp, message, Stamp
  <2>4. n > 1 /\ Stamp(n - 1) # 0 => previous = Stamp(n - 1) /\ previous # None
    BY <1>0, WordAssumption DEF previous, Stamp, TypeInv
  <2>5. Judged(events', n)
    BY <2>2, <2>3, <2>4 DEF Judged
  <2>6. QED
    BY <2>1, <2>5 DEF HeaderInv, Judged, HeadersClimb, Stamp
<1>2. CASE NextEntity \/ NoTripUpdate \/ EndTrip \/ EndEntity
  <2>1. /\ feed' = feed /\ n' = n /\ reported' = reported /\ events' = events
        /\ pc \notin {"header", "done"}
    BY <1>2 DEF NextEntity, NoTripUpdate, EndTrip, EndEntity
  <2>2. QED
    BY <2>1 DEF HeaderInv, Judged, HeadersClimb, Stamp
<1>3. CASE BeginTrip \/ Vehicle \/ AlertBound \/ StopTimeUpdate
  <2>1. /\ feed' = feed /\ n' = n /\ reported' = reported
        /\ pc \notin {"header", "done"}
    BY <1>3 DEF BeginTrip, Vehicle, AlertBound, StopTimeUpdate
  <2>2. Elems(events) \subseteq Elems(events')
    BY <1>3, OthersYield, StopYields
  <2>3. Judged(events, n)
    BY <2>1 DEF HeaderInv
  <2>4. Judged(events', n)
    BY <2>2, <2>3, SaidGrows DEF Judged
  <2>5. QED
    BY <2>1, <2>4 DEF HeaderInv, Judged, HeadersClimb, Stamp
<1>4. CASE EndMessage
  <2>1. /\ feed' = feed /\ pc = "entities" /\ pc' \in {"header", "done"}
        /\ reported' = Append(reported, events)
    BY <1>4 DEF EndMessage
  <2>2. reported \in Seq(Seq(Events)) /\ n \in 1..Len(feed) /\ n \in Nat
        /\ Len(reported) = n - 1
    BY <2>1 DEF TypeInv
  <2>3. /\ DOMAIN reported = 1..(n - 1) /\ DOMAIN reported' = 1..n
        /\ reported'[n] = events
        /\ \A i \in 1..(n - 1) : reported'[i] = reported[i]
    BY <2>1, <2>2
  <2>4. \A i \in 1..n : Judged(reported'[i], i)
    BY <2>1, <2>2, <2>3 DEF HeaderInv
  <2>5. ASSUME NEW i \in 1..n, NEW j \in 1..n, i < j, Stamp(i) # 0,
               \A k \in (i + 1)..j : ~Said(reported'[k], Halts, "header")
        PROVE  Stamp(i) < Stamp(j)
    <3>1. CASE j < n
      <4>1. i \in DOMAIN reported /\ j \in DOMAIN reported
        BY <2>2, <2>3, <2>5, <3>1
      <4>2. \A k \in (i + 1)..j : ~Said(reported[k], Halts, "header")
        BY <2>2, <2>3, <2>5, <3>1
      <4>3. HeadersClimb
        BY DEF HeaderInv
      <4>4. QED
        BY <2>5, <4>1, <4>2, <4>3 DEF HeadersClimb, Halts, Stamp
    <3>2. CASE j = n
      <4>1. ~Said(events, Halts, "header")
        BY <2>3, <2>5, <3>2
      <4>2. n - 1 \in 1..n /\ n > 1 /\ i <= n - 1
        BY <2>2, <2>5, <3>2
      <4>3. Stamp(n - 1) # 0 => Stamp(n - 1) < Stamp(n)
        BY <2>1, <4>1, <4>2 DEF HeaderInv, Judged
      <4>4. CASE i = n - 1
        BY <2>5, <3>2, <4>3, <4>4
      <4>5. CASE i < n - 1
        <5>1. i \in DOMAIN reported /\ n - 1 \in DOMAIN reported
          BY <2>2, <2>3, <4>2, <4>5
        <5>2. \A k \in (i + 1)..(n - 1) : ~Said(reported[k], Halts, "header")
          BY <2>2, <2>3, <2>5, <3>2
        <5>3. HeadersClimb
          BY DEF HeaderInv
        <5>4. Stamp(i) < Stamp(n - 1)
          BY <2>5, <4>5, <5>1, <5>2, <5>3 DEF HeadersClimb, Halts, Stamp
        <5>5. n - 1 \in (i + 1)..(n - 1)
          BY <2>2, <4>2, <4>5
        <5>6. Stamp(n - 1) # 0
          BY <5>1, <5>2, <5>5 DEF HeaderInv, Judged
        <5>7. Stamp(i) \in Int /\ Stamp(n - 1) \in Int /\ Stamp(n) \in Int
          BY <1>0, <2>2, <4>2
        <5>8. QED
          BY <3>2, <4>3, <5>4, <5>6, <5>7
      <4>6. QED
        BY <2>2, <4>2, <4>4, <4>5
    <3>3. QED
      BY <2>2, <3>1, <3>2
  <2>6. HeadersClimb'
    BY <2>1, <2>3, <2>5 DEF HeadersClimb, Halts, Stamp
  <2>7. (\A i \in DOMAIN reported : Judged(reported[i], i))'
    BY <2>1, <2>3, <2>4 DEF Judged, Stamp
  <2>8. QED
    BY <2>1, <2>6, <2>7 DEF HeaderInv
<1>5. CASE UNCHANGED vars
  BY <1>5 DEF vars, HeaderInv, Judged, HeadersClimb, Stamp
<1>6. QED
  BY <1>1, <1>2, <1>3, <1>4, <1>5 DEF Next

\* As long as a role's messages are told neither of a missing header timestamp
\* nor of one that repeats or goes back, they climb over the whole run.
THEOREM HeadersAreInOrder == Spec => []HeadersClimb
<1>1. Init => HeaderInv
  BY DEF Init, HeaderInv, HeadersClimb
<1>2. HeaderInv => HeadersClimb
  BY DEF HeaderInv
<1>3. QED
  BY <1>1, <1>2, TypesHold, HeaderNext, PTL DEF Spec

-----------------------------------------------------------------------------
\* The age of a message and of its entities.

\* Whole seconds beyond a tolerance are milliseconds from one second past it on.
LEMMA FutureInMillis ==
  ASSUME NEW millis \in Nat, NEW t \in Int, NEW tolerance \in Nat
  PROVE  is_in_future(millis, t, tolerance)
           <=> -age_millis(millis, t) >= (tolerance + 1) * MILLIS_PER_SECOND
<1> DEFINE a == -age_millis(millis, t)
<1>1. MILLIS_PER_SECOND \in Nat \ {0}
  BY WordAssumption
<1>2. a \in Int /\ (age_millis(millis, t) < 0 <=> a > 0)
  BY <1>1 DEF age_millis
<1>3. is_in_future(millis, t, tolerance) <=> a > 0 /\ a \div MILLIS_PER_SECOND > tolerance
  BY <1>2 DEF is_in_future
<1> HIDE DEF a
<1>4. a \div MILLIS_PER_SECOND > tolerance <=> a >= (tolerance + 1) * MILLIS_PER_SECOND
  BY <1>1, <1>2
<1>5. (tolerance + 1) * MILLIS_PER_SECOND > 0
  BY <1>1
<1>6. (tolerance + 1) * MILLIS_PER_SECOND \in Int
  BY <1>1
<1>7. QED
  BY <1>2, <1>3, <1>4, <1>5, <1>6 DEF a

\* What is ahead of the clock is ahead of a header that is not.
LEMMA AheadOfTheHeader ==
  ASSUME TypeInv, NEW t \in Int64,
         is_in_future(message.millis, t, IN_FUTURE_TOLERANCE_SECONDS),
         ~is_in_future(message.millis, header_timestamp, header_tolerance)
  PROVE  t > header_timestamp
<1> DEFINE h == header_timestamp
           m == message.millis
           M == MILLIS_PER_SECOND
           B == (IN_FUTURE_TOLERANCE_SECONDS + 1) * M
<1>1. h \in Int /\ t \in Int /\ m \in Nat
  BY MessageType DEF TypeInv, Int64
<1>2. M \in Nat \ {0} /\ IN_FUTURE_TOLERANCE_SECONDS \in Nat
  BY WordAssumption
<1>3. -(m - t * M) >= B /\ ~(-(m - h * M) >= B)
  BY <1>1, <1>2, FutureInMillis DEF age_millis, header_tolerance
<1>4. B \in Int
  BY <1>2
<1> HIDE DEF h, m, M, B
<1>5. t <= h => t * M <= h * M
  BY <1>1, <1>2
<1>6. t * M \in Int /\ h * M \in Int
  BY <1>1, <1>2
<1>7. QED
  BY <1>1, <1>3, <1>4, <1>5, <1>6 DEF h

\* Two POSIX times are too near each other for their difference to wrap.
LEMMA NoWrap ==
  ASSUME NEW t \in Int, NEW u \in Int, is_posix(t), is_posix(u), t > u
  PROVE  int64(t - u) = t - u
<1>1. HalfWord \in Nat \ {0} /\ MIN_POSIX_TIME \in Nat /\ MAX_POSIX_TIME \in Nat
      /\ MAX_POSIX_TIME < HalfWord
  BY WordAssumption
<1> DEFINE d == t - u
<1>2. d \in Nat /\ d < HalfWord
  BY <1>1 DEF is_posix
<1> HIDE DEF d
<1>3. ((d + HalfWord) % (2 * HalfWord)) - HalfWord = d
  BY <1>1, <1>2
<1>4. QED
  BY <1>3 DEF d, int64

OfTheFuture == {"E050", "E001", "E048", "W001"}

\* What a header's silence tells of it.
LEMMA HeaderTells ==
  ASSUME TypeInv, Header
  PROVE  /\ \A e \in Elems(events') : e.part = "header"
         /\ ~Said(events', OfTheFuture, "header") =>
              /\ is_posix(header_timestamp)
              /\ ~is_in_future(message.millis, header_timestamp, header_tolerance)
         /\ ~Said(events', Rules, "header") =>
              /\ age_millis(message.millis, header_timestamp)
                   <= MAX_AGE_SECONDS * MILLIS_PER_SECOND
              /\ previous # None =>
                   /\ header_timestamp > previous
                   /\ int64(header_timestamp - previous) <= MINIMUM_REFRESH_INTERVAL_SECONDS
<1>0. /\ "header" \in Parts
      /\ {"E001", "E048", "W001", "W007", "W008", "E017", "E018", "E050"} \subseteq Rules
      /\ index \in Nat /\ position \in Nat
  BY DEF Rules, Parts, TypeInv
<1>1. \A rule \in Rules : /\ Event(rule, "header").rule = rule
                          /\ Event(rule, "header").part = "header"
  BY DEF Event
<1>2. CASE MissingHeaderTimestamp
  <2>1. PICK rule \in {"E048", "W001"} : events' = <<Event(rule, "header")>>
    BY <1>2 DEF MissingHeaderTimestamp
  <2>2. Elems(events') = {Event(rule, "header")}
    BY <2>1 DEF Elems
  <2>3. events'[1] = Event(rule, "header") /\ 1 \in DOMAIN events'
    BY <2>1
  <2>4. Said(events', OfTheFuture, "header") /\ Said(events', Rules, "header")
    BY <1>0, <1>1, <2>3 DEF Said, OfTheFuture
  <2>5. QED
    BY <1>0, <1>1, <2>2, <2>4
<1>3. CASE HeaderTimestamp
  <2> DEFINE x == ~is_posix(header_timestamp)
             y == /\ is_posix(header_timestamp)
                  /\ age_millis(message.millis, header_timestamp)
                       > MAX_AGE_SECONDS * MILLIS_PER_SECOND
             z == /\ is_posix(header_timestamp)
                  /\ is_in_future(message.millis, header_timestamp, header_tolerance)
             a == Where(x, "E001", "header")
             b == Where(y, "W008", "header")
             c == Where(z, "E050", "header")
  <2>1. events' = a \o b \o c \o against_previous
    BY <1>3 DEF HeaderTimestamp
  <2> HIDE DEF x, y, z
  <2>2. a \in Seq(Events) /\ Elems(a) = IF x THEN {Event("E001", "header")} ELSE {}
    BY <1>0, ElemsWhere
  <2>3. b \in Seq(Events) /\ Elems(b) = IF y THEN {Event("W008", "header")} ELSE {}
    BY <1>0, ElemsWhere
  <2>4. c \in Seq(Events) /\ Elems(c) = IF z THEN {Event("E050", "header")} ELSE {}
    BY <1>0, ElemsWhere
  <2> DEFINE abc == a \o b \o c
  <2> HIDE DEF a, b, c
  <2>5. abc \in Seq(Events) /\ Elems(abc) = Elems(a) \cup Elems(b) \cup Elems(c)
    BY <2>2, <2>3, <2>4, ElemsConcat3
  <2>6. events' = abc \o against_previous
    BY <2>1
  <2> HIDE DEF abc
  <2>7. against_previous \in Seq(Events)
    BY HeaderYields
  <2>8. Elems(events') = Elems(a) \cup Elems(b) \cup Elems(c) \cup Elems(against_previous)
    BY <2>5, <2>6, <2>7, ElemsConcat
  <2>9. \A e \in Elems(events') : e.part = "header"
    BY <1>0, <1>1, <2>2, <2>3, <2>4, <2>8, HeaderYields
  <2>10. ASSUME NEW rules, NEW rule \in Rules \cap rules, Event(rule, "header") \in Elems(events')
         PROVE  Said(events', rules, "header")
    BY <1>1, <2>10 DEF Said, Elems
  <2>11. ASSUME ~Said(events', OfTheFuture, "header") PROVE ~x /\ ~z
    <3>1. {"E001", "E050"} \subseteq Rules \cap OfTheFuture
      BY <1>0 DEF OfTheFuture
    <3>2. /\ Event("E001", "header") \notin Elems(events')
          /\ Event("E050", "header") \notin Elems(events')
      BY <2>10, <2>11, <3>1
    <3>3. QED
      BY <2>2, <2>4, <2>8, <3>2
  <2>12. ASSUME ~Said(events', Rules, "header")
         PROVE  /\ ~x /\ ~y
                /\ Event("E017", "header") \notin Elems(against_previous)
                /\ Event("E018", "header") \notin Elems(against_previous)
                /\ Event("W007", "header") \notin Elems(against_previous)
    <3>1. \A rule \in Rules : Event(rule, "header") \notin Elems(events')
      BY <2>10, <2>12
    <3>2. QED
      BY <1>0, <2>2, <2>3, <2>8, <3>1
  <2>13. header_timestamp \in Int /\ (previous # None => previous \in Int)
    BY MessageType DEF TypeInv, Int64
  <2>14. ASSUME ~Said(events', Rules, "header"), previous # None
         PROVE  /\ header_timestamp > previous
                /\ int64(header_timestamp - previous) <= MINIMUM_REFRESH_INTERVAL_SECONDS
    <3>1. header_timestamp > previous
      BY <2>12, <2>13, <2>14, HeaderYields
    <3>2. ~(int64(header_timestamp - previous) > MINIMUM_REFRESH_INTERVAL_SECONDS)
      BY <2>12, <2>14, <3>1, HeaderYields
    <3>3. int64(header_timestamp - previous) \in Int
      BY <2>13, <2>14, Narrowed DEF Int64
    <3>4. QED
      BY <3>1, <3>2, <3>3, WordAssumption
  <2>15. ASSUME ~Said(events', Rules, "header")
         PROVE  age_millis(message.millis, header_timestamp)
                  <= MAX_AGE_SECONDS * MILLIS_PER_SECOND
    <3>1. is_posix(header_timestamp) /\ ~y
      BY <2>12, <2>15 DEF x
    <3>2. /\ message.millis \in Int
          /\ MILLIS_PER_SECOND \in Int /\ MAX_AGE_SECONDS \in Int
      BY MessageType, WordAssumption DEF TypeInv
    <3>3. /\ age_millis(message.millis, header_timestamp) \in Int
          /\ MAX_AGE_SECONDS * MILLIS_PER_SECOND \in Int
      BY <2>13, <3>2 DEF age_millis
    <3>4. QED
      BY <3>1, <3>3 DEF y
  <2>16. QED
    BY <2>9, <2>11, <2>14, <2>15 DEF x, z
<1>4. QED
  BY <1>2, <1>3 DEF Header

\* A header of which the events say nothing about the clock is a POSIX time that
\* is not ahead of it.
Calm(found) ==
  ~Said(found, OfTheFuture, "header") =>
    /\ is_posix(header_timestamp)
    /\ ~is_in_future(message.millis, header_timestamp, header_tolerance)

\* A header of which the events say nothing is fresh.
Fresh(found, i) ==
  ~Said(found, Rules, "header") =>
    LET t   == int64(feed[i].timestamp)
        age == age_millis(feed[i].millis, t)
    IN  /\ is_posix(t)
        /\ age <= MAX_AGE_SECONDS * MILLIS_PER_SECOND
        /\ -age < (IN_FUTURE_TOLERANCE_SECONDS + 1) * MILLIS_PER_SECOND
        /\ i > 1 /\ is_posix(int64(feed[i - 1].timestamp)) =>
             t - int64(feed[i - 1].timestamp) \in 1..MINIMUM_REFRESH_INTERVAL_SECONDS

Explained(found) ==
  \A e \in Elems(found) :
    e.rule = "E050" /\ e.part # "header" =>
      \/ Said(found, OfTheFuture, "header")
      \/ \E f \in Elems(found) : f.rule = "E012" /\ f.part = e.part /\ f.entity = e.entity

AgeInv ==
  /\ pc \notin {"header", "done"} => Calm(events) /\ Fresh(events, n)
  /\ \A i \in DOMAIN reported : Fresh(reported[i], i)
  /\ Explained(events)

\* A header that was told nothing is calm and fresh.
LEMMA HeaderIsFresh ==
  ASSUME TypeInv, Header
  PROVE  Calm(events') /\ Fresh(events', n) /\ Explained(events')
<1>1. Calm(events')
  BY HeaderTells DEF Calm
<1>2. Explained(events')
  BY HeaderTells DEF Explained
<1>3. Fresh(events', n)
  <2>1. SUFFICES ASSUME ~Said(events', Rules, "header")
                 PROVE  LET t   == int64(feed[n].timestamp)
                            age == age_millis(feed[n].millis, t)
                        IN  /\ is_posix(t)
                            /\ age <= MAX_AGE_SECONDS * MILLIS_PER_SECOND
                            /\ -age < (IN_FUTURE_TOLERANCE_SECONDS + 1) * MILLIS_PER_SECOND
                            /\ n > 1 /\ is_posix(int64(feed[n - 1].timestamp)) =>
                                 t - int64(feed[n - 1].timestamp)
                                   \in 1..MINIMUM_REFRESH_INTERVAL_SECONDS
    BY DEF Fresh
  <2> DEFINE t == header_timestamp
             m == message.millis
             u == int64(feed[n - 1].timestamp)
  <2>2. t = int64(feed[n].timestamp) /\ m = feed[n].millis
    BY DEF header_timestamp, message
  <2>3. t \in Int /\ m \in Nat /\ MILLIS_PER_SECOND \in Nat
        /\ IN_FUTURE_TOLERANCE_SECONDS \in Nat
    BY MessageType, WordAssumption DEF TypeInv, Int64
  <2>4. ~Said(events', OfTheFuture, "header")
    BY <2>1 DEF Said, OfTheFuture, Rules
  <2>5. is_posix(t) /\ ~is_in_future(m, t, IN_FUTURE_TOLERANCE_SECONDS)
    BY <2>4, HeaderTells DEF header_tolerance
  <2>6. age_millis(m, t) <= MAX_AGE_SECONDS * MILLIS_PER_SECOND
    BY <2>1, HeaderTells
  <2>7. -age_millis(m, t) < (IN_FUTURE_TOLERANCE_SECONDS + 1) * MILLIS_PER_SECOND
    <3>1. ~(-age_millis(m, t) >= (IN_FUTURE_TOLERANCE_SECONDS + 1) * MILLIS_PER_SECOND)
      BY <2>3, <2>5, FutureInMillis
    <3>2. /\ -age_millis(m, t) \in Int
          /\ (IN_FUTURE_TOLERANCE_SECONDS + 1) * MILLIS_PER_SECOND \in Int
      BY <2>3 DEF age_millis
    <3>3. QED
      BY <3>1, <3>2
  <2>8. ASSUME n > 1, is_posix(u) PROVE t - u \in 1..MINIMUM_REFRESH_INTERVAL_SECONDS
    <3>1. n - 1 \in 1..Len(feed)
      BY <2>8 DEF TypeInv
    <3>2. feed[n - 1] \in Message
      BY <3>1 DEF TypeInv
    <3>3. feed[n - 1].timestamp \in Int
      BY <3>2, WordAssumption DEF Message, UInt64
    <3>4. u \in Int
      BY <3>3, Narrowed DEF Int64
    <3>5. u # 0 /\ u # None
      BY <2>8, <3>4, WordAssumption DEF is_posix
    <3>6. n # 1
      BY <2>8 DEF TypeInv
    <3>7. previous = u /\ previous # None
      BY <3>5, <3>6 DEF previous
    <3>8. t > u /\ int64(t - u) <= MINIMUM_REFRESH_INTERVAL_SECONDS
      BY <2>1, <3>7, HeaderTells
    <3> HIDE DEF t, u
    <3>9. int64(t - u) = t - u
      BY <2>3, <2>5, <2>8, <3>4, <3>8, NoWrap
    <3>10. QED
      BY <2>3, <3>4, <3>8, <3>9, WordAssumption
  <2> HIDE DEF m
  <2>9. QED
    BY <2>2, <2>5, <2>6, <2>7, <2>8
<1>4. QED
  BY <1>1, <1>2, <1>3

\* An entity that is ahead of the clock under a calm header is ahead of it.
LEMMA GrowthIsExplained ==
  ASSUME TypeInv, Calm(events), Explained(events), Elems(events) \subseteq Elems(events'),
         \A e \in Elems(events') :
           e \in Elems(events)
             \/ (e.entity = index /\ (e.rule = "E050" => InFuture(e.part, events')))
  PROVE  Explained(events')
<1>1. SUFFICES ASSUME NEW e \in Elems(events'), e.rule = "E050", e.part # "header",
                      ~Said(events', OfTheFuture, "header")
               PROVE  \E f \in Elems(events') :
                        f.rule = "E012" /\ f.part = e.part /\ f.entity = e.entity
  BY DEF Explained
<1>2. ~Said(events, OfTheFuture, "header")
  BY <1>1, SaidGrows
<1>3. CASE e \in Elems(events)
  BY <1>1, <1>2, <1>3 DEF Explained
<1>4. CASE e.entity = index /\ InFuture(e.part, events')
  <2>1. PICK t \in Int64 :
          /\ is_in_future(message.millis, t, IN_FUTURE_TOLERANCE_SECONDS)
          /\ header_timestamp # 0 /\ t > header_timestamp =>
               Event("E012", e.part) \in Elems(events')
    BY <1>4 DEF InFuture
  <2>2. /\ is_posix(header_timestamp)
        /\ ~is_in_future(message.millis, header_timestamp, header_tolerance)
    BY <1>2 DEF Calm
  <2>3. t > header_timestamp
    BY <2>1, <2>2, AheadOfTheHeader
  <2>4. header_timestamp # 0
    BY <2>2, WordAssumption DEF is_posix
  <2>5. /\ Event("E012", e.part).rule = "E012" /\ Event("E012", e.part).part = e.part
        /\ Event("E012", e.part).entity = index
    BY DEF Event
  <2>6. QED
    BY <1>4, <2>1, <2>3, <2>4, <2>5
<1>5. QED
  BY <1>1, <1>3, <1>4

LEMMA AgeNext == TypeInv /\ AgeInv /\ [Next]_vars => AgeInv'
<1> SUFFICES ASSUME TypeInv, AgeInv, [Next]_vars PROVE AgeInv'
  OBVIOUS
<1>1. CASE Header
  <2>1. feed' = feed /\ n' = n /\ reported' = reported /\ pc' = "entities"
    BY <1>1 DEF Header, MissingHeaderTimestamp, HeaderTimestamp
  <2>2. QED
    BY <1>1, <2>1, HeaderIsFresh
       DEF AgeInv, Calm, Fresh, Explained, header_timestamp, message
<1>2. CASE NextEntity \/ NoTripUpdate \/ EndTrip \/ EndEntity
  <2>1. /\ feed' = feed /\ n' = n /\ reported' = reported /\ events' = events
        /\ pc \notin {"header", "done"}
    BY <1>2 DEF NextEntity, NoTripUpdate, EndTrip, EndEntity
  <2>2. QED
    BY <2>1 DEF AgeInv, Calm, Fresh, Explained, header_timestamp, message
<1>3. CASE BeginTrip \/ Vehicle \/ AlertBound \/ StopTimeUpdate
  <2>1. /\ feed' = feed /\ n' = n /\ reported' = reported
        /\ pc \notin {"header", "done"}
    BY <1>3 DEF BeginTrip, Vehicle, AlertBound, StopTimeUpdate
  <2>2. Calm(events) /\ Fresh(events, n) /\ Explained(events)
    BY <2>1 DEF AgeInv
  <2>3. Elems(events) \subseteq Elems(events')
    BY <1>3, OthersYield, StopYields
  <2>4. \A e \in Elems(events') :
          e \in Elems(events)
            \/ (e.entity = index /\ (e.rule = "E050" => InFuture(e.part, events')))
    BY <1>3, OthersYield, StopYields
  <2>5. Explained(events')
    BY <2>2, <2>3, <2>4, GrowthIsExplained
  <2>6. Calm(events') /\ Fresh(events', n)
    BY <2>2, <2>3, SaidGrows DEF Calm, Fresh
  <2>7. QED
    BY <2>1, <2>5, <2>6 DEF AgeInv, Calm, Fresh, Explained, header_timestamp, message
<1>4. CASE EndMessage
  <2>1. /\ feed' = feed /\ pc = "entities" /\ pc' \in {"header", "done"}
        /\ reported' = Append(reported, events) /\ events' = <<>>
    BY <1>4 DEF EndMessage
  <2>2. reported \in Seq(Seq(Events)) /\ n \in Nat /\ Len(reported) = n - 1
    BY <2>1 DEF TypeInv
  <2>3. /\ DOMAIN reported = 1..(n - 1) /\ DOMAIN reported' = 1..n
        /\ reported'[n] = events
        /\ \A i \in 1..(n - 1) : reported'[i] = reported[i]
    BY <2>1, <2>2
  <2>4. \A i \in 1..n : Fresh(reported'[i], i)
    BY <2>1, <2>2, <2>3 DEF AgeInv
  <2>5. (\A i \in DOMAIN reported : Fresh(reported[i], i))'
    BY <2>1, <2>3, <2>4 DEF Fresh
  <2>6. Explained(events')
    BY <2>1 DEF Explained, Elems
  <2>7. QED
    BY <2>1, <2>5, <2>6 DEF AgeInv, Explained
<1>5. CASE UNCHANGED vars
  BY <1>5 DEF vars, AgeInv, Calm, Fresh, Explained, header_timestamp, message
<1>6. QED
  BY <1>1, <1>2, <1>3, <1>4, <1>5 DEF Next

\* The state is well typed; an entity from the future is never the only thing
\* wrong; and a header of which nothing is said is fresh.
THEOREM AgeIsTold == Spec => []AgeHolds
<1>1. Init => AgeInv
  BY DEF Init, AgeInv, Explained, Elems
<1>2. TypeInv => TypeOK
  BY MessageType DEF TypeInv, TypeOK
<1>3. AgeInv => FutureIsExplained
  BY DEF AgeInv, Explained, Elems, FutureIsExplained, OfTheFuture
<1>4. AgeInv => SilenceMeansFresh
  BY DEF AgeInv, Fresh, SilenceMeansFresh
<1>5. TypeInv /\ AgeInv => AgeHolds
  BY <1>2, <1>3, <1>4 DEF AgeHolds
<1>6. QED
  BY <1>1, <1>5, TypesHold, AgeNext, PTL DEF Spec

=============================================================================
