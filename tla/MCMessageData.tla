--------------------------- MODULE MCMessageData ----------------------------
\* The inputs of the trip descriptor walk, of the rules on trips, on pairs of
\* messages and across feeds, of the upstream rules, of the clocks and of the decoder.
EXTENDS TimeTexts, SequencesExt, Schemas

CONSTANTS None, Unset

-----------------------------------------------------------------------------
\* TripDescriptorWalk
NoText == ""
BlankTime == -999

DescriptorIds == {"t1", "t2", "t3", "t4", "t5", "t9", "r1", "r2", "r9", "a1", "a9"}
Routes == {"r1", "r2"}
Agencies == {"a1"}
DescriptorTrips ==
  [t \in {"t1", "t2", "t3", "t4", "t5"} |->
     [route_id |-> IF t = "t2" THEN "r2" ELSE "r1", direction_id |-> IF t = "t2" THEN 1 ELSE 0]]

\* 08:05:00, blank_time, 31:00:00, midnight, and a trip with no rows.
Arrivals ==
  [t1 |-> 29100, t2 |-> Unset, t3 |-> 111600, t4 |-> 0, t5 |-> None]
FrequencyTrips == {"t4"}

eight_five == <<0, 8, Colon, 0, 5, Colon, 0, 0>>
short      == <<8, Colon, 0, 5, Colon, 0, 0>>
midnight   == <<0, 0, Colon, 0, 0, Colon, 0, 0>>
blank_time      == <<0, 0, Colon, Minus, 1, 6, Colon, Minus, 3, 9>>
late       == <<3, 1, Colon, 0, 0, Colon, 0, 0>>
Times == {eight_five, short, midnight, blank_time, late}
Dates == {<<2, 0, 2, 6, 0, 2, 3, 1>>, <<2, 0, 2, 6, 1, 3, 0, 1>>, <<2, 0>>}

Plain ==
  [trip_id |-> "t1", route_id |-> None, direction_id |-> None, start_time |-> None,
   start_date |-> None, schedule_relationship |-> "SCHEDULED"]

\* References of every kind, and start times and dates of every kind.
References ==
  {[Plain EXCEPT !.trip_id = t, !.route_id = r, !.schedule_relationship = s] :
     t \in {"t1", "t2", "t9", "", None}, r \in {"r1", "r2", "r9", "", None}, s \in {"SCHEDULED", "ADDED"}}
StartTexts ==
  {[Plain EXCEPT !.trip_id = t, !.start_time = s] :
     t \in {"t1", "t2", "t3", "t4", "t5", "t9", ""}, s \in Times}
  \cup {[Plain EXCEPT !.direction_id = d, !.start_date = s] : d \in {0, 1, 4, 7, None}, s \in Dates \cup {None}}

Selectors ==
  {[agency_id |-> a, route_id |-> r, referenced |-> b, trip |-> None] :
     a \in {"a1", "a9", None}, r \in {"r1", None}, b \in BOOLEAN}
  \cup {[agency_id |-> None, route_id |-> r, referenced |-> FALSE, trip |-> t] :
     r \in {"r1", "r2", "r9", None}, t \in References}

Nothing == [trip_update |-> None, vehicle |-> None, alert |-> None]
Singles ==
  {[Nothing EXCEPT !.trip_update = [trip |-> t, stop_time_update |-> <<>>]] : t \in References \cup StartTexts}
  \cup {[Nothing EXCEPT !.vehicle = t] : t \in References \cup StartTexts}
  \cup {[Nothing EXCEPT !.alert = <<s>>] : s \in Selectors}
  \cup {[Nothing EXCEPT !.alert = <<>>], Nothing}

\* What W009 tells apart: up to three updates, and a descriptor that declares or not.
Undeclaring == [Plain EXCEPT !.schedule_relationship = None]
Warned ==
  {[Nothing EXCEPT !.trip_update = [trip |-> t, stop_time_update |-> u]] :
     t \in {Plain, Undeclaring},
     u \in {<<TRUE, FALSE, FALSE>>, <<FALSE, FALSE>>, <<TRUE, TRUE>>, <<FALSE, TRUE, FALSE>>, <<>>}}
  \cup {[trip_update |-> [trip |-> Plain, stop_time_update |-> <<TRUE, FALSE>>],
         vehicle |-> Undeclaring,
         alert |-> <<[agency_id |-> "a1", route_id |-> None, referenced |-> FALSE, trip |-> t]>>] :
           t \in {Undeclaring, None}}
  \cup {[Nothing EXCEPT !.vehicle = Undeclaring]}

DescriptorMessages ==
  {<<e>> : e \in Singles} \cup {<<>>}
  \cup {<<d, e>> : d \in Warned, e \in Warned}

-----------------------------------------------------------------------------
\* TripRules
RuleStrings == {"F0", "F1", "T", "X", "N", "A", "B", "C", "R", "d1", "d2", "s1", "s2"}
RuleTrips == {"F0", "F1", "T"}
StopIds == {"A", "B", "C"}
ExactTimesZero == {"F0"}
ExactTimesOne == {"F1"}

\* A loop: A is called at twice.  The third row has one time only.
row(q, s, both) == [stop_sequence |-> q, stop_id |-> s, arrival_time |-> TRUE, departure_time |-> both]
StopTimes ==
  [t \in {"T", "F0"} |->
     IF t = "T" THEN <<row(1, "A", TRUE), row(2, "B", TRUE), row(3, "C", FALSE), row(4, "A", TRUE)>>
     ELSE <<row(5, "C", TRUE)>>]

Descriptor ==
  [trip_id |-> "T", route_id |-> None, direction_id |-> None, start_time |-> None,
   start_date |-> None, modified_trip |-> FALSE, schedule_relationship |-> None]
NoProperties == [trip_id |-> None, start_date |-> None, start_time |-> None, trip_headsign |-> FALSE]
Update ==
  [stop_sequence |-> None, stop_id |-> None, assigned_stop_id |-> None, schedule_relationship |-> None,
   arrival |-> None, departure |-> None, departure_occupancy_status |-> FALSE]
Of(trip, updates) ==
  [trip_update |-> [trip |-> trip, stop_time_update |-> updates, delay |-> FALSE, trip_properties |-> NoProperties],
   vehicle |-> None, alert |-> <<>>]
At(t) == [time |-> t, delay |-> FALSE, scheduled_time |-> FALSE]
Late == [time |-> None, delay |-> TRUE, scheduled_time |-> FALSE]
Planned == [time |-> 9, delay |-> FALSE, scheduled_time |-> TRUE]

Trip(t, r) == [Descriptor EXCEPT !.trip_id = t, !.schedule_relationship = r]
StopRelationships == {None, "SCHEDULED", "SKIPPED", "NO_DATA", "UNSCHEDULED"}
TripRelationships == {None, "SCHEDULED", "ADDED", "UNSCHEDULED", "CANCELED", "REPLACEMENT", "DUPLICATED", "NEW", "DELETED"}
As(r) == [Update EXCEPT !.schedule_relationship = r]

\* Every relationship of a trip with those of two updates.
Related ==
  {<<Of(Trip(t, r), u)>> : t \in {"F0", "F1", "X", None}, r \in TripRelationships,
     u \in {<<>>} \cup {<<As(a), As(b)>> : a \in StopRelationships, b \in StopRelationships}}

\* One-sided and two-sided updates at every row, by either name.
Sided ==
  {<<Of(Trip(t, None), <<[Update EXCEPT !.stop_sequence = n[1], !.stop_id = n[2], !.arrival = a, !.departure = d,
                             !.assigned_stop_id = z, !.departure_occupancy_status = (z = None)]>>)>> :
     t \in {"T", "F0"}, n \in ({1, 2, 3, 4, 5, 6} \X {None, "B"}) \cup ({None} \X {"A", "B", "C", None}),
     a \in {None, At(9)}, d \in {None, At(9), Late}, z \in {None, "B", "X"}}

\* What is predicted, against the clock at 10.
Predicted ==
  {<<Of(Trip("T", r), <<[As(s) EXCEPT !.arrival = a], [As(z) EXCEPT !.departure = d]>>)>> :
     r \in {None, "CANCELED", "NEW", "DELETED", "REPLACEMENT"}, s \in {None, "SKIPPED"}, z \in {None, "SKIPPED"},
     a \in {None, At(10), At(11), Planned}, d \in {None, At(9), At(11), Late}}

\* Two TripUpdates of one trip.
Dated(t, d, s) == [Descriptor EXCEPT !.trip_id = t, !.start_date = d, !.start_time = s]
Instances ==
  {<<Of(Dated(t, d, s), <<>>), Of(Dated(t, e, z), <<>>)>> :
     t \in {"T", "F0", "X", None}, d \in {"d1", None}, e \in {"d1", "d2", None},
     s \in {"s1", None}, z \in {"s1", "s2", None}}

\* The carriers of descriptors, their properties and what a modified trip leaves empty.
Described ==
  {<<[Of(Trip("T", r), <<>>) EXCEPT !.trip_update.trip_properties =
        [trip_id |-> p, start_date |-> q, start_time |-> q, trip_headsign |-> (p = "N")],
        !.trip_update.delay = (q = None)]>> :
     r \in TripRelationships, p \in {"N", "T", None}, q \in {"d1", None}}
  \cup {<<[Of(Trip("T", None), <<>>) EXCEPT !.trip_update = None, !.vehicle = v, !.alert = <<None, v>>]>> :
     v \in {[Trip(t, r) EXCEPT !.modified_trip = b] : t \in {"F0", "T", None}, r \in TripRelationships, b \in BOOLEAN}}
  \cup {<<Of([Descriptor EXCEPT !.trip_id = None, !.route_id = "R"], <<[Update EXCEPT !.arrival = Late], [Update EXCEPT !.stop_id = "A"]>>)>>}

Starts == {<<Of(Dated("F0", "d1", s), <<>>)>> : s \in {"s1", "s2", None}}
          \cup {<<Of(Dated("F0", "d1", s), <<>>), [Of(Dated("F0", "d2", "s1"), <<>>) EXCEPT !.vehicle = Dated("F0", "d1", z)]>> :
                  s \in {"s1", "s2", None}, z \in {"s1", "s2", None}}
          \cup {<<[Of(Dated(t, "d1", s), <<>>) EXCEPT !.vehicle = Dated("F0", "d1", s),
                      !.alert = <<None, Dated("F0", "d1", z), Dated("F0", "d1", "s2")>>]>> :
                  t \in {"F0", "T"}, s \in {"s1", "s2", None}, z \in {"s1", "s2", None}}

Exchanges ==
  {<<m, None>> : m \in Related \cup Sided \cup Predicted \cup Instances \cup Described}
  \cup (Starts \X (Starts \cup {None}))

-----------------------------------------------------------------------------
\* ClockTexts
Plus == 13
Characters == {0, 2, 5, Colon}
OfLength(n) == {<<s>> \o t : s \in {Plus, Minus}, t \in [1..n -> Characters]}
EdgeRests ==
  { <<Plus, 2, 3, Colon, 5, 9>>, <<Plus, 2, 4, Colon, 0, 0>>, <<Minus, 2, 3, 6, 0>>, <<Minus, 2, 3, 5, 9>>,
    <<Plus, 0, 0, 0, 0, 0, 0>>, <<Plus, 1, 2, 3, 4, 5>>, <<Plus, 0, 0, 5, 3, 0>>, <<Plus, 0, 2, 2, Colon, 5, 5>>,
    <<Plus, 5, OtherCharacter>>, <<0, 5>>, <<>> }
TimezoneIds ==
  {[gmt |-> TRUE, rest |-> r] : r \in EdgeRests \cup UNION {OfLength(n) : n \in 0..4}}
  \cup {[gmt |-> FALSE, rest |-> r] : r \in { <<>>, <<Plus, 0, 5>>, <<OtherCharacter>> }}
\* One id the database has, and one both it and the grammar know.
TzDatabase ==
  [i \in {[gmt |-> FALSE, rest |-> <<OtherCharacter>>], [gmt |-> TRUE, rest |-> <<Plus, 0>>]} |->
     IF i.gmt THEN 0 ELSE -300]
MomentsOfDay == {-1500000, -61, 0, 59, 86399, 86400, 700000, 1500000}
NowsOfDay == {-1500, -1, 0, 999, 86340001, 500000000}

-----------------------------------------------------------------------------
\* MessagePairs
Two == 32          \* the float 2.0
FullDataset == 0

\* 1.0, two texts below 2.0, one of which is 2.0 to a float, 3.0 and no number.
Decimal == [v \in {"1.0", "below", "nearly", "halfway", "2.0", "3.0", "junk"} |->
  CASE v = "1.0" -> 0 [] v = "below" -> Two - 3 [] v = "nearly" -> Two - 1 [] v = "halfway" -> Two - 2
    [] v = "2.0" -> Two [] v = "3.0" -> Two + 32 [] OTHER -> None]
Word == 256
PosixWindow == 5..250
Second == 4

Header(v, i, t) == [version |-> v, incrementality |-> i, timestamp |-> t]
Carries(trip, vehicle, t) == [trip |-> trip, vehicle_id |-> vehicle, timestamp |-> t]
Entity(id, tu, vp) == [id |-> id, is_deleted |-> None, trip_update |-> tu, vehicle |-> vp]
Message(header, entities) == [header |-> header, millis |-> 4 * 130, entity |-> entities]

Stamps == {0, 1, 31, 32, 36, 37, 67, 127, 159, 191, 255}
Stamped(t) == Message(Header("2.0", FullDataset, t), <<>>)

Headers == {Header(v, i, t) : v \in {None} \cup DOMAIN Decimal, i \in {None, FullDataset, 1}, t \in {0, 100}}
Old == {Entity("a", None, Carries(None, "v", t)) : t \in {4, 5, 38, 39, 40, 130}}

Updates == {None, Carries("u", "v", 0)} \cup {Carries("t", v, 0) : v \in {None, "v", "w"}}
Ones == {<<Entity("a", tu, None), Entity("b", vp, None)>> : tu, vp \in Updates}
Twos == {<<Entity(id, Carries("t", v, 0), Carries("t", "v", 0))>> : id \in {"a", "b"}, v \in {None, "v", "w"}}

Streams ==
  {<<Stamped(s), Stamped(t), Stamped(u)>> : s, t \in Stamps, u \in {0, 1, 67}}
  \cup {<<Message(h, <<[Entity("a", None, None) EXCEPT !.is_deleted = d], e>>)>> : h \in Headers, d \in {None, FALSE}, e \in Old}
  \cup {<<Message(Header("2.0", FullDataset, 10), x), Message(Header("2.0", FullDataset, 20), y),
          Message(Header("2.0", FullDataset, 30), z)>> : x, y \in Ones, z \in Twos}

-----------------------------------------------------------------------------
\* CrossFeed
Tu(trip, vehicle) == [trip_update |-> [trip |-> trip, vehicle |-> vehicle], vehicle |-> None]
Vp(trip, vehicle) == [trip_update |-> None, vehicle |-> [trip |-> trip, vehicle |-> vehicle]]
Feed(tu, vp) == [tu |-> tu, vp |-> vp, sa |-> <<>>]

\* Ids by their code units.
T == {<<1>>, <<2>>}
V == {<<3>>, <<5>>}
Blocks == [t \in {<<1>>, <<2>>} |-> "b"]

Halves ==
  LET tus == {<<Tu(t, v)>> : t \in T \cup {None, <<>>}, v \in V \cup {None, <<>>}}
      two == {<<Tu(<<1>>, v), Tu(<<2>>, w)>> : v, w \in V \cup {None}}
      vps == {<<Vp(t, v)>> : t \in T \cup {None, <<>>}, v \in V \cup {None}}
      duo == {<<Vp(t, <<3>>), Vp(u, <<5>>)>> : t, u \in T \cup {None}}
  IN  {Feed(x, y) : x \in tus \cup two, y \in vps \cup duo}
        \cup {Feed(<<Tu(<<1>>, v), Tu(<<1>>, w)>>, y) : v, w \in V \cup {None}, y \in duo}

\* Keys of one table, in several orders, beside one position.
\* <<1, 0>>, <<0, 31>> and <<31>> have one hash, and are too many for a chain.
Keys == {<<1, k>> : k \in {0, 4, 8, 9, 16}}
Orders == {<<a, b, c>> \o rest : a, b, c \in Keys, rest \in {<<>>, <<<<0, 31>>, <<31>>>>, <<<<0, 31>>, <<31>>, <<0, 0, 31>>>>, <<<<1, 12>>, <<1, 20>>>>, <<<<1, 12>>, <<1, 3>>, <<1, 7>>, <<2, 2>>>>}}
Tables == {Feed([k \in DOMAIN o |-> Tu(o[k], None)], <<Vp(None, <<3>>)>>) : o \in {p \in Orders : IsInjective(p)}}

CrossFeeds == Halves \cup Tables

-----------------------------------------------------------------------------
\* UpstreamRules
\* What the four walks yield, from their own modules.
Ids == [timestamps |-> {"E001", "E012", "E017", "E018", "E022", "E025", "E048", "E050", "W001", "W007", "W008"},
  trip_descriptors |-> {"E003", "E004", "E016", "E020", "E021", "E023", "E024", "E030", "E031", "E032", "E033", "E034",
                        "E035", "W006", "W009"},
  vehicles |-> {"E026", "E027", "E028", "E029", "E052", "W002", "W004"},
  stop_time_updates |-> {"E002", "E009", "E036", "E037", "E040", "E041", "E042", "E043", "E044", "E045", "E046", "E051"}]

\* The registry one way and the other.
InOrder ==
  FoldSet(LAMBDA w, order : FoldSet(LAMBDA r, o : Append(o, r), order, Ids[w]), <<>>, DOMAIN Ids)
    \o <<"E011", "E015", "W005">>
RuleOrders == {InOrder, Reverse(InOrder)}

\* The walks under their own names, and two of them under one.
OwnNames == [w \in DOMAIN Ids |-> w]
Names == {OwnNames, [OwnNames EXCEPT !.vehicles = "timestamps"]}

Quiet == [w \in DOMAIN Ids |-> <<>>]
Seen(id, k) == [id |-> id, at |-> k]

\* An event of any rule, twice or beside another of its walk, then stops and halves.
Yields ==
  {Quiet} \cup UNION {{[Quiet EXCEPT ![w] = <<Seen(id, 1), Seen(id, 2)>>] : id \in Ids[w]} : w \in DOMAIN Ids}
  \cup {[w \in DOMAIN Ids |-> FoldSet(LAMBDA id, seen : Append(seen, Seen(id, 1)), <<>>, Ids[w])]}

Places(a, b, c) ==
  [stop_time_updates |-> <<a>>, vehicle_stop |-> b, alert_stops |-> <<c>>,
   halves |-> <<[frequency_zero |-> a = "s", vehicle_id |-> b]>>]
Stations == [s \in {"s", "station"} |-> IF s = "s" THEN 0 ELSE 1]

UpstreamMessages ==
  {[events |-> y, entity |-> <<>>, stops |-> Stations] : y \in Yields}
  \cup {[events |-> Quiet, entity |-> <<Places(a, b, c)>>, stops |-> Stations] :
          a \in {"s", "station", "gone"}, b \in {"s", "station", "gone", None}, c \in {"station", "gone"}}

-----------------------------------------------------------------------------
\* Wire
Kinds == {Req(Str(1, "id")), Num(2, "delay", "int32"), Rep(Num(3, "stops", "fixed32")),
          Enm(4, "effect", "Effect", 1), Num(5, "speed", "float")}

\* Two small schemas, of kinds the real ones have and of kinds they lack.
Older ==
  [messages |-> [FeedMessage |-> {Req(Sub(1, "header", "Part")), Rep(Sub(2, "entity", "Part")),
                                  Enm(3, "cause", "Effect", 1)},
                 Part |-> Kinds],
   enums |-> [Effect |-> {1, -1}]]
Newer ==
  [messages |-> [FeedMessage |-> Older.messages.FeedMessage \cup
                                 {Num(4, "wheel", "bool"), Num(5, "shift", "sint32"),
                                  Num(6, "clock", "fixed64"),
                                  Rep(FieldDesc(7, "blob", "bytes", "optional", "none", 0))},
                 Part |-> Kinds],
   enums |-> [Effect |-> {1, 2, -1}]]

MinusOne == <<15, 15, 15, 15, 15, 15, 15, 15, 15, 1>>
Tag(n, w) == <<8 + w, n>>
Part(bytes) == (IF Len(bytes) < 8 THEN <<Len(bytes)>> ELSE <<8 + (Len(bytes) % 8), Len(bytes) \div 8>>) \o bytes
Id == Tag(1, 2) \o <<1, 5>>
Tokens ==
  {Tag(1, 2) \o Part(Id), Tag(1, 2) \o Part(Tag(2, 0) \o <<9, 1>>),
   Tag(1, 2) \o <<11, 1>> \o Tag(1, 2) \o <<2, 14, 9>> \o Tag(3, 5) \o <<9, 1>>,
   Tag(2, 2) \o Part(Id \o Tag(4, 0) \o <<2>>), Tag(2, 2) \o <<0>>,
   Tag(2, 2) \o Part(Id \o Tag(5, 5) \o <<1, 7>>), Tag(2, 2) \o Part(Id \o Tag(5, 5) \o <<2, 15>>),
   Tag(2, 2) \o Part(Tag(5, 5) \o <<0, 0>>), Tag(2, 2) \o Part(Tag(5, 5) \o <<0, 8>>),
   Tag(5, 0) \o <<11, 0>>, Tag(7, 2) \o <<9, 0, 9>>,
   Tag(3, 0) \o <<1>>, Tag(3, 0) \o <<10, 0>>, Tag(3, 0) \o MinusOne, Tag(3, 5) \o <<1, 2>>,
   Tag(4, 0) \o <<2>>, Tag(5, 0) \o <<3>>, Tag(6, 1) \o <<7, 8, 9>>,
   Tag(7, 2) \o <<1, 9>>, Tag(7, 2) \o <<15, 15, 15, 15, 0, 1>>,
   <<10, 9, 8, 8, 8, 8, 8, 8, 8, 1, 0>>, <<10, 9, 8, 8, 12, 0, 0>>,
   Tag(7, 3) \o Tag(7, 4), Tag(7, 3) \o Tag(6, 4), Tag(7, 3) \o Tag(6, 0) \o <<8>>, <<0>>, <<12>>}

Scaled ==
  {[data |-> a \o b \o c, schema |-> s] : a \in Tokens, b \in Tokens \cup {<<>>},
     c \in {<<>>, Tag(1, 2) \o Part(Id), Tag(2, 2) \o Part(Id), Tag(3, 0) \o <<10, 0>>}, s \in {Older, Newer}}

\* The real schema: entities with members that are younger than the jar, one
\* before and one after a member the jar knows, fields and messages that are
\* younger, and an image without what an image requires.
High(n, w) == <<8 + w, 8 + (n % 8), n \div 8>>
Held(n, bytes) == Tag(n, 2) \o Part(bytes)
Said(value) == Tag(4, 0) \o value
Relationships == {<<>>, Said(<<1>>), Said(<<8, 1>>), Said(<<1>>) \o Said(<<6>>), Said(<<6>>) \o Said(<<1>>), Said(<<4>>)}
TripOf(r) == Held(1, r)
Call(bytes) == Held(2, bytes)
Payloads ==
  {Held(3, TripOf(<<>>) \o c) : c \in {Call(Tag(5, 0) \o <<3>>), Call(Tag(5, 0) \o <<2>> \o Tag(5, 0) \o <<3>>),
     Call(Held(2, Tag(1, 0) \o MinusOne \o Tag(4, 0) \o <<7>>)), Call(Tag(7, 0) \o <<7>> \o Held(6, <<>>)),
     Tag(4, 0) \o <<9, 2>>, Held(6, Id), Tag(5, 5) \o <<1, 1>>}}
  \cup {Held(4, b) : b \in {Tag(4, 0) \o <<0>>, High(9, 0) \o <<7>>, Held(2, Tag(1, 5) \o <<1, 2>>),
     Held(2, Tag(1, 5) \o <<1, 2>> \o Tag(2, 5) \o <<3, 15>> \o Tag(4, 1) \o <<1, 2, 15>>), High(11, 2) \o Part(Id)}}
  \cup {Held(5, b) : b \in {Tag(6, 0) \o <<13, 1>> \o Tag(7, 0) \o <<1>>, High(14, 0) \o <<2>>, High(15, 2) \o Part(Held(1, <<>>)),
     High(15, 2) \o Part(Held(1, Id \o Held(2, <<5>>))), High(10, 2) \o Part(Held(1, Id)), High(10, 2) \o Part(Held(1, <<>>))}}
  \cup {Held(7, Id \o Held(3, <<>>)), High(8, 2) \o Part(Held(4, Tag(3, 0) \o <<2>>)), <<>>}
Feeds2015 == {Held(1, Id) \o Held(2, Id \o p \o Held(3, TripOf(r))) : p \in Payloads, r \in Relationships}
             \cup {Held(1, Id \o Held(4, <<>>)) \o Held(2, Id \o p) \o Tag(3, 0) \o <<1>> : p \in Payloads}

Inputs == Scaled \cup {[data |-> d, schema |-> s] : d \in Feeds2015, s \in {SCHEMA_2015, SCHEMA_CURRENT}}
=============================================================================
