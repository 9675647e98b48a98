----------------------------- MODULE MCPartsData -----------------------------
\* The inputs of the entity, detour and translation walks and of their rules, of
\* the boxes, the vehicle walk and the headway search, and those of loading, of
\* the command line, of a caller, of the registry and of the replay directory.
EXTENDS Integers, Sequences, FiniteSets, SequencesExt, TLC, TimeTexts

CONSTANTS None, Absent, Bad, Odd

-----------------------------------------------------------------------------
\* The roles in their order.
RoleOrder == <<"tu", "vp", "sa">>

-----------------------------------------------------------------------------
\* EntityRules
EntityStrings == {"", "T", "U", "L", "M", "A", "B", "C", "P", "Q", "d1", "d2", "x", "y", "en"}
NoText == ""
EntityShapes == {"P"}
ServedStops == [r \in {"L", "M"} |-> IF r = "L" THEN {"A", "B"} ELSE {"C"}]

Bare == [id |-> "x", is_deleted |-> FALSE, trip_update |-> None, alert |-> None, shape |-> None]
NoAlert ==
  [active_period |-> FALSE, communication_period |-> <<>>, impact_period |-> <<>>, cause |-> FALSE,
   cause_detail |-> FALSE, effect |-> None, effect_detail |-> FALSE, header_text |-> None,
   description_text |-> None, informed_entity |-> <<>>]
Unselected == [trip |-> None, stop_id |-> None, route_id |-> None, direction_id |-> FALSE]

Telling(a) == [Bare EXCEPT !.alert = a]
Alone(e) == [r \in {"sa"} |-> <<e>>]

\* Ids and payloads of two entities.
Lists ==
  {[r \in {"tu"} |-> <<[Bare EXCEPT !.id = a, !.is_deleted = d, !.shape = s, !.alert = t],
                       [Bare EXCEPT !.id = "x", !.alert = t]>>] :
     a \in {"x", "y"}, d \in BOOLEAN, t \in {None, NoAlert, [NoAlert EXCEPT !.active_period = TRUE]},
     s \in {None} \cup [shape_id : {None, "P", "Q"}, encoded_polyline : {None} \cup [points : 0..2, error : BOOLEAN]]}

\* Details, texts and directions, beside a shape.
Texts == {None, <<>>, <<<<"x", None>>>>, <<<<"x", "en">>>>, <<<<"x", "en">>, <<"y", None>>>>}
Details ==
  {Alone([Bare EXCEPT !.shape = [shape_id |-> None, encoded_polyline |-> [points |-> 1, error |-> FALSE]],
            !.alert = [NoAlert EXCEPT !.cause = c, !.cause_detail = d, !.effect = e, !.effect_detail = d,
                         !.header_text = h, !.description_text = t,
                         !.informed_entity = <<[Unselected EXCEPT !.direction_id = d, !.route_id = IF c THEN "L" ELSE None]>>]]) :
     c \in BOOLEAN, d \in BOOLEAN, e \in {None, "DETOUR"}, h \in Texts, t \in Texts}

\* One impact and two windows.
Bounds == {None, 0, 1, 2, 4}
Ranges == {g \in [start : Bounds, end : Bounds] : g.start = None \/ g.end = None \/ g.start <= g.end}
Windows == {[start |-> None, end |-> None], [start |-> 0, end |-> 2], [start |-> 2, end |-> 4], [start |-> 1, end |-> None], [start |-> None, end |-> 2]}
Impacts ==
  {Alone(Telling([NoAlert EXCEPT !.impact_period = <<g>>, !.communication_period = w])) :
     g \in Ranges, w \in {<<>>} \cup {<<a>> : a \in Windows} \cup {<<a, b>> : a \in Windows, b \in Windows}}

\* Stops, lines and trips of an alert with three selectors.
Chosen == {[Unselected EXCEPT !.stop_id = s] : s \in {"A", "B", "C", ""}} \cup {[Unselected EXCEPT !.route_id = l] : l \in {"L", "M"}}
          \cup {[Unselected EXCEPT !.trip = <<"T", "L">>]}
Threes == {Alone(Telling([NoAlert EXCEPT !.informed_entity = <<a, b, c>>])) : a \in Chosen, b \in Chosen, c \in Chosen}

\* A trip canceled on some days in one file and alerted in another or the same.
DatedUpdate(t, d, c) == [Bare EXCEPT !.trip_update = [trip_id |-> t, start_date |-> d, canceled |-> c]]
Spoken == {Telling([NoAlert EXCEPT !.effect = e, !.informed_entity = <<[Unselected EXCEPT !.trip = <<t, "">>], [Unselected EXCEPT !.route_id = "L"]>>]) :
             e \in {None, "NO_SERVICE", "DETOUR"}, t \in {"", "T"}}
Cancellations ==
  {LET updates == <<DatedUpdate("T", "d1", TRUE), DatedUpdate("T", d, c), DatedUpdate(t, "d2", TRUE)>>
   IN  [r \in {"tu", w} \ {"none"} |->
          IF w \in {"none", "tu"} THEN updates \o <<a>> ELSE IF r = "tu" THEN updates ELSE <<a>>] :
     d \in {None, "d1", "d2"}, c \in BOOLEAN, t \in {"T", "U", None}, a \in Spoken, w \in {"tu", "vp", "sa"}}

EntityCycles == Lists \cup Details \cup Impacts \cup Threes \cup Cancellations

-----------------------------------------------------------------------------
\* DetourRules
DetourStrings == {"P", "Q", "A", "B", "Z", "T", "U", "V", "e1", "e2", "e3"}
DetourShapes == {"P"}
LocationTypes == [s \in {"A", "B"} |-> IF s = "A" THEN 0 ELSE 1]
\* 1972-02-26T20:00:00Z, in a zone where it is the 27th.
NowSeconds == 786 * 86400 + 20 * 3600
UtcOffset == 5 * 3600

NoEntity == [id |-> "e1", trip_update |-> None, shape |-> None, stop |-> None, trip_modifications |-> None, vehicle |-> None]
NoUpdate == [trip_id |-> None, schedule_relationship |-> None, new_trip_id |-> None, shape_id |-> None]
NoDetour == [selected_trips |-> <<>>, service_dates |-> <<>>, modifications |-> <<>>]
Updating(u) == [NoEntity EXCEPT !.trip_update = u]
Detouring(d) == [NoEntity EXCEPT !.id = "e2", !.trip_modifications = d]
Drawn(s, l) == [NoEntity EXCEPT !.id = "e3", !.shape = [shape_id |-> s, encoded_polyline |-> l]]

\* Shapes referred to from both sides, defined before or after.
Paths == {None, [points |-> <<1, 2>>, error |-> FALSE], [points |-> <<>>, error |-> FALSE], [points |-> <<1>>, error |-> TRUE]}
Selected(t, s) == [trip_ids |-> t, shape_id |-> s]
Shapes ==
  {[r \in {"tu"} |-> m] :
     m \in UNION {{<<a, b, c, d>>, <<c, d, a, b>>} :
       a \in {Updating([NoUpdate EXCEPT !.trip_id = t, !.shape_id = s, !.new_trip_id = n]) :
                t \in {"T", None}, n \in {"U", None}, s \in {"P", "Q", "e2", None}},
       b \in {Detouring([NoDetour EXCEPT !.selected_trips = <<Selected(<<"T", "V">>, s)>>]) : s \in {"Q", "e2", None}},
       c \in {Drawn(s, l) : s \in {"Q", None}, l \in Paths},
       d \in {Drawn("Q", l) : l \in Paths}}}

\* Stops and selectors, and the times of three stops.
NoModification == [start_stop_selector |-> None, end_stop_selector |-> None, replacement_stops |-> <<>>]
Choice == {None} \cup [stop_sequence : BOOLEAN, stop_id : {None, "A", "Z"}]
Stops ==
  {[r \in {"tu"} |-> <<Detouring([NoDetour EXCEPT !.modifications =
      <<[start_stop_selector |-> a, end_stop_selector |-> b,
         replacement_stops |-> <<[stop_id |-> s, travel_time_to_stop |-> None]>>]>>]),
      [NoEntity EXCEPT !.stop = z]>>] : a \in Choice, b \in Choice, s \in {None, "A", "B", "Z", "e1"}, z \in {None, "Z"}}
Replacing(t) == [stop_id |-> None, travel_time_to_stop |-> t]
Times ==
  {[r \in {"tu"} |-> <<Detouring([NoDetour EXCEPT !.modifications =
      <<[NoModification EXCEPT !.replacement_stops = <<Replacing(a), Replacing(b), Replacing(c), Replacing(d)>>]>>])>>] :
     a \in {None, -1, 2}, b \in {None, 0, 1}, c \in -1..3, d \in {None, 0, 1, 2, 3}}

\* A fortnight around the turn of February, and texts that are no date.
Digits(y, n, d) == <<1, 9, y \div 10, y % 10, n \div 10, n % 10, d \div 10, d % 10>>
Calendar ==
  {[r \in {"tu"} |-> <<Detouring([NoDetour EXCEPT !.service_dates = <<a, t>>])>>] :
     a \in {Digits(72, 2, 26), Digits(72, 2, 27)},
     t \in {Digits(72, 2, d) : d \in {0, 20, 26, 27, 28, 29, 30, 31, 32}} \cup {Digits(72, 3, d) : d \in 1..8}
           \cup {Digits(72, 13, 1), Digits(72, 0, 1), Digits(71, 2, 29), Digits(73, 3, 1), <<1, 9>>, <<>>,
                 <<1, 9, 7, 2, 0, 3, 0, OtherCharacter>>, <<0, 0, 0, 0, 0, 3, 0, 1>>}}

\* Duplicates and replacements over the files of a cycle.
Split(m, n, o) == [r \in {q \in {"tu", "vp", "sa"} : (CASE q = "tu" -> m [] q = "vp" -> n [] q = "sa" -> o) # <<>>} |->
                     CASE r = "tu" -> m [] r = "vp" -> n [] r = "sa" -> o]
Updates == {Updating([NoUpdate EXCEPT !.trip_id = t, !.new_trip_id = n, !.schedule_relationship = s]) :
              t \in {"T", None}, n \in {None, "U"}, s \in {None, "REPLACEMENT", "DUPLICATED"}}
Vehicles == {[NoEntity EXCEPT !.vehicle = <<t, s>>] : t \in {"U", "V"}, s \in {None, "DUPLICATED"}}
Detour == Detouring([NoDetour EXCEPT !.selected_trips = <<Selected(<<"U", "T">>, None), Selected(<<"T">>, None)>>])
Splits ==
  UNION {{Split(<<u>>, <<v, w>>, <<Detour>>), Split(<<>>, <<v>>, <<w, u, Detour>>), Split(<<Detour, u, v>>, <<>>, <<w>>)} :
           u \in Updates, v \in Vehicles, w \in Vehicles}

DetourCycles == Shapes \cup Stops \cup Times \cup Calendar \cup Splits

-----------------------------------------------------------------------------
\* Translations
Translated == {"TranslatedString", "TranslatedImage"}

Tagged == [language |-> TRUE, image_type |-> TRUE, scheme |-> TRUE, url |-> <<>>]
Untagged == [Tagged EXCEPT !.language = FALSE]
Of(type, present) == [type |-> type, members |-> <<>>, present |-> present]
Saying(type, members) == [type |-> type, members |-> members, present |-> <<>>]

Worded == Saying("TranslatedString", <<Tagged>>)
Image == Saying("TranslatedImage", <<Tagged>>)

\* A chain of types, one that holds itself, one that holds nothing, one the
\* schema does not declare, and where in the chain the two types are.
Schemas ==
  {[t \in {"Feed", "Alert", "Stop", "Other"} |->
      CASE t = "Feed" -> {"Alert"} [] t = "Alert" -> {"Stop"} \cup a
        [] t = "Stop" -> b [] t = "Other" -> {"Other"}] :
     a \in SUBSET {"TranslatedString", "Other"}, b \in SUBSET {"TranslatedString", "TranslatedImage", "Alert"}}

\* What a message of a type may hold under a schema: a tree of its fields.
Deep(s) == Of("Stop", (IF "TranslatedString" \in s["Stop"] THEN <<Worded>> ELSE <<>>)
                      \o (IF "TranslatedImage" \in s["Stop"] THEN <<Image, Image>> ELSE <<>>)
                      \o (IF "Alert" \in s["Stop"] THEN <<Of("Alert", IF "TranslatedString" \in s["Alert"] THEN <<Worded>> ELSE <<>>)>> ELSE <<>>))
Alert(s) == Of("Alert", (IF "TranslatedString" \in s["Alert"] THEN <<Worded>> ELSE <<>>)
                        \o (IF "Other" \in s["Alert"] THEN <<Of("Other", <<Of("Other", <<>>)>>)>> ELSE <<>>) \o <<Deep(s)>>)
Messages(s) == {Of("Feed", <<>>), Of("Feed", <<Alert(s), Of("Alert", <<>>), Alert(s)>>),
                Of("Feed", <<Of("Unseen", <<Worded, Of("Unseen", <<Image>>)>>), Alert(s)>>)}

\* Members of one value.
Flat == [t \in {"Feed"} |-> {"TranslatedString", "TranslatedImage"}]
Urls == UNION {[1..n -> {"hex", "literal", "%", "other"}] : n \in 0..4}
Values ==
  {<<Saying(t, m)>> : t \in Translated, m \in {<<>>} \cup {<<a, b, c>> : a \in {Tagged, Untagged}, b \in {Tagged, Untagged}, c \in {Tagged, Untagged}}}
  \cup {<<Saying("TranslatedImage", <<[Tagged EXCEPT !.url = u, !.scheme = b]>>)>> : u \in Urls, b \in BOOLEAN}

TranslationWorlds ==
  UNION {{[schema |-> s, message |-> m] : m \in Messages(s)} : s \in Schemas}
  \cup {[schema |-> Flat, message |-> Of("Feed", v)] : v \in Values}

-----------------------------------------------------------------------------
\* Polylines
EncodedLines ==
  { <<>>, << <<0, 0>> >>, << <<0, 0>>, <<0, 0>> >>, << <<5, -3>>, <<6, -20>>, <<-16, 0>> >>,
    << <<3850000, -12020000>>, <<4070000, -12095000>> >> }
Groups == {-1, 0, 1, 31, 32, 33, 63, 64}
EncodedTexts == UNION {[1..n -> Groups] : n \in 0..4}

-----------------------------------------------------------------------------
\* Extents
\* Thirty degrees to the unit.  Rounded up; the parallels next to a pole reach
\* it before the table is asked.
ExtentAsin == [y \in 0..3 |-> [d \in 0..2 |-> CASE d = 0 -> 0 [] d = 1 -> <<1, 2, 3, 0>>[y + 1] [] d = 2 -> <<2, 3, 0, 0>>[y + 1]]]

Distances == 0..2

\* Up to three longitudes, between every two parallels.
Spread(lons, lo, hi) == LET s == SetToSortSeq(lons, <) IN [k \in DOMAIN s |-> <<s[k], IF k = 1 THEN lo ELSE hi>>]
PlaceRows == {Spread(l, lo, hi) : l \in {m \in SUBSET {-6, -5, -2, 0, 1, 3, 6} : Cardinality(m) \in 1..3}, lo \in {-2, 0}, hi \in {0, 2, 3}}
Few == {<<>>, <<Absent>>, <<<<6, 1>>, Absent, <<-6, -3>>>>}

ExtentFeeds ==
  {[stops |-> <<Absent>> \o r, shapes |-> <<>>] : r \in PlaceRows}
  \cup {[stops |-> s, shapes |-> r] : s \in Few, r \in {q \in PlaceRows : Len(q) > 2 /\ \E k \in DOMAIN q : q[k][1] = 6}}

-----------------------------------------------------------------------------
\* VehicleWalk
Lacking == -1000
NaN == 1000
FlatAsin == [y \in 0..3 |-> [d \in 0..2 |-> 0]]
East == [y \in 0..3 |-> <<120, 100, 60, 0>>[y + 1]]

At(lon, lat) == [longitude |-> lon, latitude |-> lat, speed |-> Lacking, bearing |-> Lacking]
Home == At(5, 0)
Trip(t, r) == [trip_id |-> t, route_id |-> r]
Vehicle == [id |-> "v", position |-> Home, trip |-> Trip("t", None), carriages |-> <<>>]

Blank == [trip_update |-> None, vehicle |-> None, alerts |-> {}]
Having(v) == [Blank EXCEPT !.vehicle = v]
Announcing(e, t, r) == [Blank EXCEPT !.alerts = {[effect |-> e, trip_id |-> t, route_id |-> r]}]

\* The box is round the dateline; one trip has a line, one a single point.
Feed(box, static, realtime, message, elsewhere) ==
  [box |-> box, trip_shapes |-> static, realtime |-> realtime, message |-> message, elsewhere |-> elsewhere]
Across == [min_x |-> 3, max_x |-> -3, min_y |-> -2, max_y |-> 2]
Line == <<<<5, 0>>, <<-6, 0>>>>
Lines == ("t" :> Line @@ "p" :> <<<<5, 0>>>> @@ "e" :> <<>>)
Nothing == [t \in {} |-> Line]

Positions == {At(x, y) : x \in {-7, -6, -5, 0, 3, 5, 6, NaN, Lacking}, y \in {-4, -2, 0, 1, 2, NaN, Lacking}}
Trips == {None, Trip(None, "r"), Trip("t", None), Trip("t", "r"), Trip("t", ""), Trip("p", None), Trip("e", None), Trip("new", None)}

Placed ==
  {Feed(Across, Lines, r, <<Having([Vehicle EXCEPT !.position = p, !.trip = t])>>, <<>>) :
     p \in Positions, t \in Trips, r \in {Nothing, "t" :> <<<<5, 2>>>>, "new" :> Line}}

\* The alert before the vehicle, after it, in another file, or nowhere.
Alerts == {Announcing(e, t, r) : e \in {"DETOUR", "NO_SERVICE"}, t \in {"t", ""}, r \in {"r", ""}}
Detoured ==
  UNION {LET v == Having([Vehicle EXCEPT !.position = At(x, y), !.trip = t])
         IN  {Feed(Across, s, r, m, o) : s \in {Lines, Nothing}, r \in {Nothing, "t" :> Line},
                m \in {<<v>>, <<v, a>>, <<a, v>>}, o \in {<<>>, <<a>>}} :
           x \in {4, 5}, y \in {0, 2}, t \in {Trip("t", None), Trip("t", "r"), Trip("t", "")}, a \in Alerts}

Numbers ==
  {Feed(Across, Lines, Nothing, <<Having([Vehicle EXCEPT !.position = [p EXCEPT !.speed = s, !.bearing = b]])>>, <<>>) :
     p \in {Home, At(0, 0), At(Lacking, 0)}, s \in {Lacking, NaN, -1, 0, 26, 27}, b \in {Lacking, NaN, -1, 0, 360, 361}}

\* Up to four entities: vehicles with ids, updates with and without one.
Ids == {Having([Vehicle EXCEPT !.id = i, !.position = p]) : i \in {"", "v", "w"}, p \in {None, Home}}
       \cup {[Blank EXCEPT !.trip_update = u] : u \in {"", "v"}}
Fleets == {Feed(Across, Lines, Nothing, m, <<>>) : m \in {<<a, b, c>> : a \in Ids, b \in Ids, c \in Ids}}

Carriages == UNION {[1..n -> [id : {None, "a", "b"}, sequence : 0..3]] : n \in 0..2}
             \cup [1..3 -> [id : {None, "a"}, sequence : 1..3]]
Trains == {Feed(Across, Lines, Nothing, <<Having([Vehicle EXCEPT !.position = None, !.carriages = c])>>, <<>>) : c \in Carriages}

VehicleWorlds == Placed \cup Detoured \cup Numbers \cup Fleets \cup Trains

-----------------------------------------------------------------------------
\* Headways
Row(s, e, h) == [start |-> s, end |-> e, headway |-> h]
Six == 6 * 3600

\* Periods from six o'clock and from "-1:00:30", whole and half minutes, stuck
\* ones, empty ones.
Early == -3570
Starts == {Six, Six + 359, Early}
Rows == {Row(s, s + l, h) : s \in Starts, l \in {-60, 0, 720, 721}, h \in {-3600, -1801, 0, 60, 359, 360, 720}}

Clocks == {<<6, m, s>> : m \in {0, 5, 6, 12, 60}, s \in {0, 59}} \cup {<<5, 0, 0>>}

Searches ==
  {[periods |-> <<r>>, half |-> h, wanted |-> w] : r \in Rows, h \in {"trip_update", "vehicle"}, w \in Clocks \cup {None}}
  \cup {[periods |-> <<r, q>>, half |-> h, wanted |-> w] :
          r \in {x \in Rows : x.headway \in {0, 360}}, q \in {Row(Six + 720, Six + 1441, 360), Row(Six, Six, 60), Row(Six, Six + 60, 0)},
          h \in {"trip_update", "alert"}, w \in {<<6, 0, 0>>, <<6, 12, 0>>, <<6, 24, 0>>}}

-----------------------------------------------------------------------------
\* StaticFeed
StopTimesTxt == "stop_times.txt"
ShapesTxt == "shapes.txt"

Agency(i, z) == [agency_id |-> i, agency_name |-> "name", agency_timezone |-> z]
TripRow(t, r, s, d) == [trip_id |-> t, route_id |-> r, shape_id |-> s, direction_id |-> d]
Call(t, s, n) == [trip_id |-> t, stop_id |-> s, stop_sequence |-> n]
Point(s, n) == [shape_id |-> s, shape_pt_lat |-> 0, shape_pt_sequence |-> n]
Period(t, e, h, x) == [trip_id |-> t, start_time |-> None, end_time |-> e, headway_secs |-> h, exact_times |-> x]

\* A feed nothing is wrong with, whose trip comes back to a stop, whose points
\* are out of order and one of whose routes has no trip.
Whole ==
  "agency.txt" :> <<Agency("a", "zone")>>
  @@ "stops.txt" :> <<[stop_id |-> "s", location_type |-> None], [stop_id |-> "u", location_type |-> 1]>>
  @@ "routes.txt" :> <<[route_id |-> "r", agency_id |-> "a"], [route_id |-> "q", agency_id |-> None]>>
  @@ "trips.txt" :> <<TripRow("t", "r", "line", "0")>>
  @@ StopTimesTxt :> <<Call("t", "s", 3), Call("t", "u", 2), Call("t", "s", 1)>>
  @@ ShapesTxt :> <<Point("line", 2), Point("line", 1), Point("line", 3), Point("loop", 1)>>
  @@ "frequencies.txt" :> <<Period("t", 60, 30, 1)>>

\* What else each table may hold.
Others ==
  [t \in DOMAIN Whole |->
     {Absent, <<>>} \cup
     CASE t = "agency.txt" -> {<<Agency(None, "zone")>>, <<Agency("a", None)>>, <<Agency("b", "zone"), Agency("a", "other")>>}
       [] t = "stops.txt" -> {<<[stop_id |-> "s"], [stop_id |-> "s", location_type |-> 2]>>, <<[stop_id |-> "s", location_type |-> Bad]>>}
       [] t = "routes.txt" -> {<<[route_id |-> "r"]>>, <<[route_id |-> "r", agency_id |-> "z"]>>}
       [] t = "trips.txt" -> {<<TripRow("t", "r", "line", Odd), TripRow("t", "q", None, "0")>>, <<TripRow("t", "r", "loop", "0"), TripRow("v", "q", "line", "0")>>,
                              <<TripRow("t", "z", "none", "0")>>, <<TripRow("v", None, None, "0")>>}
       [] t = StopTimesTxt -> {<<Call("t", "s", None)>>, <<Call("t", "z", 1), Call("z", "s", 1)>>, <<Call("t", None, 1), Call("v", "u", 1), Call("t", "s", 1)>>,
                             <<Call("t", "s", Bad)>>}
       [] t = ShapesTxt -> {<<Point("line", 2), Point("line", 1), Point("line", 1)>>, <<Point("line", 1), Point("line", None)>>,
                         <<Point("line", 2), Point("line", 1), Point("line", 2), Point("line", 0)>>}
       [] t = "frequencies.txt" -> {<<Period("t", 60, 0, 1)>>, <<Period("t", 60, 0, None)>>, <<Period("t", None, -1, 1), Period("z", 60, 5, 2)>>,
                                    <<Period("t", 60, 5, 1), Period("v", 60, None, 1), Period("t", 60, -5, 1)>>, <<Period("t", 60, Bad, 1)>>}]

\* A whole feed with any two tables of it replaced.
Archives ==
  UNION {{[t \in DOMAIN Whole |-> IF t = a THEN x ELSE IF t = b THEN y ELSE Whole[t]] : x \in Others[a], y \in Others[b]} :
           a, b \in DOMAIN Whole}

-----------------------------------------------------------------------------
\* CommandLine
Plain == {"file", "gone", "name", "instant", "-", "dir"}

Compat == "--compat"
Abort == "--upstream-equal-message-abort"
CompatTokens == {"-gtfs", "-gtfsRealtimePath", "-sort", "-plainText", "-stats", "-ignoreShapes",
                 Compat, Abort, "-x", "file", "name"}
ModernTokens == {"-gtfs", "-rt", "-tu", "-sa", "--sort", "--at", "--ignore-shapes", "--fail-on-error", "--version", "-stats", Abort,
                 "file", "gone", "name", "instant", "dir"}

\* Any four tokens, before, between and after what makes a run.
Both == <<"-gtfs", "file", "-gtfsRealtimePath", "file">>
Argvs ==
  {<<Compat>> \o Both \o <<a, b, c>> : a, b, c \in CompatTokens}
  \cup {<<a, b>> \o <<Compat>> \o Both : a, b \in CompatTokens}
  \cup {<<"-gtfs", "file", a, b, "-gtfsRealtimePath", c, Compat>> : a, b, c \in CompatTokens \cup {"gone"}}
  \cup {<<"-gtfs", "file", "-rt", "file", a, b>> : a, b \in ModernTokens}
  \cup {<<"-gtfs", "file", a, "file", b, c>> : a, b \in ModernTokens, c \in {"-rt", "-tu", "--at", "file", "dir"}}
  \cup {<<a, b>> : a, b \in ModernTokens}

-----------------------------------------------------------------------------
\* Requests
Msg(n, f, s) == [name |-> n, decodes |-> TRUE, same |-> s, found |-> f]
Broken == [name |-> "bad", decodes |-> FALSE, same |-> FALSE, found |-> <<>>]

Replays ==
  {<<Msg("a", 1 :> 2 @@ 3 :> 1, FALSE), Broken, Msg("b", 2 :> 1 @@ 3 :> 2, TRUE)>>, <<Msg("a", 3 :> 1, FALSE), Msg("c", <<>>, FALSE)>>}
OutputOrder == <<3, 1, 2>>
\* Two differ in the mode alone, two in the shapes, and compat's flag comes to each mode.
Arguments ==
  {[mode |-> "compat", ignore_shapes |-> FALSE, abort |-> abort] : abort \in BOOLEAN}
  \cup {[mode |-> "modern", ignore_shapes |-> given, abort |-> given] : given \in BOOLEAN}

-----------------------------------------------------------------------------
\* Registry
Declared == <<<<"W", 1>>, <<"E", 1>>, <<"E", 2>>>>
Reachable == {<<"W", 1>>, <<"E", 1>>}
Grave == {<<"E", 1>>, <<"E", 2>>}

Mod(tier, private, id, source, severity) ==
  [tier |-> tier, private |-> private, id |-> id, source |-> source, severity |-> severity]

Right ==
  {Mod("upstream", FALSE, Declared[k], None, None) : k \in 1..3}
  \cup {Mod("spec", p, <<"S", 1>>, "spec", "WARNING") : p \in BOOLEAN}
  \cup {Mod("spec", FALSE, <<"S", 2>>, "spec", "ERROR"), Mod("practice", FALSE, <<"P", 1>>, "practice", "ERROR")}

Wrong ==
  {Mod("upstream", FALSE, <<"E", 9>>, None, None), Mod("upstream", FALSE, <<"E", 1>>, "spec", None),
   Mod("upstream", FALSE, <<"E", 1>>, None, "ERROR"), Mod("spec", FALSE, <<"E", 1>>, "spec", "ERROR"),
   Mod("spec", FALSE, <<"S", 1>>, "practice", "ERROR"), Mod("practice", FALSE, <<"P", 1>>, "practice", None),
   Mod("practice", FALSE, <<"S", 1>>, "practice", "ERROR"), Mod("_shared", FALSE, <<"E", 1>>, None, None)}

Trees == {<<a, b, c>> : a, b \in Right, c \in Right \cup Wrong} \cup {<<a, b, c>> : a \in Wrong, b, c \in Right}

-----------------------------------------------------------------------------
\* ReplayDirectory
Name(s, ext) == <<s, ext>>
NameOrder == <<Name("10", ".pb"), Name("10", ".txt"), Name("20", ".pb"), Name("no", ".pb"), Name("s", ""), Name("s", ".d")>>
Instants == [s \in {"10", "20"} |-> IF s = "10" THEN 10 ELSE 20]

Entry(name, kind, mtime) == [name |-> name, kind |-> kind, mtime |-> mtime]
Disk(a, b, c, k) == [f \in {"a", "b", "c", "d"} |->
  CASE f = "a" -> Entry(NameOrder[a[1]], "file", a[2]) [] f = "b" -> Entry(NameOrder[b[1]], "file", b[2])
    [] f = "c" -> Entry(NameOrder[c[1]], "file", c[2]) [] f = "d" -> Entry(NameOrder[6], k, 1)]
Disks == {Disk(<<n, 1>>, <<2, 2>>, <<m, t>>, "dir") : n \in {1, 4}, m \in {3, 5}, t \in {1, 2, 3}}

Request(sort, pinned, replay) == [sort |-> sort, at |-> pinned, directory_replay |-> replay]
RunRequests == {Request(s, p, TRUE) : s \in {"date", "name"}, p \in {None, 7}} \cup {Request("date", None, FALSE)}
=============================================================================
