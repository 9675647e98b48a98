---------------------------- MODULE DetourRules ----------------------------
(***************************************************************************)
(* Trip modifications and the shapes and stops a feed defines for itself   *)
(* (rules/_shared/walk_trip_modifications.py, feed_index.py,               *)
(* references.py, realtime_shapes.py, servicedates.py and the rules S016,  *)
(* S020 and S041 to S050), over the roles of a cycle.                      *)
(***************************************************************************)
EXTENDS TimeTexts, FiniteSets, SequencesExt

CONSTANTS
  Cycles,                 \* functions from roles to messages
  RoleOrder,              \* the roles, the first present reporting for the cycle
  Strings,
  None,
  shape_ids, shapes_withheld,
  stop_location_types,    \* per stop of stops.txt its location_type, None where the column is absent
  now_seconds,            \* the run's clock
  utc_offset              \* of the agency's zone at that time

VARIABLES cycle, pending, found

vars == <<cycle, pending, found>>

-----------------------------------------------------------------------------
Relationship == {None, "SCHEDULED", "REPLACEMENT", "DUPLICATED"}

TripUpdate ==
  [trip_id : Strings \cup {None}, schedule_relationship : Relationship,
   new_trip_id : Strings \cup {None}, shape_id : Strings \cup {None}]     \* of its trip_properties

\* points is what decoded, for a path that broke as well.
Polyline == [points : Seq(Int), error : BOOLEAN]

Shape == [shape_id : Strings \cup {None}, encoded_polyline : Polyline \cup {None}]

SelectedTrips == [trip_ids : Seq(Strings), shape_id : Strings \cup {None}]

StopSelector == [stop_sequence : BOOLEAN, stop_id : Strings \cup {None}]

ReplacementStop == [stop_id : Strings \cup {None}, travel_time_to_stop : Int \cup {None}]

Modification ==
  [start_stop_selector : StopSelector \cup {None}, end_stop_selector : StopSelector \cup {None},
   replacement_stops : Seq(ReplacementStop)]

TripModifications ==
  [selected_trips : Seq(SelectedTrips), service_dates : Seq(Text), modifications : Seq(Modification)]

Entity ==
  [id : Strings, trip_update : TripUpdate \cup {None}, shape : Shape \cup {None},
   stop : Strings \cup {None}, trip_modifications : TripModifications \cup {None},
   vehicle : (Strings \X Relationship) \cup {None}]

stop_ids == DOMAIN stop_location_types

\* What the program hands this part: the instances assume it.
LegalInputs ==
  /\ \A c \in Cycles : DOMAIN c \subseteq Range(RoleOrder)
  /\ None \notin Strings /\ shape_ids \cup stop_ids \subseteq Strings
  /\ shapes_withheld \in BOOLEAN /\ now_seconds \in Nat /\ utc_offset \in Int

-----------------------------------------------------------------------------
(* What a message defines, and how a reference finds it.                   *)

\* A mistake: only what comes before the reference is defined.
defined_before(m, i, payload) == {m[k][payload] : k \in 1..i} \ {None}

\* The order of a feed's entities means nothing: what is defined is what the
\* whole message defines.
defined(m, i, payload) == {m[k][payload] : k \in DOMAIN m} \ {None}

defines_shape(m, i, shape_id) == \E s \in defined(m, i, "shape") : s.shape_id = shape_id

defines_stop(m, i, stop_id) == stop_id \in defined(m, i, "stop")

entity_ids(m) == {m[i].id : i \in DOMAIN m}

trip_property_trip_ids(m) == {u.new_trip_id : u \in defined(m, 0, "trip_update")} \ {None}

replacement_trip_updates(m) ==
  {u.trip_id : u \in {w \in defined(m, 0, "trip_update") : w.schedule_relationship = "REPLACEMENT"}} \ {None}

shape_resolves(m, i, shape_id) == shape_id \in shape_ids \/ defines_shape(m, i, shape_id)

stop_resolves(m, i, stop_id) == stop_id \in stop_ids \/ defines_stop(m, i, stop_id)

\* A replacement may be a stop the feed defines, a selected stop may not.
selected_stop_resolves(stop_id) == stop_id \in stop_ids

-----------------------------------------------------------------------------
(* The walk: every TripModifications, modification and replacement stop,   *)
(* with its place.                                                         *)

trip_modifications(m) == {<<i, m[i].trip_modifications>> : i \in {k \in DOMAIN m : m[k].trip_modifications # None}}

modifications(m) ==
  UNION {{<<o[1], j, o[2].modifications[j]>> : j \in DOMAIN o[2].modifications} : o \in trip_modifications(m)}

replacement_stops(m) ==
  UNION {{<<d[1], <<d[2], k>>, d[3].replacement_stops[k]>> : k \in DOMAIN d[3].replacement_stops} : d \in modifications(m)}

Found(rule, role, entity, place, confused) ==
  [rule |-> rule, role |-> role, entity |-> entity, place |-> place, confused |-> confused]

S016(r, m) ==
  IF shapes_withheld THEN {}
  ELSE {Found("S016", r, i, <<>>, m[i].trip_update.shape_id \in entity_ids(m)) :
          i \in {k \in DOMAIN m : /\ m[k].trip_update # None /\ m[k].trip_update.shape_id # None
                                  /\ ~shape_resolves(m, k, m[k].trip_update.shape_id)}}

\* The selections of a shape no one defines.
unresolved_selections(r, m) ==
  UNION {{Found("S044", r, o[1], <<k>>, o[2].selected_trips[k].shape_id \in entity_ids(m)) :
            k \in {l \in DOMAIN o[2].selected_trips :
                     /\ o[2].selected_trips[l].shape_id # None
                     /\ ~shape_resolves(m, o[1], o[2].selected_trips[l].shape_id)}} : o \in trip_modifications(m)}

\* A run told to ignore shapes cannot tell.
S044(r, m) == IF shapes_withheld THEN {} ELSE unresolved_selections(r, m)

S041(r, m) ==
  {Found("S041", r, d[1], <<d[2]>>, FALSE) : d \in {c \in modifications(m) : c[3].start_stop_selector = None}}

\* Both selectors of every modification, those on the wire.
Selectors(m) ==
  UNION {{<<d[1], <<d[2], IF n = "start_stop_selector" THEN 1 ELSE 2>>, d[3][n]>> :
            n \in {f \in {"start_stop_selector", "end_stop_selector"} : d[3][f] # None}} : d \in modifications(m)}

S042(r, m) ==
  {Found("S042", r, s[1], s[2], FALSE) : s \in {t \in Selectors(m) : ~t[3].stop_sequence /\ t[3].stop_id = None}}

S043(r, m) ==
  {Found("S043", r, s[1], s[2], defines_stop(m, s[1], s[3].stop_id)) :
     s \in {t \in Selectors(m) : t[3].stop_id # None /\ ~selected_stop_resolves(t[3].stop_id)}}

S046(r, m) ==
  {Found("S046", r, s[1], s[2], s[3].stop_id \in entity_ids(m)) :
     s \in {t \in replacement_stops(m) : t[3].stop_id # None /\ ~stop_resolves(m, t[1], t[3].stop_id)}}

S047(r, m) ==
  {Found("S047", r, s[1], s[2], FALSE) :
     s \in {t \in replacement_stops(m) : t[3].stop_id \in stop_ids /\ stop_location_types[t[3].stop_id] \notin {0, None}}}

\* The highest of the first k values; a value that is reported does not move it.
highest(stops, k) ==
  LET before == {stops[j].travel_time_to_stop : j \in 1..k} \ {None}
  IN  IF before = {} THEN None ELSE CHOOSE t \in before : \A u \in before : u <= t

S048(r, m) ==
  UNION {{Found("S048", r, d[1], <<d[2], k>>, FALSE) :
            k \in {l \in DOMAIN d[3].replacement_stops :
                     LET stops == d[3].replacement_stops
                     IN  /\ stops[l].travel_time_to_stop # None /\ highest(stops, l - 1) # None
                         /\ stops[l].travel_time_to_stop < highest(stops, l - 1)}} : d \in modifications(m)}

-----------------------------------------------------------------------------
(* The days of a detour.                                                   *)

\* How many days of the calendar before the first of a month, and the date.
ordinal(y, mo, d) ==
  LET of_months[k \in 1..12] == IF k = 1 THEN 0 ELSE of_months[k - 1] + days_in(y, k - 1)
  IN  365 * (y - 1) + ((y - 1) \div 4) - ((y - 1) \div 100) + ((y - 1) \div 400) + of_months[mo] + d

\* The day the clock falls on in the feed's own zone.
run_date == ordinal(1970, 1, 1) + (now_seconds + utc_offset) \div 86400

Dates(m) ==
  UNION {{<<o[1], k, o[2].service_dates[k]>> : k \in DOMAIN o[2].service_dates} : o \in trip_modifications(m)}

outside_the_week(t) ==
  parse_service_date(t) /\ ordinal(year(t), month(t), day(t)) - run_date \notin 0..7

S049(r, m) == {Found("S049", r, d[1], <<d[2]>>, FALSE) : d \in {c \in Dates(m) : outside_the_week(c[3])}}

S050(r, m) == {Found("S050", r, d[1], <<d[2]>>, FALSE) : d \in {c \in Dates(m) : ~parse_service_date(c[3])}}

-----------------------------------------------------------------------------
(* What is told once for a cycle.                                          *)

host_role == RoleOrder[CHOOSE k \in DOMAIN RoleOrder :
                         RoleOrder[k] \in DOMAIN cycle /\ \A j \in 1..(k - 1) : RoleOrder[j] \notin DOMAIN cycle]

\* The roles one role reports for.
combined(role) == IF role = host_role THEN DOMAIN cycle ELSE {}

created == UNION {trip_property_trip_ids(cycle[r]) : r \in DOMAIN cycle}
replaced == UNION {replacement_trip_updates(cycle[r]) : r \in DOMAIN cycle}

\* A vehicle that runs a duplicate no update of any file made.
S020(role) ==
  UNION {{Found("S020", r, i, <<>>, FALSE) :
            i \in {k \in DOMAIN cycle[r] : /\ cycle[r][k].vehicle # None
                                           /\ cycle[r][k].vehicle[2] = "DUPLICATED"
                                           /\ cycle[r][k].vehicle[1] \notin created}} : r \in combined(role)}

S045(role) ==
  UNION {UNION {{Found("S045", r, o[1], <<k, l>>, FALSE) :
                   l \in {n \in DOMAIN o[2].selected_trips[k].trip_ids : o[2].selected_trips[k].trip_ids[n] \in replaced}} :
                <<o, k>> \in UNION {{<<q, j>> : j \in DOMAIN q[2].selected_trips} : q \in trip_modifications(cycle[r])}} :
         r \in combined(role)}

-----------------------------------------------------------------------------
(* The path a trip claims.                                                 *)

\* The entities of a cycle, role by role.
entities == FlattenSeq([k \in DOMAIN RoleOrder |-> IF RoleOrder[k] \in DOMAIN cycle THEN cycle[RoleOrder[k]] ELSE <<>>])

last(seq, Matches(_)) ==
  LET at == {k \in DOMAIN seq : Matches(seq[k])} IN IF at = {} THEN 0 ELSE CHOOSE k \in at : \A j \in at : j <= k

publishes(shape, shape_id) ==
  /\ shape # None /\ shape.shape_id = shape_id
  /\ shape.encoded_polyline # None /\ ~shape.encoded_polyline.error

published(seq, shape_id) ==
  LET k == last(seq, LAMBDA e : publishes(e.shape, shape_id))
  IN  IF k = 0 THEN <<>> ELSE seq[k].shape.encoded_polyline.points

\* The claims of an entity: the trip a TripUpdate makes or names, and those a
\* detour selects.
claims(e) ==
  LET of_update == LET u == e.trip_update IN
        IF u = None \/ u.shape_id = None THEN <<>>
        ELSE IF u.new_trip_id # None THEN <<<<u.new_trip_id, u.shape_id>>>>
        ELSE IF u.trip_id # None THEN <<<<u.trip_id, u.shape_id>>>> ELSE <<>>
      of_selected(s) == IF s.shape_id = None THEN <<>> ELSE [k \in DOMAIN s.trip_ids |-> <<s.trip_ids[k], s.shape_id>>]
  IN  of_update \o (IF e.trip_modifications = None THEN <<>>
                    ELSE FlattenSeq([k \in DOMAIN e.trip_modifications.selected_trips |->
                                       of_selected(e.trip_modifications.selected_trips[k])]))

\* The points of the last shape each trip claims, where they decode to any.
shapes_by_trip(seq) ==
  LET claimed == FlattenSeq([k \in DOMAIN seq |-> claims(seq[k])])
      path(t) == published(seq, claimed[last(claimed, LAMBDA c : c[1] = t)][2])
  IN  [t \in {u \in {claimed[k][1] : k \in DOMAIN claimed} : path(u) # <<>>} |-> path(t)]

-----------------------------------------------------------------------------
OfMessage(r, m) ==
  S016(r, m) \cup S041(r, m) \cup S042(r, m) \cup S043(r, m) \cup S044(r, m) \cup S046(r, m)
  \cup S047(r, m) \cup S048(r, m) \cup S049(r, m) \cup S050(r, m)

Init ==
  /\ cycle \in Cycles
  /\ pending = SelectSeq(RoleOrder, LAMBDA r : r \in DOMAIN cycle)
  /\ found = <<>>

Validate ==
  /\ pending # <<>>
  /\ LET r == Head(pending)
     IN  found' = Append(found, OfMessage(r, cycle[r]) \cup S020(r) \cup S045(r))
  /\ pending' = Tail(pending)
  /\ UNCHANGED cycle

Next == Validate

Spec == Init /\ [][Next]_vars

-----------------------------------------------------------------------------
\* What each role reports is at an entity of a role of the cycle, its own or,
\* for the host, any.
TypeOK ==
  \A k \in DOMAIN found : \A f \in found[k] :
    /\ f.role \in DOMAIN cycle /\ f.entity \in DOMAIN cycle[f.role]
    /\ f.place \in Seq(Nat) /\ f.confused \in BOOLEAN
    /\ k > 1 => f.rule \notin {"S020", "S045"}

All == UNION Range(found)

\* The order of a feed's entities is specified nowhere and decides nothing: a
\* message read backwards has the same findings at the same entities (the index
\* is of the whole message, feed_index._build).
OrderOfEntitiesDecidesNothing ==
  pending = <<>> =>
    \A r \in DOMAIN cycle :
      LET m == cycle[r]
      IN  OfMessage(r, Reverse(m)) = {[f EXCEPT !.entity = Len(m) + 1 - @] : f \in OfMessage(r, m)}

\* The one sentence that S016 and S044 both cite is read one way: where an
\* update and a detour of a message name the same shape, both are reported or
\* neither, with the same hint, and a run told to ignore shapes reports
\* neither.
OneSentenceOneReading ==
  pending = <<>> =>
    \A r \in DOMAIN cycle : \A i, j \in DOMAIN cycle[r] :
      LET m == cycle[r] IN
      m[i].trip_update # None /\ m[j].trip_modifications # None =>
        \A k \in DOMAIN m[j].trip_modifications.selected_trips :
          m[j].trip_modifications.selected_trips[k].shape_id = m[i].trip_update.shape_id =>
            \A b \in BOOLEAN : /\ Found("S016", r, i, <<>>, b) \in All <=> Found("S044", r, j, <<k>>, b) \in All
                               /\ shapes_withheld => Found("S016", r, i, <<>>, b) \notin All

\* The stops of a modification that S048 does not report go forward in time,
\* and one that it does report goes back behind one that it does not.
WhatIsLeftGoesForward ==
  pending = <<>> =>
    \A r \in DOMAIN cycle : \A d \in modifications(cycle[r]) :
      LET stops    == d[3].replacement_stops
          timed    == {k \in DOMAIN stops : stops[k].travel_time_to_stop # None}
          reported == {k \in timed : Found("S048", r, d[1], <<d[2], k>>, FALSE) \in All}
          time(k)  == stops[k].travel_time_to_stop
      IN  /\ \A j, k \in timed \ reported : j < k => time(j) <= time(k)
          /\ \A k \in reported : \E j \in timed \ reported : j < k /\ time(k) < time(j)

\* The day after a date, as a calendar turns.
Tomorrow(date) ==
  IF date[3] < days_in(date[1], date[2]) THEN <<date[1], date[2], date[3] + 1>>
  ELSE IF date[2] < 12 THEN <<date[1], date[2] + 1, 1>> ELSE <<date[1] + 1, 1, 1>>

\* The days that precede a year since 1970, and the date n days after its first.
Before[y \in Nat] == IF y = 1970 THEN 0 ELSE Before[y - 1] + (IF is_leap(y - 1) THEN 366 ELSE 365)

Week ==
  LET today == (now_seconds + utc_offset) \div 86400
      y     == CHOOSE z \in 1970..2100 : Before[z] <= today /\ today < Before[z + 1]
      days[n \in Nat] == IF n = 0 THEN <<y, 1, 1>> ELSE Tomorrow(days[n - 1])
  IN  {days[today - Before[y] + n] : n \in 0..7}

\* A service date is silent exactly when it is written as one of the eight days
\* that begin with the run's, in the agency's zone; every other text is one
\* finding, of S050 when it is no date and of S049 when it is.
EightDaysAreSilent ==
  pending = <<>> =>
    \A r \in DOMAIN cycle : \A d \in Dates(cycle[r]) :
      LET t == d[3]
          of(rule) == Found(rule, r, d[1], <<d[2]>>, FALSE) \in All
      IN  /\ ~(of("S049") /\ of("S050"))
          /\ ~(of("S049") \/ of("S050")) <=> IsEightDigits(t) /\ <<year(t), month(t), day(t)>> \in Week

\* How a producer splits a feed over its files does not decide what is said of
\* a duplicate and of a replaced trip: each is said once for the cycle, as it
\* is of one message with everything in it (rules S020 and S045, by the host).
SplittingDecidesNothing ==
  pending = <<>> =>
    LET all      == entities
        said(rule) == LET count[k \in 0..Len(found)] ==
                            IF k = 0 THEN 0
                            ELSE count[k - 1] + Cardinality({f \in found[k] : f.rule = rule})
                      IN  count[Len(found)]
        made     == {all[k].trip_update.new_trip_id : k \in {j \in DOMAIN all : all[j].trip_update # None}}
        taken    == {all[k].trip_update.trip_id :
                       k \in {j \in DOMAIN all : all[j].trip_update # None /\ all[j].trip_update.schedule_relationship = "REPLACEMENT"}}
    IN  /\ said("S020") = Cardinality({k \in DOMAIN all : all[k].vehicle # None /\ all[k].vehicle[2] = "DUPLICATED" /\ all[k].vehicle[1] \notin made})
        /\ said("S045") = Cardinality(UNION {UNION {{<<k, s, n>> : n \in {l \in DOMAIN all[k].trip_modifications.selected_trips[s].trip_ids :
                                                          all[k].trip_modifications.selected_trips[s].trip_ids[l] \in taken}} :
                                                    s \in DOMAIN all[k].trip_modifications.selected_trips} :
                                             k \in {j \in DOMAIN all : all[j].trip_modifications # None}})

\* A shape that does not decode says nothing of the path a trip has: published
\* again and broken, before or after, it takes no trip's path away and gives
\* none one, and a trip that has a path has points to be measured against
\* (realtime_shapes._publish and _scan).
ABrokenShapeDecidesNothing ==
  pending = <<>> =>
    /\ \A t \in DOMAIN shapes_by_trip(entities) : shapes_by_trip(entities)[t] # <<>>
    /\ \A k \in {j \in DOMAIN entities : entities[j].shape # None} :
         LET broken == [entities[k] EXCEPT !.shape.encoded_polyline = [points |-> <<8>>, error |-> TRUE]]
         IN  shapes_by_trip(Append(entities, broken)) = shapes_by_trip(entities)
=============================================================================
