----------------------------- MODULE TripRules -----------------------------
(***************************************************************************)
(* The rules that turn on a schedule_relationship                          *)
(* (rules/_shared/schedule_relationship.py and the rules of rules/spec,    *)
(* rules/practice and rules/upstream that read it).                        *)
(*                                                                         *)
(* Each was written from one sentence of the specification; what is worth  *)
(* checking is what several of them say together.  A finding is a rule at  *)
(* a place, its text left out.                                             *)
(***************************************************************************)
EXTENDS Integers, Sequences, FiniteSets

CONSTANTS
  Exchanges,          \* the pairs of a message and its previous one, or None, that may be met
  Strings,            \* ids, dates and times
  None,               \* a field that is absent
  trips,              \* the trip_ids of trips.txt
  stop_ids,
  exact_times_zero_trip_ids, exact_times_one_trips,
  trip_stop_times,    \* per trip its rows, in order
  now_millis

VARIABLES message, previous, pc, found

vars == <<message, previous, pc, found>>

-----------------------------------------------------------------------------
Event == [time : Int \cup {None}, delay : BOOLEAN, scheduled_time : BOOLEAN]

StopTimeUpdate ==
  [stop_sequence : Nat \cup {None}, stop_id : Strings \cup {None}, assigned_stop_id : Strings \cup {None},
   schedule_relationship : {None, "SCHEDULED", "SKIPPED", "NO_DATA", "UNSCHEDULED"},
   arrival : Event \cup {None}, departure : Event \cup {None}, departure_occupancy_status : BOOLEAN]

TripDescriptor ==
  [trip_id : Strings \cup {None}, route_id : Strings \cup {None}, direction_id : Nat \cup {None},
   start_time : Strings \cup {None}, start_date : Strings \cup {None}, modified_trip : BOOLEAN,
   schedule_relationship : {None, "SCHEDULED", "ADDED", "UNSCHEDULED", "CANCELED",
                            "REPLACEMENT", "DUPLICATED", "NEW", "DELETED"}]

\* An absent trip_properties reads as one with every field absent.
TripProperties ==
  [trip_id : Strings \cup {None}, start_date : Strings \cup {None}, start_time : Strings \cup {None},
   trip_headsign : BOOLEAN]

TripUpdate ==
  [trip : TripDescriptor, stop_time_update : Seq(StopTimeUpdate), delay : BOOLEAN,
   trip_properties : TripProperties]

\* A vehicle and a selector are their trip.
Entity ==
  [trip_update : TripUpdate \cup {None}, vehicle : TripDescriptor \cup {None},
   alert : Seq(TripDescriptor \cup {None})]

Row == [stop_sequence : Nat, stop_id : Strings, arrival_time : BOOLEAN, departure_time : BOOLEAN]

\* What the program hands this part: the instances assume it.
LegalInputs ==
  /\ \A e \in Exchanges : e[1] \in Seq(Entity) /\ e[2] \in Seq(Entity) \cup {None}
  /\ trips \cup stop_ids \cup exact_times_zero_trip_ids \cup exact_times_one_trips \subseteq Strings
  /\ \A t \in DOMAIN trip_stop_times : trip_stop_times[t] \in Seq(Row)
  /\ None \notin Strings

-----------------------------------------------------------------------------
(* What every rule reads, resolved once.                                   *)

\* Both enums have SCHEDULED for their default.
resolved(written) == IF written = None THEN "SCHEDULED" ELSE written

\* Every descriptor of a message, where it is and what carries it.
relationships(m) ==
  UNION {
    LET e == m[i]
        At(payload, position, trip) ==
          [entity |-> i, payload |-> payload, position |-> position, trip |-> trip]
    IN  (IF e.trip_update = None THEN {} ELSE {At("trip_update", 0, e.trip_update.trip)})
        \cup (IF e.vehicle = None THEN {} ELSE {At("vehicle", 0, e.vehicle)})
        \cup {At("alert", p, e.alert[p]) : p \in {q \in DOMAIN e.alert : e.alert[q] # None}}
    : i \in DOMAIN m}

\* The order they come in: entity after entity, and of one entity its trip_update,
\* its vehicle and the selectors of its alert.
Precedes(a, b) ==
  LET rank == [trip_update |-> 1, vehicle |-> 2, alert |-> 3]
  IN  \/ a.entity < b.entity
      \/ a.entity = b.entity /\ rank[a.payload] < rank[b.payload]
      \/ a.entity = b.entity /\ a.payload = b.payload /\ a.position < b.position

Has(trip_update, p, event) == trip_update.stop_time_update[p][event] # None

relationship(trip_update) == resolved(trip_update.trip.schedule_relationship)

stop_time_relationship(trip_update, p) ==
  resolved(trip_update.stop_time_update[p].schedule_relationship)

Events == {"arrival", "departure"}

\* The entities of a message that carry a TripUpdate.
Carrying(m) == {i \in DOMAIN m : m[i].trip_update # None}

\* The places of a trip_update's stop_time_updates with relationship r.
With(trip_update, r) ==
  {p \in DOMAIN trip_update.stop_time_update : stop_time_relationship(trip_update, p) = r}

Found(rule, entities, position, field) ==
  [rule |-> rule, entities |-> entities, position |-> position, field |-> field]

\* A rule whose occurrences are the places of single TripUpdates.
Places(rule, PlacesOf(_)) ==
  {Found(rule, {d[1]}, d[2][1], d[2][2]) :
     d \in UNION {{i} \X PlacesOf(message[i].trip_update) : i \in Carrying(message)}}

\* One occurrence for each of some updates, and one for a trip.
Updates(positions) == positions \X {""}
WholeTrip(condition) == IF condition THEN {<<0, "">>} ELSE {}
-----------------------------------------------------------------------------
(* UNSCHEDULED and frequencies.txt.                                        *)

\* A half is a TripUpdate or a vehicle.
frequency_zero_halves(m) ==
  {r \in relationships(m) : r.payload # "alert" /\ r.trip.trip_id \in exact_times_zero_trip_ids}

absent_of_required(trip) == {f \in {"start_date", "start_time"} : trip[f] = None}

\* Each half, each field on its own.
E006 ==
  UNION {{Found("E006", {r.entity}, IF r.payload = "vehicle" THEN 1 ELSE 0, f) : f \in absent_of_required(r.trip)} :
           r \in frequency_zero_halves(message)}

E013 ==
  {Found("E013", {r.entity}, 0, r.payload) :
     r \in {h \in frequency_zero_halves(message) :
              h.trip.schedule_relationship \notin {None, "UNSCHEDULED"}}}

\* The trip once, however many of its updates.
S007 == Places("S007", LAMBDA u :
  WholeTrip(u.trip.trip_id \in exact_times_zero_trip_ids /\ With(u, "SCHEDULED") # {}))

S008 == Places("S008", LAMBDA u :
  IF u.trip.trip_id \in exact_times_zero_trip_ids \cup {None} THEN {} ELSE Updates(With(u, "UNSCHEDULED")))

S009 == Places("S009", LAMBDA u :
  WholeTrip(relationship(u) # "UNSCHEDULED" /\ With(u, "UNSCHEDULED") # {}))

S010 == Places("S010", LAMBDA u :
  IF relationship(u) = "UNSCHEDULED"
  THEN Updates(DOMAIN u.stop_time_update \ With(u, "UNSCHEDULED")) ELSE {})

P013 == Places("P013", LAMBDA u :
  IF u.trip.trip_id \in exact_times_zero_trip_ids
  THEN {pe \in (DOMAIN u.stop_time_update) \X Events :
          Has(u, pe[1], pe[2]) /\ u.stop_time_update[pe[1]][pe[2]].delay}
  ELSE {})

-----------------------------------------------------------------------------
(* The times an update gives.                                              *)

S004 == Places("S004", LAMBDA u :
  IF relationship(u) \in {"NEW", "REPLACEMENT", "DUPLICATED"} THEN {}
  ELSE {pe \in (DOMAIN u.stop_time_update) \X Events :
          Has(u, pe[1], pe[2]) /\ u.stop_time_update[pe[1]][pe[2]].scheduled_time})

S005 == Places("S005", LAMBDA u :
  Updates({p \in DOMAIN u.stop_time_update :
             /\ u.stop_time_update[p].departure_occupancy_status
             /\ \A e \in Events : ~Has(u, p, e)
             /\ stop_time_relationship(u, p) # "NO_DATA"}))

\* The stops a trip visits more than once.
repeated_stops(rows) == {rows[k].stop_id : k \in {l \in DOMAIN rows : \E j \in 1..(l - 1) : rows[j].stop_id = rows[l].stop_id}}

first(rows, Matches(_)) ==
  LET at == {k \in DOMAIN rows : Matches(rows[k])}
  IN  IF at = {} THEN 0 ELSE CHOOSE k \in at : \A j \in at : k <= j

\* The row an update is about, by sequence and then by id; 0 where neither decides it.
position_of(update, rows) ==
  IF update.stop_sequence # None THEN first(rows, LAMBDA row : row.stop_sequence = update.stop_sequence)
  ELSE IF update.stop_id = None \/ update.stop_id \in repeated_stops(rows) THEN 0
  ELSE first(rows, LAMBDA row : row.stop_id = update.stop_id)

\* The event that is not given does not happen at this stop.
at_a_terminal(given, position, total) ==
  IF given = "departure" THEN position = 1 ELSE position = total

Rows(trip_id) == IF trip_id \in DOMAIN trip_stop_times THEN trip_stop_times[trip_id] ELSE <<>>

S006 == Places("S006", LAMBDA u :
  LET rows == Rows(u.trip.trip_id)
  IN  {pe \in With(u, "SCHEDULED") \X Events :
         LET position == position_of(u.stop_time_update[pe[1]], rows)
         IN  /\ position # 0
             /\ rows[position].arrival_time /\ rows[position].departure_time
             /\ {e \in Events : Has(u, pe[1], e)} = {pe[2]}
             /\ ~at_a_terminal(pe[2], position, Len(rows))})

calls_at_no_stop(u) ==
  u.stop_time_update # <<>> /\ With(u, "SKIPPED") = DOMAIN u.stop_time_update

P007 == Places("P007", LAMBDA u :
  WholeTrip(relationship(u) \notin {"CANCELED", "NEW", "DUPLICATED"} /\ calls_at_no_stop(u)))

predicts_ahead(u, p, event) ==
  /\ Has(u, p, event)
  /\ u.stop_time_update[p][event].time # None
  /\ u.stop_time_update[p][event].time * 1000 > now_millis

P008 == Places("P008", LAMBDA u :
  WholeTrip(/\ relationship(u) \notin {"CANCELED", "DELETED"}
            /\ u.stop_time_update # <<>>
            /\ ~calls_at_no_stop(u)
            /\ ~\E p \in DOMAIN u.stop_time_update, e \in Events : predicts_ahead(u, p, e)))

P010 == Places("P010", LAMBDA u :
  WholeTrip(/\ relationship(u) \in {"NEW", "REPLACEMENT"}
            /\ u.stop_time_update # <<>>
            /\ ~\E p \in DOMAIN u.stop_time_update, e \in Events :
                   Has(u, p, e) /\ u.stop_time_update[p][e].scheduled_time))

-----------------------------------------------------------------------------
(* What a trip of a kind must and must not say.                            *)

Fields == {"trip_id", "start_date", "start_time"}

populated(u) == {f \in Fields : u.trip_properties[f] # None}

S013 == Places("S013", LAMBDA u : IF relationship(u) = "DUPLICATED" THEN {0} \X (Fields \ populated(u)) ELSE {})
S014 == Places("S014", LAMBDA u : IF relationship(u) # "DUPLICATED" THEN {0} \X populated(u) ELSE {})
S015 == Places("S015", LAMBDA u : WholeTrip(u.trip_properties.trip_id \in trips))
S017 == Places("S017", LAMBDA u : WholeTrip(relationship(u) = "NEW" /\ u.delay))
P009 == Places("P009", LAMBDA u : WholeTrip(relationship(u) = "NEW" /\ ~u.trip_properties.trip_headsign))

S011 == Places("S011", LAMBDA u :
  Updates({p \in DOMAIN u.stop_time_update :
             LET update == u.stop_time_update[p]
             IN  None \notin {update.stop_id, update.assigned_stop_id} /\ update.stop_id # update.assigned_stop_id}))

S012 == Places("S012", LAMBDA u :
  Updates({p \in DOMAIN u.stop_time_update :
             u.stop_time_update[p].assigned_stop_id \notin stop_ids \cup {None}}))

route_scoped(trip) == trip.route_id # None /\ trip.trip_id = None

S018 == Places("S018", LAMBDA u :
  IF route_scoped(u.trip) THEN Updates({p \in DOMAIN u.stop_time_update : u.stop_time_update[p].stop_id = None}) ELSE {})

S019 == Places("S019", LAMBDA u :
  IF route_scoped(u.trip)
  THEN {pe \in (DOMAIN u.stop_time_update) \X Events :
          Has(u, pe[1], pe[2]) /\ u.stop_time_update[pe[1]][pe[2]].time = None}
  ELSE {})

EMPTIED == {"trip_id", "route_id", "direction_id", "start_time", "start_date"}

S023 ==
  {Found("S023", {r.entity}, r.position, r.payload) :
     r \in {d \in relationships(message) : d.trip.modified_trip /\ \E f \in EMPTIED : d.trip[f] # None}}

\* Only what was written, never a default.
S024 ==
  {Found("S024", {r.entity}, r.position, r.payload) :
     r \in {d \in relationships(message) : d.trip.schedule_relationship = "ADDED"}}

-----------------------------------------------------------------------------
(* Which instance of a trip a descriptor means.                            *)

scheduled(trip_id) ==
  trip_id \in trips \ (exact_times_zero_trip_ids \cup exact_times_one_trips)

\* A mistake: the start_time is a part of every instance.
with_start_time(trip) ==
  <<trip.trip_id, trip.start_date, trip.start_time>>

instance(trip) ==
  <<trip.trip_id, trip.start_date, IF scheduled(trip.trip_id) THEN None ELSE trip.start_time>>

S003 ==
  LET trip(i) == message[i].trip_update.trip
      named   == {i \in Carrying(message) : trip(i).trip_id # None}
      groups  == {{j \in named : instance(trip(j)) = instance(trip(i))} : i \in named}
  IN  {Found("S003", g, 0, "") : g \in {h \in groups : Cardinality(h) > 1}}

\* An instance stated with two start_times states none.
unambiguous(times) == IF Cardinality(times) = 1 THEN times ELSE {}

\* The descriptors of a message that state a start_time for an instance.
_stated(m, of) ==
  {r \in relationships(m) : <<r.trip.trip_id, r.trip.start_date>> = of /\ r.trip.start_time # None}

\* The start_time a message establishes for an instance: a set of one, or none.
start_times(m, of) == unambiguous({r.trip.start_time : r \in _stated(m, of)})

\* One per instance whose start_time moved, at the first descriptor that states it.
S021 ==
  IF previous = None THEN {}
  ELSE LET frequency == {r \in relationships(message) : r.trip.trip_id \in exact_times_zero_trip_ids}
           instances == {<<r.trip.trip_id, r.trip.start_date>> : r \in frequency}
           moved     == {of \in instances : \E was \in start_times(previous, of), now \in start_times(message, of) : was # now}
           kept(of)  == CHOOSE r \in _stated(message, of) : \A d \in _stated(message, of) \ {r} : Precedes(r, d)
       IN  {Found("S021", {kept(of).entity}, kept(of).position, kept(of).payload) : of \in moved}

-----------------------------------------------------------------------------
Init ==
  /\ \E e \in Exchanges : message = e[1] /\ previous = e[2]
  /\ pc = "read"
  /\ found = {}

\* The rules share one reading and none sees what another found.
Validate ==
  /\ pc = "read"
  /\ found' = E006 \cup E013 \cup P013 \cup S003 \cup S004 \cup S005 \cup S006 \cup S007 \cup S008
              \cup S009 \cup S010 \cup S011 \cup S012 \cup S013 \cup S014 \cup S015 \cup S017 \cup S018
              \cup S019 \cup S021 \cup S023 \cup S024 \cup P007 \cup P008 \cup P009 \cup P010
  /\ pc' = "done"
  /\ UNCHANGED <<message, previous>>

Next == Validate

Spec == Init /\ [][Next]_vars

-----------------------------------------------------------------------------
\* Every finding is at an entity of the message and at something it carries.
TypeOK ==
  /\ pc \in {"read", "done"}
  /\ \A f \in found :
       /\ f.entities # {} /\ f.entities \subseteq DOMAIN message /\ f.position \in Nat
       /\ f.field \in {""} \cup Events \cup Fields
                      \cup IF f.rule \in {"S021", "S023", "S024"} THEN {"trip_update", "vehicle", "alert"}
                         ELSE IF f.rule = "E013" THEN {"trip_update", "vehicle"} ELSE {}

\* The rules of `rules` that speak of entity i.
Speaking(rules, i) == {f.rule : f \in {g \in found : g.rule \in rules /\ i \in g.entities}}

\* The five rules on UNSCHEDULED leave a trip of exact_times 0 two ways to be
\* written: UNSCHEDULED throughout, or with nothing declared and no update that
\* is SCHEDULED or UNSCHEDULED.  Any other trip may not use UNSCHEDULED at all
\* (rules E013, S007, S008, S009 and S010, five modules and two schemas).
UnscheduledIsAllOrNothing ==
  pc = "done" =>
    \A i \in Carrying(message) :
      LET u      == message[i].trip_update
          silent == Speaking({"E013", "S007", "S008", "S009", "S010"}, i) = {}
          own    == u.trip.schedule_relationship
          every(values) == \A p \in DOMAIN u.stop_time_update :
                             u.stop_time_update[p].schedule_relationship \in values
      IN  message[i].vehicle = None =>
          /\ u.trip.trip_id \in exact_times_zero_trip_ids =>
               (silent <=> \/ own = "UNSCHEDULED" /\ every({"UNSCHEDULED"})
                           \/ own = None /\ every({"SKIPPED", "NO_DATA"}))
          /\ u.trip.trip_id \notin exact_times_zero_trip_ids \cup {None} /\ u.stop_time_update # <<>> =>
               (silent <=> own # "UNSCHEDULED" /\ every({None, "SCHEDULED", "SKIPPED", "NO_DATA"}))

\* A trip's update gives what can happen at its stop: the first stop has no
\* arrival and the last no departure, and that is the only excuse for giving
\* one time where the schedule has two (rule S006).  It is the same answer
\* whichever of its two names the stop is given by.
OneTimeIsEnoughOnlyAtAnEnd ==
  pc = "done" =>
    \A i \in Carrying(message) :
      LET u    == message[i].trip_update
          rows == Rows(u.trip.trip_id)
      IN  \A p \in With(u, "SCHEDULED"), k \in DOMAIN rows :
            LET update   == u.stop_time_update[p]
                given    == {e \in Events : Has(u, p, e)}
                can      == {e \in Events : IF e = "arrival" THEN k # 1 ELSE k # Len(rows)}
                named    == \/ update.stop_sequence = rows[k].stop_sequence
                            \/ /\ update.stop_sequence = None /\ update.stop_id = rows[k].stop_id
                               /\ Cardinality({l \in DOMAIN rows : rows[l].stop_id = update.stop_id}) = 1
            IN  named /\ rows[k].arrival_time /\ rows[k].departure_time =>
                  ((\E e \in Events : Found("S006", {i}, p, e) \in found)
                     <=> Cardinality(given) = 1 /\ ~(can \subseteq given))

\* Two TripUpdates that neither E006 nor S003 speaks of can be told apart by
\* what the specification says tells instances apart: the date for a trip of
\* the schedule, whatever start_times they carry, and both date and time,
\* both of them there, for a trip of exact_times 0.
InstancesAreToldApart ==
  pc = "done" =>
    \A i, j \in Carrying(message) :
      LET a == message[i].trip_update.trip
          b == message[j].trip_update.trip
      IN  /\ i # j /\ a.trip_id = b.trip_id /\ a.trip_id # None
          /\ Speaking({"E006", "S003"}, i) = {} /\ Speaking({"E006", "S003"}, j) = {}
          => IF a.trip_id \in exact_times_zero_trip_ids
             THEN /\ None \notin {a.start_date, a.start_time, b.start_date, b.start_time}
                  /\ <<a.start_date, a.start_time>> # <<b.start_date, b.start_time>>
             ELSE scheduled(a.trip_id) => a.start_date # b.start_date

\* A trip that calls nowhere is one finding and not two: P008, which such a
\* trip meets by having no prediction left, leaves it to P007, whose remedy is
\* to cancel it.  A trip with a time still to come is neither.
CallingNowhereIsOneFinding ==
  pc = "done" =>
    \A i \in Carrying(message) :
      LET u == message[i].trip_update
      IN  /\ Cardinality(Speaking({"P007", "P008"}, i)) <= 1
          /\ u.stop_time_update = <<>> => Speaking({"P007", "P008"}, i) = {}
          /\ "P008" \notin Speaking({"P008"}, i) /\ u.stop_time_update # <<>>
               /\ relationship(u) \notin {"CANCELED", "DELETED"} =>
               \/ With(u, "SKIPPED") = DOMAIN u.stop_time_update
               \/ \E p \in DOMAIN u.stop_time_update, e \in Events :
                    /\ u.stop_time_update[p][e] # None /\ u.stop_time_update[p][e].time # None
                    /\ u.stop_time_update[p][e].time * 1000 > now_millis

\* A start_time has moved when both messages state it for the instance of a trip of
\* exact_times 0, neither of them two ways, and state it differently.  Then there
\* is one finding, at a descriptor that states it and that no other comes before;
\* and there is none for an instance that either message states two ways or not at
\* all, and none at any other place (rule S021, over two messages of one role).
MovedMeansBothAreClear ==
  pc = "done" =>
    LET S021At(r) == Found("S021", {r.entity}, r.position, r.payload)
        At(r)     == <<r.entity, CASE r.payload = "trip_update" -> 1 [] r.payload = "vehicle" -> 2 [] OTHER -> 2 + r.position>>
    IN  /\ \A f \in {g \in found : g.rule = "S021"} : \E r \in relationships(message) : f = S021At(r)
        /\ \A r \in relationships(message) :
             LET same(m)   == {d \in relationships(m) : d.trip.trip_id = r.trip.trip_id /\ d.trip.start_date = r.trip.start_date
                                                        /\ d.trip.start_time # None}
                 stated(m) == {d.trip.start_time : d \in same(m)}
             IN  S021At(r) \in found <=>
                   /\ previous # None /\ r.trip.trip_id \in exact_times_zero_trip_ids
                   /\ Cardinality(stated(message)) = 1 /\ Cardinality(stated(previous)) = 1
                   /\ stated(message) # stated(previous)
                   /\ r \in same(message)
                   /\ \A d \in same(message) : At(r)[1] < At(d)[1] \/ (At(r)[1] = At(d)[1] /\ At(r)[2] <= At(d)[2])

=============================================================================
