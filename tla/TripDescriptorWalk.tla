------------------------- MODULE TripDescriptorWalk -------------------------
(***************************************************************************)
(* One message through rules/_shared/walk_trip_descriptor.py, which        *)
(* fifteen rules read.                                                     *)
(*                                                                         *)
(* An entity has three halves, each examined on its own: a TripUpdate, a   *)
(* VehiclePosition with a trip, an Alert.  The one thing that outlives an  *)
(* entity is the list of W009s, which belongs to the feed.  A finding is a *)
(* rule at a place; their order within a place reaches no rule's report    *)
(* and is left out with the texts.                                         *)
(***************************************************************************)
EXTENDS TimeTexts, FiniteSets

CONSTANTS
  Messages,           \* the messages that may be walked
  Ids,                \* the ids of trips, of routes and of agencies
  Times, Dates,       \* the texts a start_time and a start_date may be
  None,               \* a field that is absent
  Empty,              \* the empty string, which an absent id reads as
  HalfWord,           \* 2^31 in the code
  route_ids, agency_ids,
  trips,              \* trips.txt: a trip_id to its route_id and direction_id
  arrivals,           \* per trip the arrival_time of its first row, or None for no rows
  frequency_trips,    \* exact_times 0 or 1, either way
  UNSET,              \* a row's arrival_time that is blank
  MISSING_VALUE       \* -999, what a blank one reads as

VARIABLES
  message,            \* its entities, in order
  pc,                 \* where the walk stands
  index,              \* the entity it stands at
  position,           \* the stop_time_update or the selector it stands at
  w009,               \* whether the feed's list has a W009 in it
  found_w009,         \* this trip's own flag
  found               \* what was yielded

vars == <<message, pc, index, position, w009, found_w009, found>>

-----------------------------------------------------------------------------
Relationships == {None, "SCHEDULED", "ADDED", "UNSCHEDULED", "CANCELED"}

TripDescriptor ==
  [trip_id : Ids \cup {Empty, None}, route_id : Ids \cup {Empty, None},
   direction_id : 0..(2 * HalfWord - 1) \cup {None},
   start_time : Times \cup {None}, start_date : Dates \cup {None},
   schedule_relationship : Relationships]

\* referenced: whether it has a route_type or a stop_id.
EntitySelector ==
  [agency_id : Ids \cup {None}, route_id : Ids \cup {Empty, None},
   referenced : BOOLEAN, trip : TripDescriptor \cup {None}]

\* A stop_time_update is whether it declares its relationship; a vehicle is its trip.
Entity ==
  [trip_update : [trip : TripDescriptor, stop_time_update : Seq(BOOLEAN)] \cup {None},
   vehicle : TripDescriptor \cup {None},
   alert : Seq(EntitySelector) \cup {None}]

\* What the program hands this part: the instances assume it.
LegalInputs ==
  /\ HalfWord \in Nat \ {0}
  /\ Messages \subseteq Seq(Entity)
  /\ Times \cup Dates \subseteq Text
  /\ route_ids \cup agency_ids \subseteq Ids
  /\ DOMAIN trips = DOMAIN arrivals /\ DOMAIN trips \subseteq Ids
  /\ frequency_trips \subseteq Ids
  /\ None \notin Ids \cup {Empty} /\ Empty \notin Ids

-----------------------------------------------------------------------------
entity == message[index]

int32(value) == IF value >= HalfWord THEN value - 2 * HalfWord ELSE value

\* What an id reads as.
text_of(id) == IF id = None THEN Empty ELSE id

known_trip(trip) == text_of(trip.trip_id) \in DOMAIN trips

is_added_trip(trip) == trip.schedule_relationship = "ADDED"

check_e004(trip) ==
  text_of(trip.route_id) # Empty /\ trip.route_id \notin route_ids

check_e020(trip) == ~is_valid_time_format(trip.start_time)

check_e021(trip) == trip.start_date # None /\ ~is_valid_date_format(trip.start_date)

\* onebusaway's sentinel, restored.
arrival_time(arrival) == IF arrival = UNSET THEN MISSING_VALUE ELSE arrival

check_e023(trip) ==
  /\ trip.trip_id \notin frequency_trips
  /\ arrivals[trip.trip_id] # None
  /\ trip.start_time # seconds_after_midnight_to_clock(arrival_time(arrivals[trip.trip_id]))

\* A trip without a direction_id never has the same one.
check_e024(trip) ==
  /\ trip.direction_id # None
  /\ known_trip(trip)
  /\ trips[trip.trip_id].direction_id # int32(trip.direction_id)

\* An unknown route is E004's finding and an unknown trip E003's.
check_e035(trip) ==
  /\ trip.trip_id # None /\ trip.route_id # None
  /\ trip.route_id \in route_ids
  /\ known_trip(trip)
  /\ trips[trip.trip_id].route_id # trip.route_id

check_w006(trip) == trip.trip_id = None

check_w009(trip) == trip.schedule_relationship = None

-----------------------------------------------------------------------------
At(rule, part, at) == [rule |-> rule, part |-> part, entity |-> index, position |-> at]

\* The finding, if it is one.
When(condition, rule, part, at) == IF condition THEN {At(rule, part, at)} ELSE {}

\* E003, E016 and E023, once a trip_id is there to look up.
LookedUp(trip, part) ==
  When(~known_trip(trip) /\ ~is_added_trip(trip), "E003", part, 0)
  \cup When(known_trip(trip) /\ is_added_trip(trip), "E016", part, 0)
  \cup When(known_trip(trip) /\ trip.start_time # None /\ check_e023(trip), "E023", part, 0)

\* What both vehicle-bearing halves ask of a descriptor after that.
Unconditional(trip, part) ==
  When(trip.start_time # None /\ check_e020(trip), "E020", part, 0)
  \cup When(check_e021(trip), "E021", part, 0)
  \cup When(check_e004(trip), "E004", part, 0)
  \cup When(check_e024(trip), "E024", part, 0)
  \cup When(check_e035(trip), "E035", part, 0)

Init ==
  /\ message \in Messages
  /\ pc = "entities"
  /\ index = 0
  /\ position = 0
  /\ w009 = FALSE
  /\ found_w009 = FALSE
  /\ found = {}

NextEntity ==
  /\ pc = "entities"
  /\ index < Len(message)
  /\ index' = index + 1
  /\ pc' = "trip_update"
  /\ UNCHANGED <<message, position, w009, found_w009, found>>

SkipHalf(here, next) ==
  /\ pc = here
  /\ pc' = next
  /\ UNCHANGED <<message, index, position, w009, found_w009, found>>

NoTripUpdate == SkipHalf("trip_update", "vehicle") /\ entity.trip_update = None

\* A TripUpdate's trip_id is looked up even when it is the empty string.
TripUpdate ==
  /\ pc = "trip_update"
  /\ entity.trip_update # None
  /\ LET trip == entity.trip_update.trip
     IN  found' = found
           \cup When(check_w006(trip), "W006", "trip_update", 0)
           \cup (IF trip.trip_id = None THEN {} ELSE LookedUp(trip, "trip_update"))
           \cup Unconditional(trip, "trip_update")
  /\ position' = 1
  /\ found_w009' = FALSE
  /\ pc' = "stops"
  /\ UNCHANGED <<message, index, w009>>

\* A mistake: the trip's own list decides.
own_list(declared) == ~declared

\* The feed's list decides, whether or not this update went into it.
not_empty(declared) == w009 \/ ~declared

StopTimeUpdate ==
  /\ pc = "stops"
  /\ position <= Len(entity.trip_update.stop_time_update)
  /\ LET declared == entity.trip_update.stop_time_update[position]
     IN  IF found_w009
         THEN UNCHANGED <<w009, found_w009, found>>
         ELSE /\ found' = found \cup When(~declared, "W009", "stop_time_update", position)
              /\ w009' = (w009 \/ ~declared)
              /\ found_w009' = not_empty(declared)
  /\ position' = position + 1
  /\ UNCHANGED <<message, pc, index>>

\* The descriptor's own W009, which no list keeps back.
TripUpdateEnds ==
  /\ pc = "stops"
  /\ position > Len(entity.trip_update.stop_time_update)
  /\ LET missing == check_w009(entity.trip_update.trip)
     IN  /\ found' = found \cup When(missing, "W009", "trip_update", 0)
         /\ w009' = (w009 \/ missing)
  /\ position' = 0
  /\ pc' = "vehicle"
  /\ UNCHANGED <<message, index, found_w009>>

NoVehicle == SkipHalf("vehicle", "alert") /\ entity.vehicle = None

\* Here an empty trip_id is not looked up.
Vehicle ==
  /\ pc = "vehicle"
  /\ entity.vehicle # None
  /\ LET trip == entity.vehicle
     IN  /\ found' = found
              \cup When(check_w006(trip), "W006", "vehicle", 0)
              \cup (IF text_of(trip.trip_id) = Empty THEN {} ELSE LookedUp(trip, "vehicle"))
              \cup Unconditional(trip, "vehicle")
              \cup When(check_w009(trip), "W009", "vehicle", 0)
         /\ w009' = (w009 \/ check_w009(trip))
  /\ pc' = "alert"
  /\ UNCHANGED <<message, index, position, found_w009>>

NoAlert == SkipHalf("alert", "entities") /\ entity.alert = None

NoInformedEntity ==
  /\ pc = "alert"
  /\ entity.alert = <<>>
  /\ found' = found \cup {At("E032", "alert", 0)}
  /\ pc' = "entities"
  /\ UNCHANGED <<message, index, position, w009, found_w009>>

BeginAlert ==
  /\ pc = "alert"
  /\ entity.alert \notin {None, <<>>}
  /\ position' = 1
  /\ pc' = "selectors"
  /\ UNCHANGED <<message, index, w009, found_w009, found>>

check_e030(selector) ==
  /\ selector.trip.trip_id # None
  /\ known_trip(selector.trip)
  /\ trips[selector.trip.trip_id].route_id # selector.route_id

check_e031(selector) ==
  selector.trip.route_id # None /\ selector.trip.route_id # selector.route_id

check_e033(selector) ==
  /\ selector.agency_id = None /\ selector.route_id = None /\ ~selector.referenced
  /\ selector.trip # None => selector.trip.trip_id = None /\ selector.trip.route_id = None

check_e034(selector) == selector.agency_id # None /\ selector.agency_id \notin agency_ids

\* One informed_entity.  E035 is asked with or without a trip, and with none
\* finds nothing.
Selector ==
  /\ pc = "selectors"
  /\ position <= Len(entity.alert)
  /\ LET selector == entity.alert[position]
         trip     == selector.trip
         both     == selector.route_id # None /\ trip # None
     IN  /\ found' = found
              \cup When(check_e033(selector), "E033", "alert", position)
              \cup When(check_e034(selector), "E034", "alert", position)
              \cup When(trip # None /\ check_e035(trip), "E035", "alert", position)
              \cup When(both /\ check_e030(selector), "E030", "alert", position)
              \cup When(both /\ check_e031(selector), "E031", "alert", position)
              \cup When(trip # None /\ check_w006(trip), "W006", "alert", position)
              \cup When(trip # None /\ check_w009(trip), "W009", "alert", position)
         /\ w009' = (w009 \/ (trip # None /\ check_w009(trip)))
  /\ position' = position + 1
  /\ UNCHANGED <<message, pc, index, found_w009>>

AlertEnds ==
  /\ pc = "selectors"
  /\ position > Len(entity.alert)
  /\ position' = 0
  /\ pc' = "entities"
  /\ UNCHANGED <<message, index, w009, found_w009, found>>

End ==
  /\ pc = "entities"
  /\ index = Len(message)
  /\ pc' = "done"
  /\ UNCHANGED <<message, index, position, w009, found_w009, found>>

Next ==
  \/ NextEntity
  \/ NoTripUpdate \/ TripUpdate \/ StopTimeUpdate \/ TripUpdateEnds
  \/ NoVehicle \/ Vehicle
  \/ NoAlert \/ NoInformedEntity \/ BeginAlert \/ Selector \/ AlertEnds
  \/ End

Spec == Init /\ [][Next]_vars

-----------------------------------------------------------------------------
\* Every variable has the shape the walk gives it.
TypeOK ==
  /\ message \in Messages
  /\ pc \in {"entities", "trip_update", "stops", "vehicle", "alert", "selectors", "done"}
  /\ index \in 0..Len(message)
  /\ position \in Nat
  /\ w009 \in BOOLEAN /\ found_w009 \in BOOLEAN
  /\ \A f \in found : f.entity \in 1..Len(message) /\ f.position \in Nat

Reported(rule, part, i, p) ==
  [rule |-> rule, part |-> part, entity |-> i, position |-> p] \in found

\* The rules of `rules` that speak at a place.
Speaking(rules, part, i, p) == {rule \in rules : Reported(rule, part, i, p)}

\* Whether an entity has anything with no schedule_relationship.
Undeclared(e) ==
  \/ /\ e.trip_update # None
     /\ check_w009(e.trip_update.trip) \/ \E p \in DOMAIN e.trip_update.stop_time_update :
                                             ~e.trip_update.stop_time_update[p]
  \/ e.vehicle # None /\ check_w009(e.vehicle)
  \/ /\ e.alert # None
     /\ \E p \in DOMAIN e.alert : e.alert[p].trip # None /\ check_w009(e.alert[p].trip)

\* W009 in closed form.  A trip's stop_time_updates are warned of at its first
\* undeclared one when nothing in the feed was undeclared before, and
\* otherwise only when that one is the very first (rule W009, whose list
\* outlives the trip).  So the feed's first is always reported.
WarnsOfTheFirst ==
  pc = "done" =>
    \A i \in {j \in DOMAIN message : message[j].trip_update # None} :
      LET updates == message[i].trip_update.stop_time_update
      IN  \A p \in DOMAIN updates :
            Reported("W009", "stop_time_update", i, p) <=>
              /\ ~updates[p]
              /\ \/ p = 1
                 \/ (\A j \in 1..(i - 1) : ~Undeclared(message[j])) /\ (\A q \in 1..(p - 1) : updates[q])

\* The descriptors of a message with their places; a vehicle's empty trip_id
\* and an absent one are not looked up.
Descriptors ==
  {<<message[i].trip_update.trip, "trip_update", i>> :
     i \in {j \in DOMAIN message : message[j].trip_update # None /\ message[j].trip_update.trip.trip_id # None}}
  \cup {<<message[i].vehicle, "vehicle", i>> :
     i \in {j \in DOMAIN message : message[j].vehicle # None /\ text_of(message[j].vehicle.trip_id) # Empty}}

\* A descriptor makes two references, to a trip and to a route, and each
\* broken one is one finding: an unknown route is E004's and is not E035's as
\* well, and an unknown trip is E003's alone (rules E003, E004, E016, E035).
OneFindingPerReference ==
  pc = "done" =>
    \A d \in Descriptors :
      LET trip         == d[1]
          trip_broken  == known_trip(trip) = is_added_trip(trip)
          route_broken == /\ text_of(trip.route_id) # Empty
                          /\ \/ trip.route_id \notin route_ids
                             \/ known_trip(trip) /\ trips[trip.trip_id].route_id # trip.route_id
      IN  /\ Cardinality(Speaking({"E003", "E016"}, d[2], d[3], 0)) = IF trip_broken THEN 1 ELSE 0
          /\ Cardinality(Speaking({"E004", "E035"}, d[2], d[3], 0)) = IF route_broken THEN 1 ELSE 0

\* The three routes of a selector - its own, its trip's, the schedule's - are
\* compared in pairs by three rules written apart, so a disagreement is never
\* reported by one of them alone (rules E030, E031, E035).
NoDisagreementAlone ==
  pc = "done" =>
    \A i \in {j \in DOMAIN message : message[j].alert # None} : \A p \in DOMAIN message[i].alert :
      LET selector == message[i].alert[p]
      IN  /\ selector.route_id # None
          /\ selector.trip # None
          /\ selector.trip # None => known_trip(selector.trip) /\ selector.trip.route_id \in route_ids
          => Cardinality(Speaking({"E030", "E031", "E035"}, "alert", i, p)) # 1

\* The seconds a valid start_time writes.
seconds(t) ==
  LET n == Len(t)
  IN  3600 * number[SubSeq(t, 1, n - 6)] + 60 * number[SubSeq(t, n - 4, n - 3)] + number[SubSeq(t, n - 1, n)]

\* A start_time that neither E020 nor E023 speaks of is the instant the
\* schedule's first row has: never a blank arrival, whose -999 prints as a
\* text E020 refuses, and never one of thirty hours or more.
SilentStartTimeIsTheSchedules ==
  pc = "done" =>
    \A d \in Descriptors :
      LET trip == d[1]
      IN  /\ known_trip(trip) /\ trip.start_time # None
          /\ trip.trip_id \notin frequency_trips
          /\ known_trip(trip) => arrivals[trip.trip_id] # None
          /\ Speaking({"E020", "E023"}, d[2], d[3], 0) = {}
          => /\ arrivals[trip.trip_id] # UNSET
             /\ seconds(trip.start_time) = arrivals[trip.trip_id]
             /\ arrivals[trip.trip_id] < 30 * 3600

=============================================================================
