----------------------------- MODULE VehicleWalk -----------------------------
(***************************************************************************)
(* The one pass over the vehicles of a message that rules W002, W004,      *)
(* E026, E027, E028, E029 and E052 read (rules/_shared/walk_vehicle.py),   *)
(* rule P015, which stands inside E029's nest and reads the same pass, and *)
(* the rules on carriages S051 and S052.                                   *)
(*                                                                         *)
(* A line is the points of its shape, as coordinates of a Rectangles       *)
(* world; the two measures of the way to it, E029's in degrees and P015's  *)
(* in metres, are taken north plus east.                                   *)
(***************************************************************************)
EXTENDS Rectangles

CONSTANTS
  Worlds,         \* a message, its cycle's other entities, and the prepared feed
  None,
  Lacking, NaN,   \* numbers for a field that is not there and one that is not a number
  TripBuffer,     \* TRIP_BUFFER_DEGREES, in units
  North, East     \* the metres of a unit of latitude, and of one of longitude by latitude

VARIABLES
  world, entities, index, seen_vehicle_ids, found, pc

vars == <<world, entities, index, seen_vehicle_ids, found, pc>>

\* A coordinate that can be compared.
Number(v) == v \notin {Lacking, NaN}

\* What the program hands this part: the instances assume it.
LegalInputs ==
  /\ None \notin {"Bad value", "no LineString"}
  /\ Lacking # NaN /\ Absolute(Lacking) > 361 + Half /\ Absolute(NaN) > 361 + Half
  /\ TripBuffer \in Nat /\ North \in Nat /\ DOMAIN East = 0..Pole
  /\ \A w \in Worlds : \A t \in DOMAIN w.realtime : w.realtime[t] # <<>>
  /\ \A w \in Worlds :
       /\ w.message \in Seq(Range(w.message)) /\ w.elsewhere \in Seq(Range(w.elsewhere))
       /\ \A i \in DOMAIN w.message : w.message[i].vehicle # None =>
            w.message[i].vehicle.carriages \in Seq(Range(w.message[i].vehicle.carriages))

-----------------------------------------------------------------------------
(* Positions.                                                              *)

\* No comparison with a number that is none holds.
beyond(v, least, most) == Number(v) /\ (v < least \/ v > most)

is_position_valid(p) == ~beyond(p.latitude, -Pole, Pole) /\ ~beyond(p.longitude, -Half, Half)

is_bearing_valid(p) == p.bearing = Lacking \/ ~beyond(p.bearing, 0, 360)

\* A position nothing can be built from is refused by _verify_point.
refused(p) == beyond(p.latitude, -Pole, Pole) \/ beyond(p.longitude, -Half, Half)

\* A longitude that is no number is nowhere; a latitude that is none decides
\* nothing.
inside_agency_bounds(p) ==
  p.longitude # NaN /\ contains(world.box, p.longitude, IF p.latitude = NaN THEN world.box.min_y ELSE p.latitude)

\* In degrees, on a plane, and nothing that is no number is near.
within_buffered_shape(p, line) ==
  /\ p.longitude # NaN /\ p.latitude # NaN
  /\ \E k \in DOMAIN line :
       Absolute(line[k][1] - p.longitude) + Absolute(line[k][2] - p.latitude) <= TripBuffer

Turn(x, y) == Least({Absolute(x - y), World - Absolute(x - y)})
Metres(point, p) == North * Absolute(point[2] - p.latitude) + East[Absolute(p.latitude)] * Turn(point[1], p.longitude)

\* On the ellipsoid; no distance that is not a number is within anything.
within_metres(p, line, limit) ==
  /\ p.longitude # NaN /\ p.latitude # NaN
  /\ \E k \in DOMAIN line : Metres(line[k], p) <= limit

-----------------------------------------------------------------------------
(* Alerts with the effect DETOUR.                                          *)

\* Whether one of some entities' alerts names a trip, or the route of a
\* vehicle that gave one.
has_detour_alert(among, trip) ==
  \E k \in DOMAIN among : \E a \in among[k].alerts :
    /\ a.effect = "DETOUR"
    /\ a.trip_id = trip.trip_id \/ (trip.route_id # None /\ a.route_id = trip.route_id)

\* The alerts of every file of the cycle.
visible_index(m) == m \o world.elsewhere

-----------------------------------------------------------------------------
(* The walk.                                                               *)

Init ==
  /\ world \in Worlds
  /\ entities = world.message
  /\ index = 1
  /\ seen_vehicle_ids = {}
  /\ found = {}
  /\ pc = "walking"

_trip_update_half(i) ==
  IF entities[i].trip_update = "" THEN {<<"W002", "trip_update", i>>} ELSE {}

seen_before(id, i) == id \in seen_vehicle_ids

_identity(i) ==
  LET id == entities[i].vehicle.id
  IN  {<<r, "vehicle", i>> : r \in IF id = "" THEN {"W002"} ELSE IF seen_before(id, i) THEN {"E052"} ELSE {}}

_check_speed(i) ==
  LET speed == entities[i].vehicle.position.speed
  IN  IF speed # Lacking /\ beyond(speed, 0, 26) THEN {<<"W004", "vehicle", i>>} ELSE {}

\* The shape a vehicle's trip has in shapes.txt, where it has one.
buffered_trip_shape(v) ==
  IF v.trip # None /\ v.trip.trip_id # None /\ v.trip.trip_id \in DOMAIN world.trip_shapes
  THEN world.trip_shapes[v.trip.trip_id] ELSE None

far_from_shape(v) ==
  /\ buffered_trip_shape(v) # None
  /\ ~within_buffered_shape(v.position, buffered_trip_shape(v))
  /\ ~has_detour_alert(entities, v.trip)

no_place(p) == p.latitude = Lacking \/ p.longitude = Lacking \/ ~is_position_valid(p)

\* What the nest of E026, E028 and E029 says of a position.
nested(v) ==
  IF no_place(v.position) THEN {"E026"}
  ELSE IF ~inside_agency_bounds(v.position) THEN {"E028"}
  ELSE IF far_from_shape(v) THEN {"E029"} ELSE {}

_check_position(i) ==
  LET v == entities[i].vehicle
  IN  {<<r, "vehicle", i>> : r \in nested(v) \cup (IF is_bearing_valid(v.position) THEN {} ELSE {"E027"})}

\* What ends the run, and the walk's events with it: a place that is on no
\* globe, a shape that is no line.
raises(i) ==
  LET v == entities[i].vehicle
      looked_up == v # None /\ v.position # None /\ ~no_place(v.position)
  IN  IF looked_up /\ refused(v.position) THEN "Bad value"
      ELSE IF /\ looked_up /\ inside_agency_bounds(v.position)
              /\ buffered_trip_shape(v) # None /\ Len(buffered_trip_shape(v)) = 1
           THEN "no LineString" ELSE None

vehicles ==
  /\ pc = "walking" /\ index <= Len(entities)
  /\ index' = index + 1
  /\ LET v == entities[index].vehicle
     IN  /\ found' = found \cup _trip_update_half(index)
                     \cup (IF v = None THEN {} ELSE _identity(index))
                     \cup (IF v = None \/ v.position = None THEN {} ELSE _check_speed(index))
                     \cup (IF v = None \/ v.position = None \/ raises(index) # None THEN {} ELSE _check_position(index))
         /\ seen_vehicle_ids' = seen_vehicle_ids \cup (IF v = None \/ v.id = "" THEN {} ELSE {v.id})
  /\ pc' = IF raises(index) = None THEN pc ELSE raises(index)
  /\ UNCHANGED <<world, entities>>

-----------------------------------------------------------------------------
(* The rules that read the same message.                                   *)

Vehicles == {i \in DOMAIN entities : entities[i].vehicle # None}

_reported_paths(i) == \E r \in {"E026", "E028", "E029"} : <<r, "vehicle", i>> \in found

\* The line P015 measures against: a realtime one before that of shapes.txt.
_shape_for(trip_id) ==
  IF trip_id \in DOMAIN world.realtime THEN world.realtime[trip_id]
  ELSE IF trip_id \in DOMAIN world.trip_shapes /\ world.trip_shapes[trip_id] # <<>> THEN world.trip_shapes[trip_id]
  ELSE None

_measure(v) ==
  /\ v.position # None /\ v.trip # None /\ v.trip.trip_id # None
  /\ ~has_detour_alert(visible_index(entities), v.trip)
  /\ _shape_for(v.trip.trip_id) # None
  /\ ~within_metres(v.position, _shape_for(v.trip.trip_id), 200)

P015 == {<<"P015", "vehicle", i>> : i \in {j \in Vehicles : ~_reported_paths(j) /\ _measure(entities[j].vehicle)}}

out_of_run(c, k) == c[k].sequence # k

S051 ==
  UNION {LET c == entities[i].vehicle.carriages
         IN  {<<"S051", c[k].id, i>> : k \in {j \in DOMAIN c : \E l \in DOMAIN c : l # j /\ c[l].id = c[j].id /\ c[j].id # None}} :
           i \in Vehicles}

S052 ==
  UNION {{<<"S052", "vehicle", i>> : k \in {j \in DOMAIN entities[i].vehicle.carriages : out_of_run(entities[i].vehicle.carriages, j)}} :
           i \in Vehicles}

Check ==
  /\ pc = "walking" /\ index = Len(entities) + 1
  /\ found' = found \cup P015 \cup S051 \cup S052
  /\ pc' = "done"
  /\ UNCHANGED <<world, entities, index, seen_vehicle_ids>>

Next == vehicles \/ Check

Spec == Init /\ [][Next]_vars

-----------------------------------------------------------------------------
Said(rule, i) == <<rule, "vehicle", i>> \in found
Walked == {i \in Vehicles : i < index}

\* Only what was walked was spoken of, the ids seen are those of the walked
\* vehicles, and the walk stands at an entity of the message or after the last.
TypeOK ==
  /\ pc \in {"walking", "done", "Bad value", "no LineString"} /\ index \in 1..(Len(entities) + 1)
  /\ \A f \in found : f[3] < index
  /\ seen_vehicle_ids = {entities[i].vehicle.id : i \in Walked} \ {""}

\* An id is claimed once: of the vehicles with it all but one are reported,
\* wherever the others stand and whatever else stands between, and a vehicle
\* with none is reported for that instead (rules E052 and W002).
AnIdHasOneBearer ==
  \A i \in Walked :
    LET same == {j \in Walked : entities[j].vehicle.id = entities[i].vehicle.id}
    IN  IF entities[i].vehicle.id = "" THEN Said("W002", i) /\ ~Said("E052", i)
        ELSE Cardinality({j \in same : Said("E052", j)}) = Cardinality(same) - 1

\* The run ends in the walk over a shape of one point and over nothing else: no
\* position a feed can carry reaches the box or the shape that would refuse it
\* (is_position_within_shape's ValueError, which nobody catches).
OnlyAOnePointShapeRaises ==
  pc \in {"Bad value", "no LineString"} =>
    LET v == entities[index - 1].vehicle
    IN  v.trip.trip_id \in DOMAIN world.trip_shapes /\ Len(world.trip_shapes[v.trip.trip_id]) = 1

\* A vehicle's place is complained of once: no position without a place, none
\* outside the feed and none off its shape is also said to be 200 metres away
\* (rule P015 reads the paths the walk reported).
APlaceIsComplainedOfOnce ==
  \A i \in Vehicles : Cardinality({r \in {"E026", "E028", "E029", "P015"} : Said(r, i)}) <= 1

\* A vehicle whose trip an alert sends round is never said to be 200 metres
\* from its shape, whichever file of the cycle has the alert and wherever in it;
\* an alert in the vehicle's own message silences E029 with it (rules P015 and
\* E029).
ADetourExcusesTheVehicle ==
  pc = "done" =>
    \A i \in Vehicles :
      LET v == entities[i].vehicle
          sent(m) == \E k \in DOMAIN m : \E a \in m[k].alerts : a.effect = "DETOUR" /\ a.trip_id = v.trip.trip_id
      IN  v.trip # None /\ v.trip.trip_id # None =>
            /\ sent(entities) \/ sent(world.elsewhere) => ~Said("P015", i)
            /\ sent(entities) => ~Said("E029", i)

\* A train is read from the front: its carriages are numbered from one without a
\* gap and no two share an id exactly when neither rule on carriages speaks
\* (rules S051 and S052).
ATrainIsReadFromTheFront ==
  pc = "done" =>
    \A i \in Vehicles :
      LET c == entities[i].vehicle.carriages
      IN  ~(\E f \in found : f[1] \in {"S051", "S052"} /\ f[3] = i) <=>
            /\ [k \in DOMAIN c |-> c[k].sequence] = [k \in 1..Len(c) |-> k]
            /\ \A j, k \in DOMAIN c : c[j].id = c[k].id => j = k \/ c[j].id = None
=============================================================================
