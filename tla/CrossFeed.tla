------------------------------ MODULE CrossFeed ------------------------------
(***************************************************************************)
(* The combined feed read as one: the pass CrossFeedDescriptorValidator    *)
(* makes over every role's entities (rules/_shared/crossfeed.py), W003 and *)
(* E047 over what it gathered, and the order a java.util.HashMap iterates  *)
(* in (rules/_shared/javahash.py), which is the order of their findings.   *)
(*                                                                         *)
(* A trip or a vehicle id is the sequence of its UTF-16 code units.  The   *)
(* hash and the table have the model's width and thresholds.               *)
(***************************************************************************)
EXTENDS Integers, Sequences, SequencesExt, Functions, Bitwise

CONSTANTS
  Feeds,                 \* the messages of a cycle, a sequence of entities for each role
  block_id,              \* trips.txt: the block of the trips that are in it, None for a blank one
  Words, Shift,          \* how many values an int has, and what halves its bits
  INITIAL_CAPACITY, TREEIFY_THRESHOLD, MIN_TREEIFY_CAPACITY,
  None

VARIABLES
  feed,        \* what the roles published
  unread,      \* the entities the pass has still to see
  trip_to_vehicle, vehicle_to_trip, trips_without_vehicles,            \* TripUpdates
  vp_vehicle_to_trip, vp_trip_to_vehicle, vehicles_without_trips,      \* VehiclePositions
  counted,     \* how many of each named an id
  memo,        \* the index, once it is built
  pc,
  found        \* what each rule reported

vars == <<feed, unread, trip_to_vehicle, vehicle_to_trip, trips_without_vehicles,
          vp_vehicle_to_trip, vp_trip_to_vehicle, vehicles_without_trips, counted, memo, pc, found>>

Containers == <<trip_to_vehicle, vehicle_to_trip, trips_without_vehicles,
                vp_vehicle_to_trip, vp_trip_to_vehicle, vehicles_without_trips, counted>>

ROLE_ORDER == <<"tu", "vp", "sa">>

-----------------------------------------------------------------------------
java_string_hash(text) == FoldLeft(LAMBDA h, unit : (31 * h + unit) % Words, 0, text)

spread(h) == h ^^ (h \div Shift)

\* A power of two divides: the mask of capacity - 1 is a remainder.
bucket(key, capacity) == spread(java_string_hash(key)) % capacity

Refused == 0

\* The table's length after these insertions, or Refused where a bucket of it
\* would have become a tree.
capacity_for(distinct) ==
  LET After(capacity, k) ==
        LET index == bucket(distinct[k], capacity)
            depth == Len(SelectSeq([j \in 1..k |-> distinct[j]], LAMBDA key : bucket(key, capacity) = index))
            deep  == depth > TREEIFY_THRESHOLD
            grown == IF deep THEN 2 * capacity ELSE capacity
        IN  IF capacity = Refused \/ (deep /\ capacity >= MIN_TREEIFY_CAPACITY) THEN Refused
            ELSE IF 4 * k > 3 * grown THEN 2 * grown ELSE grown
  IN  FoldLeft(After, INITIAL_CAPACITY, [k \in DOMAIN distinct |-> k])

\* By bucket, and within one by insertion.
iteration_order(distinct) ==
  LET capacity == capacity_for(distinct)
      chain(b) == SelectSeq(distinct, LAMBDA key : bucket(key, capacity) = b)
  IN  IF capacity = Refused THEN None
      ELSE FlattenSeq([b \in 1..capacity |-> chain(b - 1)])

-----------------------------------------------------------------------------
\* java.util.HashMap itself: an array of chains, a put at the chain's end, a
\* resize that splits every chain and keeps its order, and no trees.
EmptyTable == [chains |-> [b \in 1..INITIAL_CAPACITY |-> <<>>], tree |-> FALSE]

Resized(chains) ==
  LET old == Len(chains)
  IN  [b \in 1..(2 * old) |-> SelectSeq(chains[((b - 1) % old) + 1], LAMBDA key : bucket(key, 2 * old) = b - 1)]

Put(table, key) ==
  LET at     == bucket(key, Len(table.chains)) + 1
      put    == [table.chains EXCEPT ![at] = Append(@, key)]
      deep   == Len(put[at]) > TREEIFY_THRESHOLD
      grown  == IF deep THEN Resized(put) ELSE put
      size   == Len(FlattenSeq(put))
  IN  IF table.tree THEN table
      ELSE IF deep /\ Len(put) >= MIN_TREEIFY_CAPACITY THEN [chains |-> put, tree |-> TRUE]
      ELSE [chains |-> IF 4 * size > 3 * Len(grown) THEN Resized(grown) ELSE grown, tree |-> FALSE]

HashMapOf(distinct) == FoldLeft(Put, EmptyTable, distinct)

-----------------------------------------------------------------------------
\* A dict is its items in the order their keys first came.
keys(dict) == [k \in DOMAIN dict |-> dict[k][1]]

get(dict, key) ==
  IF Contains(keys(dict), key) THEN dict[CHOOSE k \in DOMAIN dict : dict[k][1] = key][2] ELSE <<>>

with(dict, key, value) ==
  IF Contains(keys(dict), key)
  THEN [k \in DOMAIN dict |-> IF dict[k][1] = key THEN <<key, value>> ELSE dict[k]]
  ELSE Append(dict, <<key, value>>)

has(dict, key) == Contains(keys(dict), key)

entities(f) == FlattenSeq([r \in DOMAIN ROLE_ORDER |-> f[ROLE_ORDER[r]]])

Init ==
  /\ feed \in Feeds
  /\ unread = entities(feed)
  /\ trip_to_vehicle = <<>> /\ vehicle_to_trip = <<>> /\ trips_without_vehicles = <<>>
  /\ vp_vehicle_to_trip = <<>> /\ vp_trip_to_vehicle = <<>> /\ vehicles_without_trips = <<>>
  /\ counted = <<0, 0>>
  /\ memo = None /\ pc = "reading" /\ found = [W003 |-> <<>>, E047 |-> <<>>]

\* An id nobody set, or set to the empty text, where the code asks `or ""`.
missing(id) == id \in {None, <<>>}

\* The TripUpdate of an entity, if its trip is named.
TripUpdate ==
  LET tu == Head(unread).trip_update
  IN  /\ tu # None /\ tu.trip # None
      /\ IF missing(tu.vehicle)
         THEN trips_without_vehicles' = with(trips_without_vehicles, tu.trip, None) /\ UNCHANGED <<trip_to_vehicle, vehicle_to_trip>>
         ELSE /\ trip_to_vehicle' = with(trip_to_vehicle, tu.trip, tu.vehicle)
              /\ vehicle_to_trip' = with(vehicle_to_trip, tu.vehicle, tu.trip)
              /\ UNCHANGED trips_without_vehicles

names_its_vehicle(vp) == vp.vehicle # None

VehiclePosition ==
  LET vp == Head(unread).vehicle
  IN  /\ vp # None /\ names_its_vehicle(vp)
      /\ IF missing(vp.trip)
         THEN vehicles_without_trips' = with(vehicles_without_trips, vp.vehicle, None) /\ UNCHANGED <<vp_vehicle_to_trip, vp_trip_to_vehicle>>
         ELSE /\ vp_vehicle_to_trip' = with(vp_vehicle_to_trip, vp.vehicle, vp.trip)
              /\ vp_trip_to_vehicle' = with(vp_trip_to_vehicle, vp.trip, vp.vehicle)
              /\ UNCHANGED vehicles_without_trips

NamesATrip == Head(unread).trip_update # None /\ Head(unread).trip_update.trip # None
NamesAVehicle == Head(unread).vehicle # None /\ names_its_vehicle(Head(unread).vehicle)

\* One entity, both its halves.
ReadEntity ==
  /\ pc = "reading" /\ unread # <<>>
  /\ IF NamesATrip THEN TripUpdate ELSE UNCHANGED <<trip_to_vehicle, vehicle_to_trip, trips_without_vehicles>>
  /\ IF NamesAVehicle THEN VehiclePosition
     ELSE UNCHANGED <<vp_vehicle_to_trip, vp_trip_to_vehicle, vehicles_without_trips>>
  /\ counted' = <<counted[1] + (IF NamesATrip THEN 1 ELSE 0), counted[2] + (IF NamesAVehicle THEN 1 ELSE 0)>>
  /\ unread' = Tail(unread)
  /\ UNCHANGED <<feed, memo, pc, found>>

\* The four containers whose order is seen; a refusal raises.
Iterated == <<keys(trip_to_vehicle), keys(trips_without_vehicles), keys(vp_vehicle_to_trip), keys(vehicles_without_trips)>>

\* index_for: nothing to compare unless both halves are there.
BuildIndex ==
  /\ pc = "reading" /\ unread = <<>>
  /\ IF counted[1] = 0 \/ counted[2] = 0
     THEN memo' = [ids |-> None] /\ pc' = "W003"
     ELSE IF \E k \in DOMAIN Iterated : iteration_order(Iterated[k]) = None
     THEN memo' = None /\ pc' = "raised"
     ELSE memo' = [ids |-> [k \in DOMAIN Iterated |-> iteration_order(Iterated[k])]] /\ pc' = "W003"
  /\ UNCHANGED <<feed, unread, Containers, found>>

\* A finding names its rule's sentence and the id; two sentences name two.
Says(b, sentence, id) == IF b THEN <<<<sentence, id>>>> ELSE <<>>
Each(order, F(_)) == FlattenSeq([k \in DOMAIN order |-> F(order[k])])

\* Four loops over the index, and the findings in its order.
W003 ==
  LET OfTripUpdate(trip) ==
        LET vehicle == get(trip_to_vehicle, trip)
        IN  Says(~has(vp_trip_to_vehicle, trip), "trip not in positions", trip)
            \o Says(~has(vp_vehicle_to_trip, vehicle) /\ ~has(vehicles_without_trips, vehicle),
                    "vehicle not in positions", vehicle)
      OfPosition(vehicle) ==
        LET trip == get(vp_vehicle_to_trip, vehicle)
        IN  Says(~has(vehicle_to_trip, vehicle), "vehicle not in updates", vehicle)
            \o Says(~has(trip_to_vehicle, trip) /\ ~has(trips_without_vehicles, trip),
                    "trip not in updates", trip)
      OfTrip(trip) == Says(~has(vp_trip_to_vehicle, trip), "trip not in positions", trip)
      OfVehicle(vehicle) == Says(~has(vehicle_to_trip, vehicle), "vehicle not in updates", vehicle)
  IN  /\ pc = "W003" /\ pc' = "E047"
      /\ found' = [found EXCEPT !.W003 =
           IF memo.ids = None THEN <<>>
           ELSE Each(memo.ids[1], OfTripUpdate) \o Each(memo.ids[3], OfPosition)
                \o Each(memo.ids[2], OfTrip) \o Each(memo.ids[4], OfVehicle)]
      /\ UNCHANGED <<feed, unread, Containers, memo>>

\* Both trips in trips.txt, in one block that is not blank.
_same_block(one, other) ==
  /\ {one, other} \subseteq DOMAIN block_id
  /\ block_id[one] # None /\ block_id[one] = block_id[other]

E047 ==
  LET OfTripUpdate(trip) ==
        LET theirs == get(vp_trip_to_vehicle, trip)
        IN  Says(theirs # <<>> /\ get(trip_to_vehicle, trip) # theirs, "updates pair", trip)
      OfPosition(vehicle) ==
        LET mine == get(vp_vehicle_to_trip, vehicle)
            theirs == get(vehicle_to_trip, vehicle)
        IN  Says(theirs # <<>> /\ mine # theirs /\ ~_same_block(mine, theirs), "positions pair", vehicle)
  IN  /\ pc = "E047" /\ pc' = "done"
      /\ found' = [found EXCEPT !.E047 =
           IF memo.ids = None THEN <<>> ELSE Each(memo.ids[1], OfTripUpdate) \o Each(memo.ids[3], OfPosition)]
      /\ UNCHANGED <<feed, unread, Containers, memo>>

Next == ReadEntity \/ BuildIndex \/ W003 \/ E047

Spec == Init /\ [][Next]_vars

-----------------------------------------------------------------------------
\* Every variable holds what the code could hold there.
TypeOK ==
  /\ pc \in {"reading", "W003", "E047", "done", "raised"}
  /\ counted[1] + counted[2] <= 2 * Len(entities(feed))
  /\ \A dict \in {trip_to_vehicle, vehicle_to_trip, vp_vehicle_to_trip, vp_trip_to_vehicle} :
       IsInjective(keys(dict)) /\ \A k \in DOMAIN dict : ~missing(dict[k][2]) \/ dict[k][2] = <<>>

\* Each container the findings follow comes out in the order a HashMap of the
\* same insertions iterates in, and it is refused exactly when that map would
\* have made a tree of a chain, wherever in its growth that fell (javahash.py,
\* "reproduced, and refused where it cannot be").
OrderIsTheTables ==
  memo # None \/ pc = "raised" =>
    \A k \in DOMAIN Iterated :
      LET table == HashMapOf(Iterated[k])
      IN  iteration_order(Iterated[k]) = IF table.tree THEN None ELSE FlattenSeq(table.chains)

Entities == Range(entities(feed))
Updates == {e.trip_update : e \in Entities} \ {None}
Positions == {e.vehicle : e \in Entities} \ {None}

\* No trip and no vehicle is in two entities of a half, and no id is blank.
Tidy ==
  /\ \A p \in Updates \cup Positions : p.trip # <<>> /\ p.vehicle # <<>>
  /\ \A half \in {Updates, Positions} : \A p, q \in half :
       p # q => (p.trip = None \/ p.trip # q.trip) /\ (p.vehicle = None \/ p.vehicle # q.vehicle)
  /\ \A p \in Updates : p.trip # None
  /\ \A p \in Positions : p.vehicle # None

\* Of a tidy feed with both halves, the two rules together say nothing exactly
\* when every trip and every vehicle is in both halves and paired the same way
\* in them: no finding is raised over two halves that agree, and no
\* disagreement falls between the two rules, their six loops and the exemption
\* of trips in one block (w003.py, e047.py).
SilenceIsAgreement ==
  pc = "done" /\ Tidy /\ Updates # {} /\ Positions # {} =>
    (found.W003 = <<>> /\ found.E047 = <<>>
       <=> Updates = Positions /\ \A p \in Updates : p.vehicle # None)
=============================================================================
