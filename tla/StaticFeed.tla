------------------------------ MODULE StaticFeed ------------------------------
(***************************************************************************)
(* A static feed from the archive to the context the rules read: one of    *)
(* the two readers of static/adapter.py, a table at a time, the gate of    *)
(* runner/gate.py, and StaticContext.build.  The boxes round its points    *)
(* are module Extents.                                                     *)
(*                                                                         *)
(* A cell is None when blank, Bad when it is no value of its column's type *)
(* (not a number, a number too wide, not a time) and Odd when only the     *)
(* strict reader minds it.                                                 *)
(***************************************************************************)
EXTENDS Integers, Sequences, FiniteSets, SequencesExt

CONSTANTS
  Archives,       \* archives: the rows of each table, or Absent
  Absent,
  None, Bad, Odd

VARIABLES
  archive, mode, ignore_shapes,    \* the archive, "compat" or "modern", -ignoreShapes
  raw,                             \* the tables read so far
  pc, refusal,                     \* the stage, and why there is no feed
  notes,                           \* the system errors of the load
  static, timezone                 \* the context and the timezone handed on

vars == <<archive, mode, ignore_shapes, raw, pc, refusal, notes, static, timezone>>

SHAPES == "shapes.txt"
STOP_TIMES == "stop_times.txt"
SEVEN_TABLES == <<"agency.txt", "stops.txt", "routes.txt", "trips.txt", STOP_TIMES, SHAPES, "frequencies.txt">>
OPTIONAL_TABLES == {SHAPES, "frequencies.txt"}
FALLBACK_TIMEZONE == "UTC"
SHAPE_POINT_GATE == 3

\* Columns that are not text, and cells that may not be blank.
COLUMNS ==
  "agency.txt" :> <<"agency_id", "agency_name", "agency_timezone">>
  @@ "stops.txt" :> <<"stop_id", "location_type">>
  @@ "routes.txt" :> <<"route_id", "agency_id">>
  @@ "trips.txt" :> <<"trip_id", "route_id", "shape_id", "direction_id">>
  @@ STOP_TIMES :> <<"trip_id", "stop_id", "stop_sequence">>
  @@ SHAPES :> <<"shape_id", "shape_pt_lat", "shape_pt_sequence">>
  @@ "frequencies.txt" :> <<"trip_id", "start_time", "end_time", "headway_secs", "exact_times">>
NOT_TEXT == {"location_type", "stop_sequence", "shape_pt_lat", "shape_pt_sequence", "start_time", "end_time",
             "headway_secs", "exact_times"}
REQUIRED(table) ==
  CASE table = STOP_TIMES -> {"stop_sequence"}
    [] table = SHAPES -> {"shape_pt_sequence", "shape_pt_lat"}
    [] OTHER -> {}

_requested == SelectSeq(SEVEN_TABLES, LAMBDA t : ~(ignore_shapes /\ t = SHAPES))

is_missing(table) == archive[table] = Absent

Cell(row, column) == IF column \in DOMAIN row THEN row[column] ELSE None

-----------------------------------------------------------------------------
(* Reading.                                                                *)

Init ==
  /\ archive \in Archives /\ mode \in {"compat", "modern"} /\ ignore_shapes \in BOOLEAN
  /\ raw = <<>> /\ pc = "opened" /\ refusal = None /\ notes = <<>>
  /\ static = None /\ timezone = None

Loading == <<archive, mode, ignore_shapes>>
Refuse(kind, why) == pc' = kind /\ refusal' = why /\ UNCHANGED <<raw, notes, static, timezone>>

\* The strict reader is the static validator's: a row it cannot type fails its
\* whole table, and a headway must be positive.
dependency_failed(table) ==
  /\ archive[table] # Absent
  /\ \E k \in DOMAIN archive[table] :
       LET row == archive[table][k]
       IN  \/ \E c \in DOMAIN row : row[c] \in {Bad, Odd}
           \/ \E c \in REQUIRED(table) : Cell(row, c) = None
           \/ table = "frequencies.txt" /\ (Cell(row, "headway_secs") = None \/ row.headway_secs <= 0)

unusable(name) == IF is_missing(name) THEN name \notin OPTIONAL_TABLES ELSE dependency_failed(name)

_check_every_table_arrived ==
  /\ pc = "opened" /\ mode = "modern"
  /\ LET refused == SelectSeq(_requested, unusable)
     IN  IF refused # <<>> THEN Refuse("load error", <<refused[1], IF is_missing(refused[1]) THEN "missing" ELSE "did not load">>)
         ELSE pc' = "tables" /\ UNCHANGED <<raw, refusal, notes, static, timezone>>
  /\ UNCHANGED Loading

open_raw_view ==
  /\ pc = "opened" /\ mode = "compat"
  /\ pc' = "tables"
  /\ UNCHANGED <<Loading, raw, refusal, notes, static, timezone>>

typed_row(table, row) == [c \in Range(COLUMNS[table]) |-> Cell(row, c)]

\* A cell the onebusaway reader cannot take.
CellTypeError(table, row) ==
  \/ \E c \in DOMAIN row \cap NOT_TEXT : row[c] = Bad
  \/ \E c \in REQUIRED(table) : Cell(row, c) = None

\* The stop times come last: their references are into the trips and the stops.
next_table ==
  LET others == SelectSeq(_requested, LAMBDA t : t # STOP_TIMES /\ t \notin DOMAIN raw)
  IN  IF others = <<>> THEN STOP_TIMES ELSE others[1]

typed_rows(table) == IF is_missing(table) THEN <<>> ELSE [k \in DOMAIN archive[table] |-> typed_row(table, archive[table][k])]

\* Only the onebusaway reader refuses here; the strict one has asked already.
_raw_tables ==
  /\ pc = "tables" /\ STOP_TIMES \notin DOMAIN raw
  /\ LET t == next_table
         refused == {k \in DOMAIN typed_rows(t) : CellTypeError(t, archive[t][k])}
     IN  IF is_missing(t) /\ t \notin OPTIONAL_TABLES THEN Refuse("load error", <<t, "missing">>)
         ELSE IF mode = "compat" /\ refused # {} THEN Refuse("load error", <<t, "a cell">>)
         ELSE raw' = raw @@ (t :> typed_rows(t)) /\ UNCHANGED <<pc, refusal, notes, static, timezone>>
  /\ UNCHANGED Loading

Rows(table) == IF table \in DOMAIN raw THEN raw[table] ELSE <<>>

Column(table, column) == {Rows(table)[k][column] : k \in DOMAIN Rows(table)}

-----------------------------------------------------------------------------
(* The gate.                                                               *)

First(S) == CHOOSE k \in S : \A j \in S : k <= j

\* Rows that name what no row of the target is, a blank naming nothing.
unresolved(table, column, target, key) ==
  {k \in DOMAIN Rows(table) : Rows(table)[k][column] \notin Column(target, key) \cup {None}}

\* Stop times before the rest, whichever of the two comes first in the file.
_REFERENCES ==
  << <<STOP_TIMES, "trip_id", "trips.txt", "trip_id">>, <<STOP_TIMES, "stop_id", "stops.txt", "stop_id">>,
     <<"trips.txt", "route_id", "routes.txt", "route_id">>, <<"frequencies.txt", "trip_id", "trips.txt", "trip_id">>,
     <<"routes.txt", "agency_id", "agency.txt", "agency_id">> >>

\* A mistake: only the columns of the stop times are looked up.
dangling_stop_time ==
  {k \in {1, 2} : unresolved(_REFERENCES[k][1], _REFERENCES[k][2], _REFERENCES[k][3], _REFERENCES[k][4]) # {}}

dangling_reference ==
  {k \in DOMAIN _REFERENCES : unresolved(_REFERENCES[k][1], _REFERENCES[k][2], _REFERENCES[k][3], _REFERENCES[k][4]) # {}}

\* exact_times blank is 0, and neither 0 nor 1 is in neither half.
exact(row) == IF row.exact_times = None THEN 0 ELSE row.exact_times
split_frequencies(one) == {k \in DOMAIN Rows("frequencies.txt") : exact(Rows("frequencies.txt")[k]) = one}

Seconds(cell) == IF cell = None THEN 0 ELSE cell
cannot_advance(row) == Seconds(row.start_time) < Seconds(row.end_time) /\ Seconds(row.headway_secs) <= 0

\* Trip by trip, in the order the trips come first, and row by row in a trip.
spinning_frequency ==
  LET rows == Rows("frequencies.txt")
      stuck == {k \in split_frequencies(1) : cannot_advance(rows[k])}
      firstOfTrip(k) == First({j \in split_frequencies(1) : rows[j].trip_id = rows[k].trip_id})
  IN  IF stuck = {} THEN None
      ELSE CHOOSE k \in stuck : \A j \in stuck : firstOfTrip(k) < firstOfTrip(j) \/ (firstOfTrip(k) = firstOfTrip(j) /\ k <= j)

_refuse_where_upstream_would_not_have_run ==
  /\ pc = "tables" /\ STOP_TIMES \in DOMAIN raw /\ mode = "compat"
  /\ IF Rows("agency.txt") = <<>> THEN Refuse("abort", <<"agency.txt", "no row">>)
     ELSE IF dangling_reference # {}
     THEN LET r == _REFERENCES[First(dangling_reference)]
          IN  Refuse("abort", <<r[1], r[2], First(unresolved(r[1], r[2], r[3], r[4]))>>)
     ELSE IF spinning_frequency # None THEN Refuse("abort", <<"frequencies.txt", "headway_secs", spinning_frequency>>)
     ELSE pc' = "loaded" /\ UNCHANGED <<raw, refusal, notes, static, timezone>>
  /\ UNCHANGED Loading

_record_what_compat_refuses ==
  /\ pc = "tables" /\ STOP_TIMES \in DOMAIN raw /\ mode = "modern"
  /\ notes' = IF spinning_frequency = None THEN notes ELSE Append(notes, "spinning")
  /\ pc' = "loaded"
  /\ UNCHANGED <<Loading, raw, refusal, static, timezone>>

-----------------------------------------------------------------------------
(* The context.                                                            *)

\* Rows of a key in order of another column, the file's order deciding ties.
Sorted(table, key, id, by) ==
  LET rows == Rows(table)
  IN  SetToSortSeq({k \in DOMAIN rows : rows[k][key] = id},
                   LAMBDA j, k : rows[j][by] < rows[k][by] \/ (rows[j][by] = rows[k][by] /\ j < k))

drawn == ~ignore_shapes /\ Len(Rows(SHAPES)) > SHAPE_POINT_GATE

\* Points by their row.
build_shapes ==
  IF drawn THEN [s \in Column(SHAPES, "shape_id") |-> Sorted(SHAPES, "shape_id", s, "shape_pt_sequence")] ELSE <<>>

\* The last row of an id is the trip's.
LastRow(S) == CHOOSE k \in S : \A j \in S : j <= k
build_trips ==
  [t \in Column("trips.txt", "trip_id") |->
     Rows("trips.txt")[LastRow({k \in DOMAIN Rows("trips.txt") : Rows("trips.txt")[k].trip_id = t})]]

\* The last row that names a drawn shape is the trip's line, and a blank name is
\* no name.
trip_shapes ==
  LET named(t) == {k \in DOMAIN Rows("trips.txt") :
                     LET row == Rows("trips.txt")[k]
                     IN  row.trip_id = t /\ row.shape_id # None /\ row.shape_id \in DOMAIN build_shapes}
  IN  [t \in {u \in Column("trips.txt", "trip_id") : named(u) # {}} |->
         build_shapes[Rows("trips.txt")[LastRow(named(t))].shape_id]]

read_stop_times ==
  [t \in Column(STOP_TIMES, "trip_id") |->
     LET order == Sorted(STOP_TIMES, "trip_id", t, "stop_sequence")
     IN  [k \in DOMAIN order |-> Rows(STOP_TIMES)[order[k]]]]

StopsOf(t) == {read_stop_times[t][k].stop_id : k \in DOMAIN read_stop_times[t]}

\* Only through a trip of the feed that calls somewhere.
build_route_stop_ids ==
  LET calling == DOMAIN build_trips \cap DOMAIN read_stop_times
  IN  [r \in {build_trips[t].route_id : t \in calling} |->
         UNION {StopsOf(t) : t \in {u \in calling : build_trips[u].route_id = r}}]

\* The stops a trip comes back to, one entry for each time it does.
repeated_stops ==
  LET again(t) == LET s == read_stop_times[t]
                  IN  SelectSeq([k \in DOMAIN s |-> <<k, s[k].stop_id>>], LAMBDA x : \E j \in 1..(x[1] - 1) : s[j].stop_id = x[2])
  IN  [t \in {u \in DOMAIN read_stop_times : again(u) # <<>>} |-> [k \in DOMAIN again(t) |-> again(t)[k][2]]]

build_stops ==
  [s \in Column("stops.txt", "stop_id") |->
     LET last == LastRow({k \in DOMAIN Rows("stops.txt") : Rows("stops.txt")[k].stop_id = s})
     IN  IF Rows("stops.txt")[last].location_type = None THEN 0 ELSE Rows("stops.txt")[last].location_type]

timezone_of == IF Rows("agency.txt") = <<>> THEN None ELSE Rows("agency.txt")[1].agency_timezone

agency_id_of(row) == IF row.agency_id = None THEN row.agency_name ELSE row.agency_id

Context ==
  [timezone |-> timezone_of,
   agency_ids |-> {agency_id_of(Rows("agency.txt")[k]) : k \in DOMAIN Rows("agency.txt")},
   route_ids |-> Column("routes.txt", "route_id"),
   stop_location_types |-> build_stops,
   trips |-> build_trips,
   trip_stop_times |-> read_stop_times,
   exact_times_zero_trip_ids |-> {Rows("frequencies.txt")[k].trip_id : k \in split_frequencies(0)},
   exact_times_one_trips |-> {Rows("frequencies.txt")[k].trip_id : k \in split_frequencies(1)},
   shape_points |-> build_shapes,
   trip_shapes |-> trip_shapes,
   trips_with_multi_stops |-> repeated_stops,
   route_stop_ids |-> build_route_stop_ids,
   shape_ids |-> Column(SHAPES, "shape_id"),
   shapes_withheld |-> ignore_shapes]

\* A feed with no timezone gets one, of which modern takes a note.
prepare_static ==
  /\ pc = "loaded"
  /\ static' = Context
  /\ timezone' = IF timezone_of = None THEN FALLBACK_TIMEZONE ELSE timezone_of
  /\ notes' = IF timezone_of = None /\ mode = "modern" THEN Append(notes, "no timezone") ELSE notes
  /\ pc' = "prepared"
  /\ UNCHANGED <<Loading, raw, refusal>>

Next ==
  \/ _check_every_table_arrived
  \/ open_raw_view
  \/ _raw_tables
  \/ _refuse_where_upstream_would_not_have_run
  \/ _record_what_compat_refuses
  \/ prepare_static

Spec == Init /\ [][Next]_vars

-----------------------------------------------------------------------------
Prepared == pc = "prepared"

\* A refused feed has a reason and no context, a prepared one the reverse.
TypeOK ==
  /\ pc \in {"opened", "tables", "loaded", "prepared", "load error", "abort"}
  /\ (refusal # None) <=> pc \in {"load error", "abort"}
  /\ Prepared <=> static # None

\* A context is built of every row of every table that was asked for, so no
\* rule can take what did not load for what the feed does not have
\* (_check_every_table_arrived, typed_row_stream).
ArrivedWhole ==
  Prepared =>
    \A t \in Range(SEVEN_TABLES) \ {x \in {SHAPES} : ignore_shapes} :
      IF is_missing(t) THEN t \in OPTIONAL_TABLES /\ Rows(t) = <<>>
      ELSE /\ Len(Rows(t)) = Len(archive[t])
           /\ \A k \in DOMAIN archive[t] :
                LET row == archive[t][k]
                IN  (\A c \in DOMAIN row \cap NOT_TEXT : row[c] # Bad) /\ \A c \in REQUIRED(t) : Cell(row, c) # None

\* What compat prepares names nothing it does not have, and holds no period the
\* jar would spin on; modern never meets such a period, its reader having
\* refused the table (gate.py's three refusals).
CompatPointsNowhere ==
  Prepared =>
    /\ \A rows \in {Rows("frequencies.txt")} : \A k \in DOMAIN rows :
         exact(rows[k]) = 1 => Seconds(rows[k].headway_secs) > 0 \/ Seconds(rows[k].start_time) >= Seconds(rows[k].end_time)
    /\ mode = "compat" =>
         /\ \A r \in DOMAIN static.route_stop_ids : static.route_stop_ids[r] \subseteq DOMAIN static.stop_location_types \cup {None}
         /\ DOMAIN static.trip_stop_times \subseteq DOMAIN static.trips \cup {None}
         /\ \A t \in DOMAIN static.trips : static.trips[t].route_id \in static.route_ids \cup {None}
         /\ static.exact_times_zero_trip_ids \cup static.exact_times_one_trips \subseteq DOMAIN static.trips \cup {None}

\* A trip drawn at all is drawn with a line of the feed that a row of the trip
\* names, points in order of their sequence, and only where the file has more
\* than three; -ignoreShapes leaves no id, no line and a flag that says so
\* (build_shapes, build_trips).
LinesAreTheTrips ==
  Prepared =>
    /\ \A t \in DOMAIN static.trip_shapes :
         /\ \E k \in DOMAIN archive["trips.txt"] :
              LET row == archive["trips.txt"][k]
              IN  /\ row.trip_id = t /\ Cell(row, "shape_id") \in DOMAIN static.shape_points
                  /\ static.trip_shapes[t] = static.shape_points[row.shape_id]
         /\ Len(archive[SHAPES]) > 3
         /\ LET line == static.trip_shapes[t]
            IN  \A j, k \in DOMAIN line : j < k =>
                  archive[SHAPES][line[j]].shape_pt_sequence <= archive[SHAPES][line[k]].shape_pt_sequence
    /\ ignore_shapes => static.shape_ids = {} /\ static.trip_shapes = <<>> /\ static.shapes_withheld

\* A route is listed with the stops its trips call at or it is not listed: an
\* empty entry would read as a route that serves nothing (build_route_stop_ids);
\* and what a trip comes back to, it calls at more than once (repeated_stops).
AbsentIsNotEmpty ==
  Prepared =>
    /\ \A r \in DOMAIN static.route_stop_ids :
         /\ static.route_stop_ids[r] # {}
         /\ \A s \in static.route_stop_ids[r] :
              \E t \in DOMAIN static.trips : static.trips[t].route_id = r
                 /\ \E k \in DOMAIN archive[STOP_TIMES] : Cell(archive[STOP_TIMES][k], "stop_id") = s /\ archive[STOP_TIMES][k].trip_id = t
    /\ \A t \in DOMAIN static.trip_stop_times :
         LET calls == static.trip_stop_times[t]
             ids == {calls[k].stop_id : k \in DOMAIN calls}
         IN  Len(calls) - Cardinality(ids)
               = IF t \in DOMAIN static.trips_with_multi_stops THEN Len(static.trips_with_multi_stops[t]) ELSE 0

\* What the comment on FALLBACK_TIMEZONE says: it is modern's, for a feed with
\* no timezone, which compat refuses as the jar dies on it.
TheFallbackIsModerns == Prepared /\ mode = "compat" => timezone = static.timezone
=============================================================================
