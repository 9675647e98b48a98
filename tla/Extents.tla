------------------------------- MODULE Extents -------------------------------
(***************************************************************************)
(* The extent of a prepared feed, as static/context.py and static/_tables  *)
(* build it once: a box round the stops, a box round the shape points      *)
(* where there are enough of them, and each made wider for the vehicles    *)
(* that are later looked up in it.                                         *)
(***************************************************************************)
EXTENDS Rectangles

CONSTANTS
  Feeds,              \* feeds: the rows of stops.txt and of shapes.txt as coordinates, a row may lack its own
  Distances,          \* REGION_BUFFER_DEGREES, in units
  Absent              \* a coordinate a row does not have, a box that is not built

VARIABLES
  feed, ignore_shapes, distance,
  pc,
  stop_box, shape_box,                     \* the boxes
  stop_box_buffered, shape_box_buffered    \* and the wider ones

vars == <<feed, ignore_shapes, distance, pc, stop_box, shape_box, stop_box_buffered, shape_box_buffered>>

SHAPE_POINT_GATE == 3

\* What the program hands this part: the instances assume it.
LegalInputs ==
  \A f \in Feeds : /\ \A k \in DOMAIN f.stops : f.stops[k] # Absent => f.stops[k] \in Longitudes \X Latitudes
                   /\ \A k \in DOMAIN f.shapes : f.shapes[k] \in Longitudes \X Latitudes

Init ==
  /\ feed \in Feeds /\ ignore_shapes \in BOOLEAN /\ distance \in Distances
  /\ pc = "shapes"
  /\ stop_box = Absent /\ shape_box = Absent
  /\ stop_box_buffered = Absent /\ shape_box_buffered = Absent

enough_points(rows) == ~ignore_shapes /\ Len(rows) > SHAPE_POINT_GATE

build_shapes ==
  /\ pc = "shapes"
  /\ IF enough_points(feed.shapes)
     THEN /\ shape_box' = from_points({feed.shapes[k] : k \in DOMAIN feed.shapes})
          /\ shape_box_buffered' = buffered(shape_box', distance)
     ELSE UNCHANGED <<shape_box, shape_box_buffered>>
  /\ pc' = "stops"
  /\ UNCHANGED <<feed, ignore_shapes, distance, stop_box, stop_box_buffered>>

\* A stop with no coordinates is no point of the box.
build_stops ==
  /\ pc = "stops"
  /\ stop_box' = from_points({feed.stops[k] : k \in {j \in DOMAIN feed.stops : feed.stops[j] # Absent}})
  /\ stop_box_buffered' = buffered(stop_box', distance)
  /\ pc' = "built"
  /\ UNCHANGED <<feed, ignore_shapes, distance, shape_box, shape_box_buffered>>

Next == build_shapes \/ build_stops

Spec == Init /\ [][Next]_vars

-----------------------------------------------------------------------------
\* The box a vehicle is looked up in: the shapes' where there is one.
inside_agency_bounds(lon, lat) ==
  contains(IF shape_box_buffered = Absent THEN stop_box_buffered ELSE shape_box_buffered, lon, lat)

Located == {feed.stops[k] : k \in {j \in DOMAIN feed.stops : feed.stops[j] # Absent}}
Drawn == {feed.shapes[k] : k \in DOMAIN feed.shapes}
Boxes == {b \in {stop_box, shape_box, stop_box_buffered, shape_box_buffered} : b # Absent}

\* Whatever was built has its corners in the world, north above south, and a
\* wider box is built with each box.
TypeOK ==
  /\ \A b \in Boxes : is_empty(b) \/ ( /\ {b.min_x, b.max_x} \subseteq Longitudes
                                       /\ {b.min_y, b.max_y} \subseteq Latitudes /\ b.min_y <= b.max_y)
  /\ (shape_box = Absent) = (shape_box_buffered = Absent)
  /\ (stop_box = Absent) = (stop_box_buffered = Absent)

\* The arc from one longitude east to another, as places on the globe.
Arc(from, to) == {(from + k) % World : k \in 0..(IF to < from THEN to - from + World ELSE to - from)}
Place(lon) == lon % World

\* A position is in a box exactly when its meridian is on the arc from the
\* box's western to its eastern edge and its parallel between the others: the
\* turn Rectangle.contains adds or takes off once is always the right one.
AMeridianIsAPlace ==
  \A b \in Boxes : ~is_empty(b) =>
    \A lon \in Longitudes, lat \in Latitudes :
      contains(b, lon, lat) <=> Place(lon) \in Arc(b.min_x, b.max_x) /\ lat \in b.min_y..b.max_y

Reaches(box, points) == \A p \in points : Place(p[1]) \in Arc(box.min_x, box.max_x) /\ p[2] \in box.min_y..box.max_y

\* No box narrower east to west, crossing the dateline or not, holds all the
\* points of a table: the loop over the gaps finds the widest although it
\* leaves early (Rectangle.from_points, _widest_gap_lon_range).
NoNarrowerBoxHoldsThem ==
  \A pair \in {<<stop_box, Located>>, <<shape_box, Drawn>>} :
    LET b == pair[1]
    IN  b # Absent /\ ~is_empty(b) =>
          /\ Reaches(b, pair[2])
          /\ \A from, to \in {p[1] : p \in pair[2]} :
               (\A p \in pair[2] : Place(p[1]) \in Arc(from, to)) => Cardinality(Arc(from, to)) >= Cardinality(Arc(b.min_x, b.max_x))

\* What a vehicle near the feed may stray without a finding: every place of the
\* box, moved that far north or south, or that far east or west at the parallel
\* of the box nearest a pole, is inside the wider one, the dateline and the
\* poles notwithstanding, and where the box reaches no pole nothing else is
\* (Rectangle.buffered).
StrayingThatFarIsInside ==
  \A pair \in {<<stop_box, stop_box_buffered>>, <<shape_box, shape_box_buffered>>} :
    LET b == pair[1]
        w == pair[2]
        furthest == Greatest({delta_lon_deg(y, distance) : y \in {b.min_y, b.max_y}})
        near == {<<Place(x + dx), y + dy>> : x \in Arc(b.min_x, b.max_x), y \in b.min_y..b.max_y,
                                             dx \in (-furthest)..furthest, dy \in (-distance)..distance}
    IN  b # Absent /\ ~is_empty(b) =>
          IF b.max_y + distance >= Pole \/ b.min_y - distance <= -Pole
          THEN \A lon \in Longitudes, lat \in Latitudes :
                 contains(w, lon, lat) <=> lat \in (b.min_y - distance)..(b.max_y + distance)
          ELSE \A lon \in Longitudes, lat \in Latitudes : contains(w, lon, lat) <=> <<Place(lon), lat>> \in near

\* The feed's own places are never outside it: every shape point where shapes
\* decide, every located stop where they do not; and shapes decide only where
\* the file was asked for and draws more than three points (build_shapes).
OwnPlacesAreInside ==
  pc = "built" =>
    /\ \A p \in (IF shape_box # Absent THEN Drawn ELSE Located) : inside_agency_bounds(p[1], p[2])
    /\ shape_box # Absent <=> ~ignore_shapes /\ Len(feed.shapes) >= 4
=============================================================================
