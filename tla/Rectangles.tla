------------------------------ MODULE Rectangles ------------------------------
(***************************************************************************)
(* The boxes of geometry/bbox.py: the box round a feed's coordinates, the  *)
(* box that much wider, and whether a position is in one.  A box may cross *)
(* the dateline, and then its western edge is the greater number.          *)
(*                                                                         *)
(* Degrees are whole units of a coarser world: Half of them are 180        *)
(* degrees and Pole of them 90.  What the sine and the cosine say is a     *)
(* table the module is given.                                              *)
(***************************************************************************)
EXTENDS Integers, Sequences, FiniteSets, SequencesExt

CONSTANTS
  Half, Pole,
  Asin            \* per latitude and distance, the arcsine of sin(d) / cos(lat); 0 where there is none

\* What the program hands this part: the instances assume it.
LegalSphere ==
  /\ Half \in Nat \ {0} /\ Pole \in Nat \ {0}
  /\ \A y \in DOMAIN Asin : \A d \in DOMAIN Asin[y] : Asin[y][d] \in 0..Pole

World == 2 * Half
Longitudes == (-Half)..Half
Latitudes == (-Pole)..Pole

Absolute(n) == IF n < 0 THEN -n ELSE n

\* A box with nothing in it, and the boxes.
Nowhere == [min_x |-> Half + 1, max_x |-> Half + 1, min_y |-> Pole + 1, max_y |-> Pole + 1]
is_empty(r) == r = Nowhere
Rectangle(min_x, max_x, min_y, max_y) == [min_x |-> min_x, max_x |-> max_x, min_y |-> min_y, max_y |-> max_y]

\* The remainder that keeps the sign of what is divided.
fmod(n, by) == IF n < 0 THEN -((-n) % by) ELSE n % by

norm_lon_deg(lon) ==
  LET off == fmod(lon + Half, World)
  IN  IF lon \in Longitudes THEN lon
      ELSE IF off < 0 THEN Half + off
      ELSE IF off = 0 /\ lon > 0 THEN Half ELSE -Half + off

delta_lon_deg(lat, d) ==
  IF d = 0 THEN 0 ELSE IF Asin[Absolute(lat)][d] # 0 THEN Asin[Absolute(lat)][d] ELSE Pole

\* An edge on the dateline takes the sign that does not cross it.
_make_rectangle(min_x, max_x, min_y, max_y) ==
  Rectangle(IF min_x = Half /\ min_x # max_x THEN -Half ELSE min_x,
            IF min_x # Half /\ max_x = -Half /\ min_x # max_x THEN Half ELSE max_x,
            min_y, max_y)

Width(r) == LET w == r.max_x - r.min_x IN IF w < 0 THEN w + World ELSE w

-----------------------------------------------------------------------------
(* The box round some longitudes: the complement of the widest gap.        *)

Least(S) == CHOOSE x \in S : \A y \in S : x <= y
Greatest(S) == CHOOSE x \in S : \A y \in S : x >= y

\* A mistake: the loop leaves before the last gap, which is as wide.
GapBeforeLast(s, x) ==
  LET gap == IF x - s.prev < 0 THEN x - s.prev + World ELSE x - s.prev
      left == s.left - gap
      wider == gap > s.biggest
  IN  IF s.stopped THEN s
      ELSE [prev |-> x, left |-> left,
            biggest |-> IF wider THEN gap ELSE s.biggest,
            range |-> IF wider THEN <<x, s.prev>> ELSE s.range,
            stopped |-> wider]

\* One longitude in their order; the loop leaves once no gap left can be wider.
GapBefore(s, x) ==
  LET gap == IF x - s.prev < 0 THEN x - s.prev + World ELSE x - s.prev
      left == s.left - gap
      wider == gap > s.biggest
  IN  IF s.stopped THEN s
      ELSE [prev |-> x, left |-> left,
            biggest |-> IF wider THEN gap ELSE s.biggest,
            range |-> IF wider THEN <<x, s.prev>> ELSE s.range,
            stopped |-> wider /\ left <= gap]

_widest_gap_lon_range(lons) ==
  LET ordered == SetToSortSeq(lons, <)
      before == [prev |-> Greatest(lons), left |-> World, biggest |-> 0,
                 range |-> <<Half + 1, Half + 1>>, stopped |-> FALSE]
  IN  IF Cardinality(lons) = 1 THEN <<Least(lons), Least(lons)>>
      ELSE FoldLeft(GapBefore, before, ordered).range

from_points(points) ==
  LET lons == {p[1] : p \in points}
      lats == {p[2] : p \in points}
      range == IF Greatest(lons) - Least(lons) > Half THEN _widest_gap_lon_range(lons)
               ELSE <<Least(lons), Greatest(lons)>>
  IN  IF points = {} THEN Nowhere
      ELSE Rectangle(range[1], range[2], Least(lats), Greatest(lats))

-----------------------------------------------------------------------------
(* Wider by a distance, and what is inside.                                *)

closest_to_pole(r) == IF Absolute(r.max_y) > Absolute(r.min_y) THEN r.max_y ELSE r.min_y

buffered(r, d) ==
  LET lon_distance == delta_lon_deg(closest_to_pole(r), d)
  IN  IF is_empty(r) THEN r
      ELSE IF r.max_y + d >= Pole THEN _make_rectangle(-Half, Half, Greatest({-Pole, r.min_y - d}), Pole)
      ELSE IF r.min_y - d <= -Pole THEN _make_rectangle(-Half, Half, -Pole, Least({Pole, r.max_y + d}))
      ELSE IF lon_distance * 2 + Width(r) >= World THEN _make_rectangle(-Half, Half, r.min_y - d, r.max_y + d)
      ELSE _make_rectangle(norm_lon_deg(r.min_x - lon_distance), norm_lon_deg(r.max_x + lon_distance),
                           r.min_y - d, r.max_y + d)

\* A longitude is tried a turn further on the side it falls out of.
contains(r, lon, lat) ==
  LET max_x == r.min_x + Width(r)
      p_x == IF lon < r.min_x THEN lon + World ELSE IF lon > max_x THEN lon - World ELSE lon
  IN  /\ ~is_empty(r)
      /\ ~(lat > r.max_y \/ lat < r.min_y)
      /\ r.min_x <= p_x /\ p_x <= max_x
=============================================================================
