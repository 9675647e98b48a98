--------------------------- MODULE MCTimestampWalk ---------------------------
(***************************************************************************)
(* Words of four bits, POSIX times 2 to 6 and two ticks to a second: feeds *)
(* of three headers, a message of one entity under every kind of header,   *)
(* and trips of up to three stops and of one stop each.                    *)
(***************************************************************************)
EXTENDS TimestampWalk

MCMessage(timestamp, version, millis, entities) ==
  [timestamp |-> timestamp, version |-> version, millis |-> millis, entity |-> entities]

MCEntity(trip_update, vehicle, alert) ==
  [trip_update |-> trip_update, vehicle |-> vehicle, alert |-> alert]

MCTrip(timestamp, stops) == [timestamp |-> timestamp, stop_time_update |-> stops]

\* Nothing but a header: absent, POSIX, neither, and negative as a long.
MCHeaders ==
  {MCMessage(t, "v2", millis, <<>>) : t \in {0, 1, 2, 3, 4, 6, 7, 8, 15}, millis \in {7, 10}}
  \cup {MCMessage(0, version, 7, <<>>) : version \in {"v1", "junk"}}

MCStops == [arrival : {1, 2, 3, None}, departure : {1, 2, 3, None}]

MCEntities ==
  {<<MCEntity(None, t, <<1, 3>>)>> : t \in {0, 2, 3, 4, 5, 6, 7, 15}}
  \cup {<<MCEntity(MCTrip(t, <<>>), None, <<>>)>> : t \in {0, 2, 3, 4, 5, 6, 7, 15}}

MCTrips ==
  {<<MCEntity(MCTrip(3, stops), None, <<>>)>> : stops \in UNION {[1..k -> MCStops] : k \in 0..3}}
  \cup {<<MCEntity(MCTrip(3, <<s>>), None, <<>>), MCEntity(MCTrip(3, <<t>>), 3, <<>>)>> :
          s \in MCStops, t \in MCStops}

MCFeeds ==
  [1..3 -> MCHeaders]
  \cup {<<MCMessage(t, "v2", millis, entities)>> :
          t \in {0, 3, 4, 5, 7, 15}, millis \in {2, 7}, entities \in MCEntities}
  \cup {<<MCMessage(3, "v2", 7, entities)>> : entities \in MCTrips}

=============================================================================
