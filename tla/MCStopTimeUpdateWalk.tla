------------------------ MODULE MCStopTimeUpdateWalk ------------------------
(***************************************************************************)
(* Trips of two and three rows over two stops: a loop, a gap, a tie in     *)
(* stop_sequence and a negative one, which is what the largest uint32      *)
(* reads as.                                                               *)
(***************************************************************************)
EXTENDS StopTimeUpdateWalk

MCRow(stop_sequence, stop_id, blank) ==
  [stop_sequence |-> stop_sequence, stop_id |-> stop_id, blank |-> blank]

MCTripRows ==
  {<<MCRow(1, "A", FALSE), MCRow(2, "B", TRUE), MCRow(3, "A", FALSE)>>,
   <<MCRow(0, "A", TRUE), MCRow(2, "B", FALSE)>>,
   <<MCRow(1, "A", FALSE), MCRow(1, "B", FALSE), MCRow(2, "A", FALSE)>>,
   <<MCRow(-1, "B", FALSE), MCRow(1, "A", TRUE)>>}

MCRows == UNION {{trip[i] : i \in DOMAIN trip} : trip \in MCTripRows}

\* The update that sends nothing but a stop is the one with findings of its own.
MCUpdates ==
  {[stop_sequence |-> s, stop_id |-> i, timeless |-> s # None,
    own |-> IF s = None THEN <<"E043">> ELSE <<>>] :
     s \in {0, 1, 2, 3, 2 * HalfWord - 1, None}, i \in {"A", "B", None}}

=============================================================================
