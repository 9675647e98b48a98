------------------------------- MODULE Headways -------------------------------
(***************************************************************************)
(* The loop over the departures an exact_times = 1 period declares         *)
(* (rules/_shared/frequencies.py), the rules that look for a start_time in *)
(* it (E019 on trip updates and vehicles, P011 on alerts), and the loop of *)
(* the jar it was written from, which never leaves some periods and which  *)
(* runner/gate.py therefore refuses.                                       *)
(*                                                                         *)
(* The two loops run side by side, a step at a time, on the periods of one *)
(* trip and one start_time.  The jar's int is narrower than Java's by as   *)
(* many bits as the bound given for it.                                    *)
(***************************************************************************)
EXTENDS Integers, Sequences

CONSTANTS
  Searches,       \* the periods of a trip, what looks for which start_time
  IntMax,         \* the greatest int of the jar
  None

VARIABLES
  periods, half, wanted,     \* the search: rows, the half of the entity, the clock or none
  ours, jar                  \* the two loops

vars == <<periods, half, wanted, ours, jar>>

Row == [start : Int, end : Int, headway : Int]
Search == [periods : Seq(Row), half : {"trip_update", "vehicle", "alert"}, wanted : {None} \cup (Nat \X Nat \X Nat)]

\* What the program hands this part: the instances assume it.  A row's times are
\* what onebusaway's reader makes of them, which takes a sign (static/onebusaway.py,
\* _seconds); a wanted clock is three numbers, whatever they are.
LegalInputs ==
  /\ None \notin Int \X Int \X Int
  /\ IntMax \in Nat
  /\ \A s \in Searches :
       /\ s \in Search /\ s.periods # <<>>
       /\ \A k \in DOMAIN s.periods :
            s.periods[k].start >= -IntMax - 1 /\ s.periods[k].end + s.periods[k].headway <= IntMax

-----------------------------------------------------------------------------
(* Clocks.                                                                 *)

\* Division as Java has it, towards zero, and the remainder that goes with it.
_java_div(n, by) == IF n < 0 THEN -((-n) \div by) ELSE n \div by
_java_mod(n, by) == n - by * _java_div(n, by)

seconds_after_midnight_to_clock(s) ==
  <<_java_div(s, 3600), _java_mod(_java_div(s, 60), 60), _java_mod(s, 60)>>

\* A vehicle's, with the remainder the jar writes for the minutes.
vehicle_position_clock(s) == <<s \div 3600, s % 360, s % 60>>

clock(s) == IF half = "vehicle" THEN vehicle_position_clock(s) ELSE seconds_after_midnight_to_clock(s)

\* The same clocks as the jar divides.
jar_clock(s) ==
  IF half = "vehicle" THEN <<_java_div(s, 3600), _java_mod(s, 360), _java_mod(s, 60)>>
  ELSE seconds_after_midnight_to_clock(s)

-----------------------------------------------------------------------------
(* The loops.  A loop stands in a period at a candidate, remembers the last *)
(* it tried, and has matched or not.                                       *)

Fresh == [period |-> 1, current |-> periods[1].start, last |-> None, headway |-> None, pc |-> "looping"]

cannot_advance(row) == row.start < row.end /\ row.headway <= 0

\* The gate's question on the whole feed.
spinning_frequency == \E k \in DOMAIN periods : cannot_advance(periods[k])

NextPeriod(l) ==
  IF l.period = Len(periods) THEN [l EXCEPT !.pc = "unmatched"]
  ELSE [l EXCEPT !.period = @ + 1, !.current = periods[l.period + 1].start]

Tried(l, shown) == [l EXCEPT !.last = shown, !.headway = periods[l.period].headway]

\* Tries a candidate; the one after it is the loop's own.
Try(tried, onward) == IF wanted # None /\ wanted = tried.last THEN [tried EXCEPT !.pc = "matched"] ELSE onward

\* A mistake: a period that cannot advance is stepped through like any other.
advance_regardless(l) == [l EXCEPT !.current = @ + periods[l.period].headway]

\* One candidate and no more where the headway does not advance.
start_times(l) ==
  IF periods[l.period].headway <= 0 THEN NextPeriod(l)
  ELSE [l EXCEPT !.current = @ + periods[l.period].headway]

\* A mistake: the end of a period is a departure too.
in_period_and_end(l) == l.current <= periods[l.period].end

in_period(l) == l.current < periods[l.period].end

Init ==
  /\ \E s \in Searches : periods = s.periods /\ half = s.half /\ wanted = s.wanted
  /\ ours = Fresh /\ jar = Fresh

_search ==
  /\ ours.pc = "looping"
  /\ ours' = LET tried == Tried(ours, clock(ours.current))
             IN  IF in_period(ours) THEN Try(tried, start_times(tried)) ELSE NextPeriod(ours)
  /\ UNCHANGED <<periods, half, wanted, jar>>

\* An int goes on from the other end.
Wrap(n) == IF n < -IntMax - 1 THEN n + 2 * IntMax + 2 ELSE IF n > IntMax THEN n - 2 * IntMax - 2 ELSE n

\* The jar's loop, which the doc of start_times quotes.
FrequencyTypeOneValidator ==
  /\ jar.pc = "looping"
  /\ jar' = LET tried == Tried(jar, jar_clock(jar.current))
            IN  IF jar.current < periods[jar.period].end
                THEN Try(tried, [tried EXCEPT !.current = Wrap(@ + periods[jar.period].headway)])
                ELSE NextPeriod(jar)
  /\ UNCHANGED <<periods, half, wanted, ours>>

Next == _search \/ FrequencyTypeOneValidator

Spec == Init /\ [][Next]_vars /\ WF_vars(_search) /\ WF_vars(FrequencyTypeOneValidator)

-----------------------------------------------------------------------------
(* The rules.                                                              *)

\* E019 of a trip update and a vehicle, P011 of an alert that states a time.
Reported == ours.pc = "unmatched"

Done(l) == l.pc \in {"matched", "unmatched"}

\* The loop stands in a period at a candidate of it, or past the last, and a
\* search without a time matches nothing.
TypeOK ==
  /\ ours.pc \in {"looping", "matched", "unmatched"} /\ jar.pc \in {"looping", "matched", "unmatched"}
  /\ ours.period \in DOMAIN periods
  /\ LET row == periods[ours.period]
     IN  ours.current >= row.start /\ (ours.current < row.end + row.headway \/ ours.current = row.start)
  /\ wanted = None => ours.pc # "matched"

IsTime(w) == w[2] < 60 /\ w[3] < 60
Seconds(w) == w[1] * 3600 + w[2] * 60 + w[3]

\* A whole number of headways after the beginning of a period, before its end.
Departs(row, s) == s >= row.start /\ s < row.end /\ (s - row.start) % row.headway = 0

\* A start_time is let pass exactly when it is a whole number of headways after
\* the beginning of a period of its trip and before its end (the clause P011
\* quotes, and E019 of a trip update), for every time from midnight on.
SilentIsADeparture ==
  half # "vehicle" /\ Done(ours) /\ ~spinning_frequency =>
    (~Reported <=> wanted # None /\ IsTime(wanted) /\ \E k \in DOMAIN periods : Departs(periods[k], Seconds(wanted)))

\* Both loops have left the rule with the same candidate and headway, or none.
Agree == Done(ours) /\ Done(jar) => ours.pc = jar.pc /\ ours.last = jar.last /\ ours.headway = jar.headway

\* Where the gate lets the feed through, the rule says what the jar says, to the
\* candidate and the headway it was left with, which are in the prefix; where
\* no period begins both are null (E019's _search).  A vehicle's clocks are the
\* jar's from midnight on.
AsTheJarSays ==
  ~spinning_frequency /\ (half = "vehicle" => \A k \in DOMAIN periods : periods[k].start >= 0) => Agree

\* vehicle_position_clock's docstring: a candidate "is non-negative and Java's
\* truncating division and Python's flooring one agree", so a vehicle needs no
\* more than the gate for the rule to say what the jar says.
VehicleClocksAgree == half = "vehicle" /\ ~spinning_frequency => Agree

\* The rule has returned, as it does whatever the rows say; and so has the jar on
\* any feed the gate lets through (spinning_frequency).
Searched == Done(ours) /\ (Done(jar) \/ spinning_frequency)
=============================================================================
