---------------------------- MODULE TimestampWalk ----------------------------
(***************************************************************************)
(* The messages of one feed role through rules/_shared/walk_timestamp.py   *)
(* and walk_timestamp_stops.py, which eleven rules read.                   *)
(*                                                                         *)
(* Two things outlive what they were read from: the header timestamp of    *)
(* the message before, which the runner hands over, and the arrival and    *)
(* the departure carried from stop to stop of a trip.  Timestamps are      *)
(* uint64 fields read as Java's long; the time of a stop is an int64 to    *)
(* begin with.  Texts are left out, and with them the agency's zone.       *)
(***************************************************************************)
EXTENDS Integers, Sequences

CONSTANTS
  Feeds,              \* the sequences of messages a role may send
  None,               \* a field that is absent
  HalfWord,           \* 2^63 in the code: half the values of a timestamp
  MIN_POSIX_TIME, MAX_POSIX_TIME,
  MILLIS_PER_SECOND,
  MINIMUM_REFRESH_INTERVAL_SECONDS,
  MAX_AGE_SECONDS,
  IN_FUTURE_TOLERANCE_SECONDS

VARIABLES
  feed,               \* the messages the runner records for the role, in order
  n,                  \* the one being walked
  pc,                 \* where its walk stands
  index,              \* the entity being looked at
  position,           \* the stop_time_update, or the alert's bound, being looked at
  previous_arrival, previous_departure,
  events,             \* what this message's walk yielded
  reported            \* history: what each message's walk yielded

vars == <<feed, n, pc, index, position, previous_arrival, previous_departure,
          events, reported>>

-----------------------------------------------------------------------------
Int64 == (-HalfWord)..(HalfWord - 1)
UInt64 == 0..(2 * HalfWord - 1)

\* A header's gtfs_realtime_version: below 2.0, not below it, or no number.
Versions == {"v1", "v2", "junk"}

Stop == [arrival : Int64 \cup {None}, departure : Int64 \cup {None}]

TripUpdate == [timestamp : UInt64, stop_time_update : Seq(Stop)]

\* A vehicle is its timestamp; an alert is the bounds its periods carry.
Entity == [trip_update : TripUpdate \cup {None},
           vehicle     : UInt64 \cup {None},
           alert       : Seq(UInt64)]

Message == [timestamp : UInt64, version : Versions, millis : Nat, entity : Seq(Entity)]

ASSUME WordAssumption ==
  /\ HalfWord \in Nat \ {0}
  /\ {MIN_POSIX_TIME, MAX_POSIX_TIME, MILLIS_PER_SECOND, MAX_AGE_SECONDS,
      MINIMUM_REFRESH_INTERVAL_SECONDS, IN_FUTURE_TOLERANCE_SECONDS} \subseteq Nat \ {0}
  /\ MAX_POSIX_TIME < HalfWord
  /\ None \notin Int

ASSUME FeedAssumption ==
  \A messages \in Feeds : messages # <<>> /\ messages \in Seq(Message)

-----------------------------------------------------------------------------
\* A mistake: the value as the wire has it.
unsigned(value) == value

\* A uint64, or a difference of two longs, as Java's long.
int64(value) == ((value + HalfWord) % (2 * HalfWord)) - HalfWord

is_posix(t) == MIN_POSIX_TIME <= t /\ t <= MAX_POSIX_TIME

\* How far behind the clock a timestamp is; negative when it is ahead.
age_millis(millis, t) == millis - t * MILLIS_PER_SECOND

\* Whole seconds ahead of the clock, beyond the tolerance.
is_in_future(millis, t, tolerance) ==
  /\ age_millis(millis, t) < 0
  /\ (-age_millis(millis, t)) \div MILLIS_PER_SECOND > tolerance

message == feed[n]
header_timestamp == int64(message.timestamp)
entity == message.entity[index]
stop_time_update == entity.trip_update.stop_time_update[position]

Event(rule, part) == [rule |-> rule, part |-> part, entity |-> index, position |-> position]

\* The event, if there is one, as a sequence to append.
Where(condition, rule, part) == IF condition THEN <<Event(rule, part)>> ELSE <<>>

-----------------------------------------------------------------------------
Init ==
  /\ feed \in Feeds
  /\ n = 1
  /\ pc = "header"
  /\ index = 0
  /\ position = 0
  /\ previous_arrival = None
  /\ previous_departure = None
  /\ events = <<>>
  /\ reported = <<>>

\* A version that is no number leaves the flag true.
v2_or_higher == message.version # "v1"

\* No header timestamp: E048 or W001, and no more is asked of the header.
MissingHeaderTimestamp ==
  /\ pc = "header"
  /\ header_timestamp = 0
  /\ events' = <<Event(IF v2_or_higher THEN "E048" ELSE "W001", "header")>>
  /\ pc' = "entities"
  /\ UNCHANGED <<feed, n, index, position, previous_arrival, previous_departure, reported>>

\* The previous message's header timestamp, or None for absent and for zero.
previous ==
  IF n = 1 \/ int64(feed[n - 1].timestamp) = 0 THEN None ELSE int64(feed[n - 1].timestamp)

\* A mistake: an interval has no sign.
against_previous_unsigned ==
  IF previous = None THEN <<>>
  ELSE Where(header_timestamp = previous, "E017", "header")
         \o Where(unsigned(message.timestamp) - previous > MINIMUM_REFRESH_INTERVAL_SECONDS,
                  "W007", "header")

\* One if/else-if over the interval: at most one of the three.
against_previous ==
  IF previous = None THEN <<>>
  ELSE Where(header_timestamp = previous, "E017", "header")
         \o Where(header_timestamp < previous, "E018", "header")
         \o Where(/\ header_timestamp > previous
                  /\ int64(header_timestamp - previous) > MINIMUM_REFRESH_INTERVAL_SECONDS,
                  "W007", "header")

\* A mistake: the header is allowed as far ahead as it is allowed behind.
header_tolerance_of_age == MAX_AGE_SECONDS

header_tolerance == IN_FUTURE_TOLERANCE_SECONDS

\* _header_events with a timestamp to look at.
HeaderTimestamp ==
  /\ pc = "header"
  /\ header_timestamp # 0
  /\ events' =
       Where(~is_posix(header_timestamp), "E001", "header")
       \o Where(/\ is_posix(header_timestamp)
                /\ age_millis(message.millis, header_timestamp)
                     > MAX_AGE_SECONDS * MILLIS_PER_SECOND,
                "W008", "header")
       \o Where(/\ is_posix(header_timestamp)
                /\ is_in_future(message.millis, header_timestamp, header_tolerance),
                "E050", "header")
       \o against_previous
  /\ pc' = "entities"
  /\ UNCHANGED <<feed, n, index, position, previous_arrival, previous_departure, reported>>

NextEntity ==
  /\ pc = "entities"
  /\ index < Len(message.entity)
  /\ index' = index + 1
  /\ pc' = "trip_update"
  /\ UNCHANGED <<feed, n, position, previous_arrival, previous_departure, events, reported>>

\* W001, or the E012 / E001 / E050 ladder both halves of an entity climb.
TimestampEvents(t, part) ==
  IF t = 0 THEN <<Event("W001", part)>>
  ELSE Where(header_timestamp # 0 /\ t > header_timestamp, "E012", part)
         \o Where(~is_posix(t), "E001", part)
         \o Where(is_posix(t) /\ is_in_future(message.millis, t, IN_FUTURE_TOLERANCE_SECONDS),
                  "E050", part)

NoTripUpdate ==
  /\ pc = "trip_update"
  /\ entity.trip_update = None
  /\ pc' = "vehicle"
  /\ UNCHANGED <<feed, n, index, position, previous_arrival, previous_departure, events,
                 reported>>

\* The trip's own timestamp; what is carried from stop to stop starts over.
BeginTrip ==
  /\ pc = "trip_update"
  /\ entity.trip_update # None
  /\ events' = events \o TimestampEvents(int64(entity.trip_update.timestamp), "trip_update")
  /\ previous_arrival' = None
  /\ previous_departure' = None
  /\ position' = 1
  /\ pc' = "stops"
  /\ UNCHANGED <<feed, n, index, reported>>

\* Two tests against the field's own previous value and two against the other's.
Compare(value, same_previous, other_previous, part) ==
  Where(same_previous # None /\ value < same_previous, "E022", part)
  \o Where(same_previous # None /\ value = same_previous, "E022", part)
  \o Where(other_previous # None /\ value < other_previous, "E022", part)
  \o Where(other_previous # None /\ value = other_previous, "E022", part)

FieldEvents(value, same_previous, other_previous, part) ==
  IF value = None THEN <<>>
  ELSE Where(~is_posix(value), "E001", part)
         \o Compare(value, same_previous, other_previous, part)

\* A mistake: what a stop does not have is forgotten.
forgotten(value, carried) == value

\* Carried forward only by a stop that has the field.
advanced(value, carried) == IF value = None THEN carried ELSE value

\* One stop_time_update: the arrival's tests, the departure's, and E025.
StopTimeUpdate ==
  /\ pc = "stops"
  /\ position <= Len(entity.trip_update.stop_time_update)
  /\ LET arrival   == stop_time_update.arrival
         departure == stop_time_update.departure
     IN  /\ events' = events
              \o FieldEvents(arrival, previous_arrival, previous_departure, "arrival")
              \o FieldEvents(departure, previous_departure, previous_arrival, "departure")
              \o Where(arrival # None /\ departure # None /\ departure < arrival,
                       "E025", "departure")
         /\ previous_arrival' = advanced(arrival, previous_arrival)
         /\ previous_departure' = advanced(departure, previous_departure)
  /\ position' = position + 1
  /\ UNCHANGED <<feed, n, pc, index, reported>>

EndTrip ==
  /\ pc = "stops"
  /\ position > Len(entity.trip_update.stop_time_update)
  /\ position' = 0
  /\ pc' = "vehicle"
  /\ UNCHANGED <<feed, n, index, previous_arrival, previous_departure, events, reported>>

Vehicle ==
  /\ pc = "vehicle"
  /\ events' = events \o (IF entity.vehicle = None THEN <<>>
                          ELSE TimestampEvents(int64(entity.vehicle), "vehicle"))
  /\ position' = 1
  /\ pc' = "alert"
  /\ UNCHANGED <<feed, n, index, previous_arrival, previous_departure, reported>>

\* The bounds an alert's periods carry, start then end: E001 and nothing else.
AlertBound ==
  /\ pc = "alert"
  /\ position <= Len(entity.alert)
  /\ events' = events \o Where(~is_posix(int64(entity.alert[position])), "E001", "alert")
  /\ position' = position + 1
  /\ UNCHANGED <<feed, n, pc, index, previous_arrival, previous_departure, reported>>

EndEntity ==
  /\ pc = "alert"
  /\ position > Len(entity.alert)
  /\ position' = 0
  /\ pc' = "entities"
  /\ UNCHANGED <<feed, n, index, previous_arrival, previous_departure, events, reported>>

\* The role's next message is compared with this one.
EndMessage ==
  /\ pc = "entities"
  /\ index = Len(message.entity)
  /\ reported' = Append(reported, events)
  /\ IF n < Len(feed)
     THEN n' = n + 1 /\ pc' = "header"
     ELSE UNCHANGED n /\ pc' = "done"
  /\ index' = 0
  /\ events' = <<>>
  /\ UNCHANGED <<feed, position, previous_arrival, previous_departure>>

Header == MissingHeaderTimestamp \/ HeaderTimestamp

Next ==
  \/ Header
  \/ NextEntity
  \/ NoTripUpdate \/ BeginTrip \/ StopTimeUpdate \/ EndTrip
  \/ Vehicle \/ AlertBound \/ EndEntity
  \/ EndMessage

Spec == Init /\ [][Next]_vars

-----------------------------------------------------------------------------
Rules == {"W001", "W007", "W008", "E001", "E012", "E017", "E018", "E022", "E025",
          "E048", "E050"}

Parts == {"header", "trip_update", "arrival", "departure", "vehicle", "alert"}

Events == [rule : Rules, part : Parts, entity : Nat, position : Nat]

\* Every variable holds what the code could hold there.
TypeOK ==
  /\ feed \in Seq(Message)
  /\ n \in DOMAIN feed
  /\ pc \in {"header", "entities", "trip_update", "stops", "vehicle", "alert", "done"}
  /\ index \in 0..Len(message.entity)
  /\ position \in Nat
  /\ {header_timestamp, previous} \subseteq Int64 \cup {None}
  /\ {previous_arrival, previous_departure} \subseteq Int64 \cup {None}
  /\ events \in Seq(Events)
  /\ reported \in Seq(Seq(Events))

Said(found, rules, part) ==
  \E i \in DOMAIN found : found[i].rule \in rules /\ found[i].part = part

\* The times a stop has.
Times(stop) == {stop.arrival, stop.departure} \ {None}

\* Every time of a stop is after every time of every stop before it, and no
\* stop is left before it is reached.
Climbs(stops) ==
  /\ \A i, j \in DOMAIN stops : i < j =>
       \A t \in Times(stops[i]), u \in Times(stops[j]) : t < u
  /\ \A i \in DOMAIN stops :
       stops[i].arrival # None /\ stops[i].departure # None =>
         stops[i].arrival <= stops[i].departure

\* Two values are carried from stop to stop and no more, each past the stops that
\* lack it; that is enough to judge the whole trip.  A trip is silent under E022
\* and E025 exactly when its times climb, however far apart the two that do not
\* (walk_timestamp_stops.py, "The carry-forward is conditional").
SilentExactlyWhenTimesClimb ==
  pc = "stops" =>
    (Climbs(SubSeq(entity.trip_update.stop_time_update, 1, position - 1)) <=>
       ~\E i \in DOMAIN events :
           events[i].rule \in {"E022", "E025"} /\ events[i].entity = index)

\* An entity from the future is never the only thing wrong: either it is ahead of
\* its header as well, or the header is from the future, no POSIX time or absent
\* (E012 and both E050 sites read the same header_timestamp and the same clock).
FutureIsExplained ==
  \A i \in DOMAIN events :
    events[i].rule = "E050" /\ events[i].part # "header" =>
      \/ Said(events, {"E050", "E001", "E048", "W001"}, "header")
      \/ \E j \in DOMAIN events :
           /\ events[j].rule = "E012"
           /\ events[j].part = events[i].part /\ events[j].entity = events[i].entity

\* Each message is compared only with the one before, and yet: as long as none
\* is without a timestamp and none is told E017 or E018, the header timestamps a
\* role sends, read as Java's long, climb over the whole run.
HeadersClimb ==
  \A i, j \in DOMAIN reported :
    /\ i < j
    /\ int64(feed[i].timestamp) # 0
    /\ \A k \in (i + 1)..j : ~Said(reported[k], {"E017", "E018", "E048", "W001"}, "header")
    => int64(feed[i].timestamp) < int64(feed[j].timestamp)

\* A header nothing is said of is fresh: no more than MAX_AGE_SECONDS old, less
\* than a second over the tolerance ahead, and no more than the refresh interval
\* after the previous message's, if that was a POSIX time itself.  Where it was
\* not, the wrapped difference may be small and the gap go unreported.
SilenceMeansFresh ==
  \A i \in DOMAIN reported :
    ~Said(reported[i], Rules, "header") =>
      LET t   == int64(feed[i].timestamp)
          age == age_millis(feed[i].millis, t)
      IN  /\ is_posix(t)
          /\ age <= MAX_AGE_SECONDS * MILLIS_PER_SECOND
          /\ -age < (IN_FUTURE_TOLERANCE_SECONDS + 1) * MILLIS_PER_SECOND
          /\ i > 1 /\ is_posix(int64(feed[i - 1].timestamp)) =>
               t - int64(feed[i - 1].timestamp) \in 1..MINIMUM_REFRESH_INTERVAL_SECONDS

\* What the walk says of the age of a message and of its entities (E001, E012,
\* E048, E050, W001, W007, W008).
AgeHolds == TypeOK /\ FutureIsExplained /\ SilenceMeansFresh

=============================================================================
