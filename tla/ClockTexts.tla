----------------------------- MODULE ClockTexts -----------------------------
(***************************************************************************)
(* What the agency's timezone is taken for, a character of a custom id at  *)
(* a time (rules/_shared/zones.py), and the clocks and the age E050 prints *)
(* in it (times.py, timestamp_text.py).                                    *)
(*                                                                         *)
(* A zone is its minutes east of GMT: daylight saving, and the instants    *)
(* a datetime cannot hold, are left out.                                   *)
(***************************************************************************)
EXTENDS TimeTexts, FiniteSets

CONSTANTS
  Ids,             \* timezones: whether one begins with GMT, and the rest of it
  TzDatabase,      \* minutes of the ids the tz database has
  Long,            \* the largest number of milliseconds
  Moments,         \* POSIX times
  Nows,            \* current times, in milliseconds
  None

VARIABLES
  timezone, pc,
  at,                              \* the character it stands at
  hours, num, width, seen_colon,   \* width: the digits since the sign or the colon
  minutes                          \* of the custom id, or None

vars == <<timezone, pc, at, hours, num, width, seen_colon, minutes>>

Plus == 13

LegalInputs == DOMAIN TzDatabase \subseteq Ids

Init ==
  /\ timezone \in Ids /\ pc = "id"
  /\ at = 2 /\ hours = 0 /\ num = 0 /\ width = 0 /\ seen_colon = FALSE
  /\ minutes = None

\* GMT, a sign and at least one character more.
is_custom == timezone.gmt /\ Len(timezone.rest) >= 2 /\ timezone.rest[1] \in {Plus, Minus}

java_time_zone ==
  /\ pc = "id"
  /\ pc' = IF timezone \notin DOMAIN TzDatabase /\ is_custom THEN "offset" ELSE "done"
  /\ UNCHANGED <<timezone, at, hours, num, width, seen_colon, minutes>>

Reading == pc = "offset" /\ at <= Len(timezone.rest)

colon ==
  /\ Reading /\ timezone.rest[at] = Colon /\ ~seen_colon /\ width <= 2
  /\ hours' = num /\ num' = 0 /\ width' = 0 /\ seen_colon' = TRUE /\ at' = at + 1
  /\ UNCHANGED <<timezone, pc, minutes>>

digit ==
  /\ Reading /\ timezone.rest[at] \in Digit
  /\ num' = 10 * num + timezone.rest[at] /\ width' = width + 1 /\ at' = at + 1
  /\ UNCHANGED <<timezone, pc, hours, seen_colon, minutes>>

refuse ==
  /\ Reading
  /\ timezone.rest[at] \notin Digit
  /\ timezone.rest[at] = Colon => seen_colon \/ width > 2
  /\ pc' = "done"
  /\ UNCHANGED <<timezone, at, hours, num, width, seen_colon, minutes>>

\* Two digits are hours; more of them end in two of minutes, however many.
Fields ==
  IF seen_colon THEN <<hours, num>> ELSE IF width <= 2 THEN <<num, 0>> ELSE <<num \div 100, num % 100>>

custom_offset_minutes ==
  /\ pc = "offset" /\ at > Len(timezone.rest)
  /\ pc' = "done"
  /\ LET east == Fields[1] * 60 + Fields[2]
     IN  minutes' = IF (seen_colon /\ width # 2) \/ Fields[1] > 23 \/ Fields[2] > 59 THEN None
                    ELSE IF timezone.rest[1] = Minus THEN -east ELSE east
  /\ UNCHANGED <<timezone, at, hours, num, width, seen_colon>>

Next ==
  \/ java_time_zone
  \/ colon
  \/ digit
  \/ refuse
  \/ custom_offset_minutes

Spec == Init /\ [][Next]_vars

-----------------------------------------------------------------------------
(* The texts.                                                              *)

\* What is not understood is GMT.
utcoffset ==
  IF timezone \in DOMAIN TzDatabase THEN TzDatabase[timezone] ELSE IF minutes = None THEN 0 ELSE minutes

Magnitude(n) == IF n < 0 THEN -n ELSE n

\* Clamped, where a product would have wrapped.
_saturating_millis(posix_time) ==
  IF Magnitude(posix_time) <= Long \div 1000 THEN posix_time * 1000 ELSE IF posix_time > 0 THEN Long ELSE -Long - 1

\* The time of day is floored, before the epoch as after it.
posix_to_clock(posix_time) ==
  seconds_after_midnight_to_clock(((_saturating_millis(posix_time) + utcoffset * 60000) % 86400000) \div 1000)

to_minutes(millis) == quotient(millis, 60000)
to_seconds(millis) == quotient(millis, 1000)

\* E050's sentence: the moment's clock, how far ahead it is, and the clock of now.
in_future(moment, now) ==
  LET age == now - moment * 1000
  IN  [moment  |-> posix_to_clock(moment),
       minutes |-> Magnitude(to_minutes(age)), seconds |-> Magnitude(to_seconds(age)) % 60,
       now     |-> posix_to_clock(to_seconds(now))]

-----------------------------------------------------------------------------
\* The scan stays in the id, and an offset is less than a day.
TypeOK ==
  /\ pc \in {"id", "offset", "done"} /\ seen_colon \in BOOLEAN
  /\ at \in 2..(IF pc = "offset" THEN Len(timezone.rest) + 1 ELSE at)
  /\ minutes # None => pc = "done" /\ Magnitude(minutes) < 24 * 60

Digits(t) == \A k \in DOMAIN t : t[k] \in Digit

\* The texts of h hours and m minutes.
Writes(t, h, m) ==
  \/ Digits(t) /\ Len(t) <= 2 /\ number[t] = h /\ m = 0
  \/ Digits(t) /\ Len(t) > 2 /\ number[t] = 100 * h + m
  \/ \E c \in DOMAIN t :
       LET before == SubSeq(t, 1, c - 1)
           after == SubSeq(t, c + 1, Len(t))
       IN  /\ t[c] = Colon /\ Digits(before) /\ Digits(after)
           /\ Len(before) <= 2 /\ number[before] = h /\ Len(after) = 2 /\ number[after] = m

\* An id is an offset exactly when it is the text of an hour and a minute of the
\* day in one of the forms custom_offset_minutes lists, and it is that offset;
\* the tz database comes first, and anything else is GMT.
OffsetsAreWritten ==
  pc = "done" /\ timezone \notin DOMAIN TzDatabase =>
    LET rest == SubSeq(timezone.rest, 2, Len(timezone.rest))
        written == {x \in (0..23) \X (0..59) : Writes(rest, x[1], x[2])}
    IN  IF is_custom /\ written # {}
        THEN \A x \in written : utcoffset = (IF timezone.rest[1] = Minus THEN -1 ELSE 1) * (60 * x[1] + x[2])
        ELSE utcoffset = 0

\* The seconds a clock text names.
Named(t) == number[SubSeq(t, 1, 2)] * 3600 + number[SubSeq(t, 4, 5)] * 60 + number[SubSeq(t, 7, 8)]

\* The two clocks of an E050 are as far apart, round the dial, as its minutes and
\* seconds say, or by the one second that now has begun; and a clock can be read
\* in every zone and for every moment (in_future, posix_to_clock).
TheSentenceAddsUp ==
  pc = "done" =>
    /\ \A moment \in Moments : Len(posix_to_clock(moment)) = 8 /\ Named(posix_to_clock(moment)) < 86400
    /\ \A moment \in {t \in Moments : Magnitude(t) <= Long \div 1000} :
         \A now \in {n \in Nows : n < moment * 1000} :
           LET e050 == in_future(moment, now)
               apart == (Named(e050.moment) - Named(e050.now)) % 86400
               said == (60 * e050.minutes + e050.seconds) % 86400
           IN  apart = said \/ (now % 1000 # 0 /\ apart = (said + 1) % 86400)
=============================================================================
