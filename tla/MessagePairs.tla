---------------------------- MODULE MessagePairs ----------------------------
(***************************************************************************)
(* The rules that compare a message with its role's previous one, or read  *)
(* its header: P002 and P003 over the ids two messages carry for one trip  *)
(* (rules/_shared/walk_sequence_ids.py), P004 over two header timestamps   *)
(* beside E017, E018 and W007, P005 over a vehicle's, and E038, E039, E049 *)
(* and P001 over the header itself (rules/_shared/versions.py).            *)
(*                                                                         *)
(* A version is a text with what String.trim and the float grammar make of *)
(* it: its decimal value in quarters of a float's last place below 2.0, or *)
(* None where it is no number.  Timestamps are words of the model's width, *)
(* and the clock ticks in parts of a second.  A finding is a rule at a     *)
(* place; in which order a message's are written down is left out.         *)
(***************************************************************************)
EXTENDS Integers, Sequences, SequencesExt

CONSTANTS
  Streams,     \* the messages of one role, as sequences
  Decimal,     \* Decimal[v]: what the text of a version says, in quarters of an ulp
  Word,        \* how many values a uint64 has here
  PosixWindow, \* the timestamps is_posix accepts
  Second,      \* clock ticks in a second
  None

VARIABLES stream, n, previous, reported

vars == <<stream, n, previous, reported>>

GTFS_RT_V1 == "1.0"
GTFS_RT_V2 == "2.0"
ULPS == 4                        \* quarters to the last place of a float below 2.0
TWO == 8 * ULPS                  \* 2.0, where the model's floats start eight places below it
BAND_LOWER == 30
BAND_UPPER == 35
MAX_AGE_SECONDS == 90
FULL_DATASET == 0
PAYLOADS == <<"trip_update", "vehicle">>

int64(x) == IF x >= Word \div 2 THEN x - Word ELSE x
narrow(x) == int64(x % Word)

-----------------------------------------------------------------------------
\* The nearest float, and of two as near the even one.  From 2.0 up every
\* value of the model is a float.
_to_float32(x) ==
  LET down == x - (x % ULPS)
  IN  IF x >= TWO THEN x
      ELSE IF x % ULPS < 2 \/ (x % ULPS = 2 /\ (down \div ULPS) % 2 = 0) THEN down ELSE down + ULPS

is_valid_version(header) == header.version \in {None, GTFS_RT_V1, GTFS_RT_V2}

\* An absent version decodes to the empty text, which is no number either.
Raises(header) == header.version = None \/ Decimal[header.version] = None

\* What E049 makes of a version; the raise it swallows is a no.
is_v2_or_higher(header) == ~Raises(header) /\ _to_float32(Decimal[header.version]) >= TWO

\* What the timestamp walk makes of it: the flag was TRUE before the raise.
walks_v2_or_higher(header) == Raises(header) \/ is_v2_or_higher(header)

Found(rule, what) == {[rule |-> rule, what |-> what]}
Where(b, finding) == IF b THEN finding ELSE {}

E038(message) == Where(~is_valid_version(message.header), Found("E038", "header"))

E049(message) ==
  Where(is_v2_or_higher(message.header) /\ message.header.incrementality = None, Found("E049", "header"))

P001(message) ==
  Where(/\ message.header.version # None /\ is_valid_version(message.header)
        /\ ~is_v2_or_higher(message.header),
        Found("P001", "header"))

\* The default of incrementality is FULL_DATASET.
E039(message) ==
  UNION {Where(message.header.incrementality \in {None, FULL_DATASET} /\ message.entity[i].is_deleted # None, Found("E039", i)) :
           i \in DOMAIN message.entity}

-----------------------------------------------------------------------------
\* The timestamp walk's header block: E048 or W001 for none, and at most one of
\* three findings for the two there are.
HeaderTimestamps(message, before) ==
  LET now == int64(message.header.timestamp)
      was == IF before = None THEN 0 ELSE int64(before.header.timestamp)
  IN  IF now = 0 THEN Found(IF walks_v2_or_higher(message.header) THEN "E048" ELSE "W001", "header")
      ELSE IF was = 0 THEN {}
      ELSE Where(now = was, Found("E017", "header"))
           \cup Where(now < was, Found("E018", "header"))
           \cup Where(now > was /\ narrow(now - was) > BAND_UPPER, Found("W007", "header"))

in_band(interval) == BAND_LOWER < interval /\ interval <= BAND_UPPER

\* P004 reads the fields as they are, unsigned.
P004(message, before) ==
  LET now == message.header.timestamp
      was == IF before = None THEN 0 ELSE before.header.timestamp
  IN  Where(was # 0 /\ now # 0 /\ in_band(now - was), Found("P004", "header"))

\* A vehicle's own stamp, floored to whole seconds of age.
P005(message) ==
  UNION {LET v == message.entity[i].vehicle
         IN  Where(/\ v # None /\ v.timestamp \in PosixWindow
                   /\ (message.millis - v.timestamp * Second) \div Second > MAX_AGE_SECONDS,
                   Found("P005", i)) : i \in DOMAIN message.entity}

-----------------------------------------------------------------------------
Carrier(message, s) == message.entity[s[1]][s[2]]

\* Every payload that names a trip, by its entity.
_carried(message) ==
  {s \in (DOMAIN message.entity) \X Range(PAYLOADS) : Carrier(message, s) # None /\ Carrier(message, s).trip # None}

Same(message, s, other, t) == s[2] = t[2] /\ Carrier(message, s).trip = Carrier(other, t).trip

\* The first entity to carry a trip in a payload speaks for it.
_ids_in(message) ==
  {s \in _carried(message) : ~\E t \in _carried(message) : t[1] < s[1] /\ Same(message, s, message, t)}

\* The trips both messages carry, this one's place and the previous one's.
sequence_ids(message, before) ==
  IF before = None THEN {}
  ELSE {r \in _ids_in(message) \X _ids_in(before) : Same(message, r[1], before, r[2])}

P002(message, before) ==
  UNION {Where(message.entity[r[1][1]].id # before.entity[r[2][1]].id, Found("P002", r[1])) :
           r \in sequence_ids(message, before)}

P003(message, before) ==
  UNION {LET current == Carrier(message, r[1]).vehicle_id
             was     == Carrier(before, r[2]).vehicle_id
         IN  Where(current # None /\ was # None /\ current # was, Found("P003", r[1])) :
           r \in sequence_ids(message, before)}

\* Everything the rules here say of a message after the one before it.
Findings(message, before) ==
  HeaderTimestamps(message, before) \cup E038(message) \cup E039(message) \cup E049(message) \cup P001(message)
  \cup P002(message, before) \cup P003(message, before) \cup P004(message, before) \cup P005(message)

-----------------------------------------------------------------------------
\* What one role's stream may be: words for stamps, and versions the grammar knows.
LegalInputs ==
  /\ Word \in Nat \ {0, 1} /\ Word % 2 = 0
  /\ \A s \in Streams : s \in Seq(Range(s))
  /\ None \notin DOMAIN Decimal /\ \A v \in DOMAIN Decimal : Decimal[v] \in Nat \cup {None}
  /\ \A s \in Streams : \A k \in DOMAIN s :
       /\ s[k] # None
       /\ s[k].header.timestamp \in 0..(Word - 1)
       /\ s[k].header.version \in DOMAIN Decimal \cup {None}
       /\ s[k].entity \in Seq(Range(s[k].entity))

Init == stream \in Streams /\ n = 0 /\ previous = None /\ reported = <<>>

\* A mistake: a message becomes the basis of the next only while it is clean.
previous_clean(message, findings) == IF findings = {} THEN message ELSE previous

next_previous(message, findings) == message

\* One message: its rules, and then it is the previous one.
Validate ==
  /\ n < Len(stream)
  /\ LET message  == stream[n + 1]
         findings == Findings(message, previous)
     IN  /\ reported' = Append(reported, findings)
         /\ previous' = next_previous(message, findings)
  /\ n' = n + 1
  /\ UNCHANGED stream

Next == Validate

Spec == Init /\ [][Next]_vars

-----------------------------------------------------------------------------
Rules == {"E017", "E018", "E038", "E039", "E048", "E049", "P001", "P002", "P003", "P004", "P005", "W001", "W007"}

\* Every variable holds what the code could hold there.
TypeOK ==
  /\ n \in 0..Len(stream)
  /\ previous = None \/ previous \in Range(stream)
  /\ Len(reported) = n
  /\ \A k \in 1..n : \A f \in reported[k] : f.rule \in Rules

Says(k, rule) == \E f \in reported[k] : f.rule = rule

Stamp(k) == stream[k].header.timestamp

\* Of two stamps on one side of the sign bit exactly one rule speaks, or none where
\* the later is 1 to 30 seconds on: the bands of P004 and W007 meet and do not
\* overlap (p004.py, w007.py).  P004 reads the stamps unsigned and the walk signed,
\* so where the later alone has the bit they disagree: E018 speaks of a stamp that
\* went back, and P004 beside it if it went on by 31 to 35, a pair reported twice
\* though never by P004 and W007.  Where the earlier alone has it only W007 may
\* speak, of the difference as a signed word.
TheBandsMeet ==
  \A k \in 2..n : Stamp(k) # 0 /\ Stamp(k - 1) # 0 =>
    LET interval    == Stamp(k) - Stamp(k - 1)
        negative(x) == x >= Word \div 2
    IN  /\ Says(k, "P004") <=> interval > BAND_LOWER /\ interval <= BAND_UPPER
        /\ negative(Stamp(k)) = negative(Stamp(k - 1)) =>
             /\ Says(k, "E018") <=> interval < 0
             /\ Says(k, "E017") <=> interval = 0
             /\ Says(k, "W007") <=> interval > BAND_UPPER
        /\ negative(Stamp(k)) /\ ~negative(Stamp(k - 1)) =>
             Says(k, "E018") /\ ~Says(k, "E017") /\ ~Says(k, "W007")
        /\ ~negative(Stamp(k)) /\ negative(Stamp(k - 1)) =>
             ~Says(k, "E018") /\ ~Says(k, "E017") /\ ~Says(k, "P004")

CarriedBy(k, trip, payload) ==
  {i \in DOMAIN stream[k].entity :
     stream[k].entity[i][payload] # None /\ stream[k].entity[i][payload].trip = trip}

Trips == UNION {{Carrier(stream[k], s).trip : s \in _carried(stream[k])} : k \in 1..n}

\* A trip that one entity of every message carries has P002 once for each time
\* the id of that entity changed and never again for the same change, and P003
\* once for each time the vehicle id did, whatever else the feed carries and
\* whichever entity it is (walk_sequence_ids.py, _Run.record).
AMoveIsReportedOnce ==
  \A payload \in Range(PAYLOADS) : \A trip \in Trips :
    (\A k \in 1..n : CarriedBy(k, trip, payload) # {}) =>
      LET At(k) == CHOOSE i \in CarriedBy(k, trip, payload) : \A j \in CarriedBy(k, trip, payload) : i <= j
          Moved(k, rule) == [rule |-> rule, what |-> <<At(k), payload>>] \in reported[k]
          VehicleId(k) == stream[k].entity[At(k)][payload].vehicle_id
      IN  \A k \in 2..n :
            /\ Moved(k, "P002") <=> stream[k].entity[At(k)].id # stream[k - 1].entity[At(k - 1)].id
            /\ VehicleId(k) # None /\ VehicleId(k - 1) # None =>
                 (Moved(k, "P003") <=> VehicleId(k) # VehicleId(k - 1))

\* No version is too old and unknown at once; one that is no number is a new
\* one to the timestamp walk and an old one to E049; and one whose nearest
\* float is 2.0 is never asked for less (versions.py, e049.py).
VersionsAreReadOneWay ==
  \A k \in 1..n :
    LET version == stream[k].header.version
    IN  /\ ~(Says(k, "E038") /\ Says(k, "P001"))
        /\ Says(k, "E049") => ~Says(k, "P001") /\ ~Says(k, "W001")
        /\ Stamp(k) = 0 => (Says(k, "E048") # Says(k, "W001"))
        /\ version \in DOMAIN Decimal =>
             (Decimal[version] # None =>
                /\ Decimal[version] >= TWO - 1 => ~Says(k, "W001")
                /\ Decimal[version] < TWO - 2 => ~Says(k, "E048") /\ ~Says(k, "E049"))
=============================================================================
