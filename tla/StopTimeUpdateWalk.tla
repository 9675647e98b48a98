------------------------- MODULE StopTimeUpdateWalk -------------------------
(***************************************************************************)
(* One TripUpdate through rules/_shared/walk_stop_time_updates.py: the     *)
(* loop over its stop_time_updates, and inside it the loop over the trip's *)
(* stop_times.txt rows that never goes back.  Twelve rules read what it    *)
(* emits.  Nothing outlives the TripUpdate, so one is the whole of it.     *)
(*                                                                         *)
(* Texts, paths and clock values are left out: a time-less arrival or      *)
(* departure over a blank cell is a flag on the update and a flag on the   *)
(* row, and the checks that read nothing but the update (E042, E043, E044) *)
(* are what the update says they find.                                     *)
(***************************************************************************)
EXTENDS Integers, Sequences

CONSTANTS
  Rows,        \* stop_times.txt rows: stop_sequence, stop_id, blank
  Updates,     \* stop_time_updates: stop_sequence, stop_id, timeless, own
  StopIds,     \* the stop_ids
  None,        \* a field that is absent
  TripRows,    \* the sequences of rows a known trip may have
  MaxUpdates,  \* bound: stop_time_updates in the TripUpdate
  HalfWord     \* 2^31 in the code: half the values a stop_sequence has

VARIABLES
  known,       \* the trip was found in stop_times.txt
  canceled,    \* the descriptor says CANCELED
  rows,        \* its rows, none when it was not found
  updates,     \* its stop_time_updates
  pc,          \* where the walk stands
  position,    \* the stop_time_update being looked at
  index,       \* _Scan.index: rows left behind
  unknown,     \* _Scan.unknown_stop_sequence
  added,       \* _Scan.added_stop_sequence_from_stop_id
  stop_sequences, stop_ids,                    \* what E002 will read
  previous_stop_sequence, previous_stop_id,
  found_e009,
  events,      \* what was yielded: the rule, and the update or 0
  matched      \* history: which update was matched with which row

inputVars == <<known, canceled, rows, updates>>
scanVars == <<index, unknown, added, matched>>
passVars == <<previous_stop_sequence, previous_stop_id, found_e009>>
vars == <<inputVars, pc, position, scanVars, stop_sequences, stop_ids, passVars, events>>

-----------------------------------------------------------------------------
Int32 == (-HalfWord)..(HalfWord - 1)

UInt32 == 0..(2 * HalfWord - 1)

OwnRules == {"E042", "E043", "E044"}

ASSUME WalkAssumption ==
  /\ HalfWord \in Nat \ {0} /\ MaxUpdates \in Nat
  /\ Rows \subseteq [stop_sequence : Int32, stop_id : StopIds, blank : BOOLEAN]
  /\ Updates \subseteq [stop_sequence : UInt32 \cup {None},
                        stop_id : StopIds \cup {None}, timeless : BOOLEAN, own : Seq(OwnRules)]
  /\ None \notin Int \cup StopIds
  /\ TripRows \subseteq Seq(Rows) \ {<<>>}

\* read_stop_times sorts each trip by stop_sequence and keeps ties in order.
ASSUME RowsAreSorted ==
  \A trip \in TripRows : \A i, j \in DOMAIN trip :
    i < j => trip[i].stop_sequence <= trip[j].stop_sequence

\* A uint32 read as a Java int.
int32(value) == IF value >= HalfWord THEN value - 2 * HalfWord ELSE value

has_stop_sequence(update) == update.stop_sequence # None

has_stop_id(update) == update.stop_id # None

sequence_of(update) == int32(update.stop_sequence)

strictly_ordered(values) == \A i, j \in DOMAIN values : i < j => values[i] < values[j]

Event(rule, at) == [rule |-> rule, at |-> at]

\* The event, if there is one, as a sequence to append.
Where(condition, rule, at) == IF condition THEN <<Event(rule, at)>> ELSE <<>>

update == updates[position]
row == rows[index + 1]

-----------------------------------------------------------------------------
Init ==
  /\ known \in BOOLEAN /\ canceled \in BOOLEAN
  /\ IF known THEN rows \in TripRows ELSE rows = <<>>
  /\ \E n \in 0..MaxUpdates : updates \in [1..n -> Updates]
  /\ pc = "begin"
  /\ position = 1
  /\ index = 0
  /\ unknown = FALSE
  /\ added = FALSE
  /\ stop_sequences = <<>>
  /\ stop_ids = <<>>
  /\ previous_stop_sequence = None
  /\ previous_stop_id = None
  /\ found_e009 = FALSE
  /\ events = <<>>
  /\ matched = <<>>

\* check_e041, before anything else.
Begin ==
  /\ pc = "begin"
  /\ pc' = "updates"
  /\ events' = events \o Where(updates = <<>> /\ ~canceled, "E041", 0)
  /\ UNCHANGED <<inputVars, position, scanVars, stop_sequences, stop_ids, passVars>>

repeats_sequence ==
  /\ previous_stop_sequence # None /\ has_stop_sequence(update)
  /\ previous_stop_sequence = sequence_of(update)

\* An absent previous stop_id was stored as "" and repeats nothing.
repeats_id ==
  /\ previous_stop_id # None /\ has_stop_id(update)
  /\ previous_stop_id = update.stop_id

\* trips_with_multi_stops: some stop is visited again (repeated_stops).
multi == \E i, j \in DOMAIN rows : i < j /\ rows[i].stop_id = rows[j].stop_id

\* A mistake: every update that lacks a stop_sequence says so.
needs_sequence_again == multi /\ ~has_stop_sequence(update)

needs_sequence == ~found_e009 /\ multi /\ ~has_stop_sequence(update)

\* A mistake: each update looks for itself from the first row.
rewound == 0

resumed == index

\* The head of the loop body: E009, E036, E037, and the two lists.
NextUpdate ==
  /\ pc = "updates"
  /\ position <= Len(updates)
  /\ events' = events \o Where(needs_sequence, "E009", position)
                      \o Where(repeats_sequence, "E036", position)
                      \o Where(repeats_id, "E037", position)
  /\ found_e009' = (found_e009 \/ needs_sequence)
  /\ previous_stop_sequence' = IF has_stop_sequence(update) THEN sequence_of(update) ELSE 0
  /\ previous_stop_id' = update.stop_id
  /\ stop_sequences' = IF has_stop_sequence(update)
                       THEN Append(stop_sequences, sequence_of(update)) ELSE stop_sequences
  /\ stop_ids' = IF has_stop_id(update) THEN Append(stop_ids, update.stop_id) ELSE stop_ids
  /\ pc' = IF known THEN "scan" ELSE "checks"
  /\ index' = resumed
  /\ UNCHANGED <<inputVars, position, unknown, added, matched>>

is_sequence_match ==
  has_stop_sequence(update) /\ row.stop_sequence = sequence_of(update)

is_id_match ==
  ~has_stop_sequence(update) /\ has_stop_id(update) /\ row.stop_id = update.stop_id

Match == matched' = Append(matched, [at |-> position, row |-> index + 1])

check_e045 == Where(has_stop_id(update) /\ row.stop_id # update.stop_id, "E045", position)

check_e046 == Where(update.timeless /\ row.blank, "E046", position)

\* The row this stop_sequence names: E045 and E046, and the index stays past it.
MatchSequence ==
  /\ pc = "scan" /\ index < Len(rows)
  /\ is_sequence_match
  /\ events' = events \o check_e045 \o check_e046
  /\ Match
  /\ index' = index + 1
  /\ pc' = "checks"
  /\ UNCHANGED <<inputVars, position, unknown, added, stop_sequences, stop_ids, passVars>>

\* No stop_sequence, and the first row left with this stop_id: its stop_sequence
\* is recovered into the list E002 reads.
MatchStopId ==
  /\ pc = "scan" /\ index < Len(rows)
  /\ is_id_match
  /\ events' = events \o check_e046
  /\ Match
  /\ stop_sequences' = Append(stop_sequences, row.stop_sequence)
  /\ added' = TRUE
  /\ index' = index + 1
  /\ pc' = "checks"
  /\ UNCHANGED <<inputVars, position, unknown, stop_ids, passVars>>

\* A mistake: any row that is not the one is taken for the last.
on_any_row == TRUE

on_last_row == index + 1 = Len(rows)

\* A mistake: a row without a match is looked at again.
not_examined == index

examined == index + 1

\* A row that is neither is left behind for good.
SkipRow ==
  /\ pc = "scan" /\ index < Len(rows)
  /\ ~is_sequence_match /\ ~is_id_match
  /\ index' = examined
  /\ unknown' = (unknown \/ (has_stop_sequence(update) /\ on_last_row))
  /\ UNCHANGED <<inputVars, pc, position, added, matched, stop_sequences, stop_ids,
                 passVars, events>>

RowsExhausted ==
  /\ pc = "scan" /\ index >= Len(rows)
  /\ pc' = "checks"
  /\ UNCHANGED <<inputVars, position, scanVars, stop_sequences, stop_ids, passVars, events>>

OwnEvents == [i \in DOMAIN update.own |-> Event(update.own[i], position)]

\* A mistake: E051 is one finding among others.
keeps_going == FALSE

breaks == unknown

\* The tail of the loop body, and the break E051 takes out of it.
Check ==
  /\ pc = "checks"
  /\ events' = events
       \o Where(~has_stop_sequence(update) /\ ~has_stop_id(update), "E040", position)
       \o OwnEvents
       \o Where(unknown, "E051", position)
  /\ IF breaks
     THEN pc' = "order" /\ UNCHANGED position
     ELSE pc' = "updates" /\ position' = position + 1
  /\ UNCHANGED <<inputVars, scanVars, stop_sequences, stop_ids, passVars>>

\* Out of order, or some stop_id was recovered and another was not, so those
\* that were cannot vouch for the rest.
disordered ==
  \/ ~strictly_ordered(stop_sequences)
  \/ known /\ added /\ Len(stop_sequences) < Len(updates)

\* _check_e002, over the lists as the loop or its break left them and the count
\* of updates as the feed sent them.
Order ==
  /\ pc = "order" \/ (pc = "updates" /\ position > Len(updates))
  /\ events' = events
       \o Where(disordered, "E002", 0)
  /\ pc' = "done"
  /\ UNCHANGED <<inputVars, position, scanVars, stop_sequences, stop_ids, passVars>>

Scan == MatchSequence \/ MatchStopId \/ SkipRow \/ RowsExhausted

Next == Begin \/ NextUpdate \/ Scan \/ Check \/ Order

\* A generator that is always run to its end.
Spec == Init /\ [][Next]_vars /\ WF_vars(Next)

-----------------------------------------------------------------------------
Rules == {"E002", "E009", "E036", "E037", "E040", "E041", "E045", "E046", "E051"} \cup OwnRules

\* Every variable holds what the code could hold there.
TypeOK ==
  /\ {known, canceled, unknown, added, found_e009} \subseteq BOOLEAN
  /\ rows \in Seq(Rows)
  /\ updates \in Seq(Updates)
  /\ pc \in {"begin", "updates", "scan", "checks", "order", "done"}
  /\ position \in 1..(Len(updates) + 1)
  /\ index \in 0..Len(rows)
  /\ stop_sequences \in Seq(Int32)
  /\ stop_ids \in Seq(StopIds)
  /\ previous_stop_sequence \in Int32 \cup {None}
  /\ previous_stop_id \in StopIds \cup {None}
  /\ events \in Seq([rule : Rules, at : 0..Len(updates)])
  /\ matched \in Seq([at : 1..Len(updates), row : 1..Len(rows)])

Reports(rule) == {i \in DOMAIN events : events[i].rule = rule}

\* E002, E009, E041 and E051 report a TripUpdate at most once each, however
\* many of its stop_time_updates they could be said of (e002.py, e051.py).
AtMostOnce ==
  \A rule \in {"E002", "E009", "E041", "E051"} :
    \A i, j \in Reports(rule) : i = j

\* No row vouches for two updates and no later update for an earlier row: what
\* was matched is in the order of the feed and of stop_times.txt at once, so the
\* whole walk is one pass over both (_advance, "never rewinds").
MatchesAreInOrder ==
  \A i, j \in DOMAIN matched : i < j =>
    /\ matched[i].at < matched[j].at
    /\ matched[i].row < matched[j].row

\* After E051 the rest of the trip is silent for every rule of the validator:
\* only the verdict on the order may follow (walks.py, "E051 breaks the loop").
BreakIsFinal ==
  [][Reports("E051") # {} /\ events' # events =>
       events' = Append(events, Event("E002", 0))]_vars

\* E051 is said of a stop_sequence that no row after the last match carries,
\* when every row has been used up looking for it.
E051MeansTheRowsRanOut ==
  \A i \in Reports("E051") :
    /\ index = Len(rows)
    /\ \A j \in DOMAIN rows :
         (\A k \in DOMAIN matched : matched[k].row < j) =>
           rows[j].stop_sequence # sequence_of(updates[events[i].at])

\* Whatever is recovered in between, two stop_sequences the feed sent out of
\* order are reported, unless a break hid the second (e002.py).
DisorderIsReported ==
  pc = "done" =>
    \A i, j \in 1..position \cap DOMAIN updates :
      /\ i < j /\ has_stop_sequence(updates[i]) /\ has_stop_sequence(updates[j])
      /\ sequence_of(updates[i]) >= sequence_of(updates[j])
      => Reports("E002") # {}

\* An update describes a row that has its stop_sequence or, when it has none,
\* its stop_id.
Describes(u, r) ==
  IF has_stop_sequence(u) THEN r.stop_sequence = sequence_of(u)
                          ELSE has_stop_id(u) /\ r.stop_id = u.stop_id

\* The updates follow the trip when they can be laid along its rows in order.
Follows ==
  /\ known
  /\ \A i, j \in DOMAIN rows : i < j => rows[i].stop_sequence < rows[j].stop_sequence
  /\ \E along \in [DOMAIN updates -> DOMAIN rows] :
       /\ \A i, j \in DOMAIN updates : i < j => along[i] < along[j]
       /\ \A i \in DOMAIN updates : Describes(updates[i], rows[along[i]])

\* A TripUpdate that follows its trip is told neither that it is out of order
\* nor that it names an unknown stop, even on a loop where a stop_id alone is
\* matched too early and however many stops it leaves out.
FollowingIsClean ==
  Follows => Reports("E002") \cup Reports("E051") = {}

\* What the walk says of the order of a TripUpdate: once, of every disorder, and
\* of nothing that follows its trip (E002, E009, E041, E051).
OrderHolds == TypeOK /\ AtMostOnce /\ DisorderIsReported /\ FollowingIsClean

\* Every TripUpdate is walked to its end.
WalkEnds == <>(pc = "done")

\* walks.py and e051.py say E051 is for a stop_sequence that is in no
\* stop_times.txt row of the trip.
E051IsForAnUnknownSequence ==
  \A i \in Reports("E051") : \A j \in DOMAIN rows :
    rows[j].stop_sequence # sequence_of(updates[events[i].at])

=============================================================================
