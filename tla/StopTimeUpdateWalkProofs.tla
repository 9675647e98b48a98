---------------------- MODULE StopTimeUpdateWalkProofs ----------------------
(***************************************************************************)
(* What the walk over one TripUpdate does, for any trip, any number of     *)
(* stop_time_updates and any width of a stop_sequence.                     *)
(***************************************************************************)
EXTENDS StopTimeUpdateWalk, SequenceTheorems, TLAPS

-----------------------------------------------------------------------------
\* Sequences of events.

Events == [rule : Rules, at : Nat]

\* A sequence that reports nothing under a rule.
Silent(s, rule) == \A i \in DOMAIN s : s[i].rule # rule

LEMMA WhereReports ==
  ASSUME NEW c \in BOOLEAN, NEW rule \in Rules, NEW at \in Nat, NEW other, other # rule
  PROVE  /\ Where(c, rule, at) \in Seq(Events)
         /\ Silent(Where(c, rule, at), other)
<1>1. Event(rule, at) \in Events /\ Event(rule, at).rule = rule
  BY DEF Event, Events
<1>2. CASE c
  BY <1>1, <1>2 DEF Where, Silent
<1>3. CASE ~c
  BY <1>3 DEF Where, Silent
<1>4. QED
  BY <1>2, <1>3

LEMMA WhereNothing ==
  ASSUME NEW rule, NEW at
  PROVE  Where(FALSE, rule, at) = <<>>
BY DEF Where

LEMMA SilentConcat ==
  ASSUME NEW s \in Seq(Events), NEW t \in Seq(Events), NEW rule,
         Silent(s, rule), Silent(t, rule)
  PROVE  s \o t \in Seq(Events) /\ Silent(s \o t, rule)
<1>1. s \o t \in Seq(Events) /\ Len(s \o t) = Len(s) + Len(t)
  OBVIOUS
<1>2. ASSUME NEW i \in 1..(Len(s) + Len(t)) PROVE (s \o t)[i].rule # rule
  <2>1. CASE i <= Len(s)
    BY <2>1 DEF Silent
  <2>2. CASE i > Len(s)
    BY <2>2 DEF Silent
  <2>3. QED
    BY <2>1, <2>2
<1>3. QED
  BY <1>1, <1>2 DEF Silent

-----------------------------------------------------------------------------
\* Types.

TypeInv ==
  /\ {known, canceled, unknown, added, found_e009} \subseteq BOOLEAN
  /\ rows \in Seq(Rows) /\ updates \in Seq(Updates)
  /\ pc \in {"begin", "updates", "scan", "checks", "order", "done"}
  /\ position \in 1..(Len(updates) + 1)
  /\ pc \in {"scan", "checks", "order"} => position <= Len(updates)
  /\ index \in 0..Len(rows)
  /\ stop_sequences \in Seq(Int32)
  /\ matched \in Seq([at : 1..Len(updates), row : 1..Len(rows)])
  /\ events \in Seq(Events)

LEMMA Narrowed ==
  ASSUME NEW u \in Updates, has_stop_sequence(u)
  PROVE  sequence_of(u) \in Int32
<1>1. u.stop_sequence \in UInt32
  BY WalkAssumption DEF has_stop_sequence
<1>2. HalfWord \in Nat \ {0}
  BY WalkAssumption
<1>3. QED
  BY <1>1, <1>2 DEF sequence_of, int32, Int32, UInt32

LEMMA RowType ==
  ASSUME NEW r \in Rows
  PROVE  r.stop_sequence \in Int32 /\ r.stop_sequence \in Int
BY WalkAssumption DEF Int32

\* What each action can yield.
LEMMA YieldType ==
  ASSUME TypeInv, Next
  PROVE  events' \in Seq(Events)
<1> USE DEF TypeInv
<1>1. CASE Begin
  <2>1. Where(updates = <<>> /\ ~canceled, "E041", 0) \in Seq(Events)
    BY WhereReports DEF Rules
  <2>2. QED
    BY <1>1, <2>1 DEF Begin
<1>2. CASE NextUpdate
  <2>1. position \in Nat
    OBVIOUS
  <2>2. /\ Where(needs_sequence, "E009", position) \in Seq(Events)
        /\ Where(repeats_sequence, "E036", position) \in Seq(Events)
        /\ Where(repeats_id, "E037", position) \in Seq(Events)
    BY <2>1, WhereReports DEF Rules, needs_sequence, repeats_sequence, repeats_id
  <2>3. QED
    BY <1>2, <2>2 DEF NextUpdate
<1>3. CASE MatchSequence
  <2>1. position \in Nat
    OBVIOUS
  <2>2. /\ Where(has_stop_id(update) /\ row.stop_id # update.stop_id, "E045", position)
             \in Seq(Events)
        /\ Where(update.timeless /\ row.blank, "E046", position) \in Seq(Events)
    BY <2>1, WhereReports DEF Rules
  <2>3. QED
    BY <1>3, <2>2 DEF MatchSequence, check_e045, check_e046
<1>4. CASE MatchStopId
  <2>0. position \in Nat
    OBVIOUS
  <2>1. Where(update.timeless /\ row.blank, "E046", position) \in Seq(Events)
    BY <2>0, WhereReports DEF Rules
  <2>2. QED
    BY <1>4, <2>1 DEF MatchStopId, check_e046
<1>5. CASE SkipRow \/ RowsExhausted
  BY <1>5 DEF SkipRow, RowsExhausted
<1>6. CASE Check
  <2>1. position \in Nat /\ update \in Updates
    BY <1>6 DEF Check, update
  <2>2. /\ Where(~has_stop_sequence(update) /\ ~has_stop_id(update), "E040", position)
             \in Seq(Events)
        /\ Where(unknown, "E051", position) \in Seq(Events)
    BY <2>1, WhereReports DEF Rules
  <2>3. OwnEvents \in Seq(Events)
    <3>1. update.own \in Seq(OwnRules)
      BY <2>1, WalkAssumption
    <3>2. OwnRules \subseteq Rules
      BY DEF Rules
    <3>3. \A i \in DOMAIN update.own : Event(update.own[i], position) \in Events
      BY <2>1, <3>1, <3>2 DEF Event, Events
    <3>4. Len(update.own) \in Nat /\ DOMAIN update.own = 1..Len(update.own)
      BY <3>1
    <3>5. QED
      BY <3>3, <3>4 DEF OwnEvents
  <2>4. QED
    BY <1>6, <2>2, <2>3 DEF Check
<1>7. CASE Order
  <2>1. Where(disordered, "E002", 0) \in Seq(Events)
    BY WhereReports DEF Rules, disordered
  <2>2. QED
    BY <1>7, <2>1 DEF Order
<1>8. QED
  BY <1>1, <1>2, <1>3, <1>4, <1>5, <1>6, <1>7 DEF Next, Scan

LEMMA TypeInit == Init => TypeInv
<1> SUFFICES ASSUME Init PROVE TypeInv
  OBVIOUS
<1>1. PICK n \in 0..MaxUpdates : updates \in [1..n -> Updates]
  BY DEF Init
<1>2. n \in Nat
  BY WalkAssumption
<1>3. updates \in Seq(Updates) /\ Len(updates) \in Nat
  BY <1>1, <1>2
<1>4. rows \in Seq(Rows) /\ Len(rows) \in Nat
  <2>1. rows \in TripRows \/ rows = <<>>
    BY DEF Init
  <2>2. TripRows \subseteq Seq(Rows)
    BY WalkAssumption
  <2>3. rows \in Seq(Rows)
    <3>1. <<>> \in Seq(Rows)
      OBVIOUS
    <3>2. QED
      BY <2>1, <2>2, <3>1, Zenon
  <2>4. QED
    BY <2>3
<1>5. /\ pc = "begin" /\ position = 1 /\ index = 0 /\ stop_sequences = <<>>
      /\ matched = <<>> /\ events = <<>> /\ known \in BOOLEAN /\ canceled \in BOOLEAN
      /\ unknown = FALSE /\ added = FALSE /\ found_e009 = FALSE
  BY DEF Init
<1>6. {known, canceled, unknown, added, found_e009} \subseteq BOOLEAN
  BY <1>5
<1>7. /\ stop_sequences \in Seq(Int32) /\ events \in Seq(Events)
      /\ matched \in Seq([at : 1..Len(updates), row : 1..Len(rows)])
  BY <1>5
<1>8. position \in 1..(Len(updates) + 1) /\ index \in 0..Len(rows)
  BY <1>3, <1>4, <1>5
<1>9. QED
  BY <1>3, <1>4, <1>5, <1>6, <1>7, <1>8 DEF TypeInv

LEMMA TypeNext == TypeInv /\ [Next]_vars => TypeInv'
<1> SUFFICES ASSUME TypeInv, [Next]_vars PROVE TypeInv'
  OBVIOUS
<1>1. CASE UNCHANGED vars
  BY <1>1 DEF vars, inputVars, scanVars, passVars, TypeInv
<1> SUFFICES ASSUME Next PROVE TypeInv'
  BY <1>1
<1>2. events' \in Seq(Events)
  BY YieldType
<1>3. Len(updates) \in Nat /\ Len(rows) \in Nat
  BY DEF TypeInv
<1>4. UNCHANGED inputVars
  BY DEF Next, Scan, Begin, NextUpdate, MatchSequence, MatchStopId, SkipRow, RowsExhausted,
         Check, Order
<1>5. CASE Begin
  BY <1>2, <1>3, <1>5 DEF Begin, inputVars, scanVars, passVars, TypeInv
<1>6. CASE NextUpdate
  <2>1. update \in Updates
    BY <1>6 DEF TypeInv, NextUpdate, update
  <2>2. stop_sequences' \in Seq(Int32)
    BY <1>6, <2>1, Narrowed DEF TypeInv, NextUpdate
  <2>3. found_e009' \in BOOLEAN
    BY <1>6 DEF TypeInv, NextUpdate, needs_sequence
  <2>4. QED
    BY <1>2, <1>3, <1>6, <2>2, <2>3 DEF NextUpdate, resumed, inputVars, TypeInv
<1>7. CASE MatchSequence \/ MatchStopId
  <2>1. index + 1 \in 1..Len(rows) /\ position \in 1..Len(updates)
    BY <1>3, <1>7 DEF MatchSequence, MatchStopId, TypeInv
  <2>2. matched' \in Seq([at : 1..Len(updates), row : 1..Len(rows)])
    <3>1. matched' = Append(matched, [at |-> position, row |-> index + 1])
      BY <1>7 DEF MatchSequence, MatchStopId, Match
    <3>2. [at |-> position, row |-> index + 1] \in [at : 1..Len(updates), row : 1..Len(rows)]
      BY <2>1
    <3>3. QED
      BY <3>1, <3>2 DEF TypeInv
  <2>3. row \in Rows
    BY <2>1 DEF row, TypeInv
  <2>4. stop_sequences' \in Seq(Int32)
    <3>1. row.stop_sequence \in Int32
      BY <2>3, RowType
    <3>2. \/ stop_sequences' = stop_sequences
          \/ stop_sequences' = Append(stop_sequences, row.stop_sequence)
      BY <1>7 DEF MatchSequence, MatchStopId
    <3>3. stop_sequences \in Seq(Int32)
      BY DEF TypeInv
    <3>4. Append(stop_sequences, row.stop_sequence) \in Seq(Int32)
      BY <3>1, <3>3
    <3>5. QED
      BY <3>2, <3>3, <3>4
  <2>5. /\ index' = index + 1 /\ pc' = "checks" /\ position' = position
        /\ unknown' = unknown /\ added' \in BOOLEAN /\ found_e009' = found_e009
    BY <1>7 DEF MatchSequence, MatchStopId, passVars, TypeInv
  <2>6. QED
    BY <1>2, <1>4, <2>1, <2>2, <2>4, <2>5 DEF inputVars, TypeInv
<1>8. CASE SkipRow
  <2>1. index' \in 0..Len(rows)
    BY <1>3, <1>8 DEF SkipRow, examined, TypeInv
  <2>2. unknown' \in BOOLEAN
    BY <1>8 DEF SkipRow, TypeInv
  <2>3. QED
    BY <1>2, <1>8, <2>1, <2>2 DEF SkipRow, inputVars, passVars, TypeInv
<1>9. CASE RowsExhausted
  BY <1>2, <1>9 DEF RowsExhausted, inputVars, scanVars, passVars, TypeInv
<1>10. CASE Check
  BY <1>2, <1>3, <1>10 DEF Check, inputVars, scanVars, passVars, TypeInv
<1>11. CASE Order
  BY <1>2, <1>11 DEF Order, inputVars, scanVars, passVars, TypeInv
<1>12. QED
  BY <1>5, <1>6, <1>7, <1>8, <1>9, <1>10, <1>11 DEF Next, Scan

\* Every variable the walk steers by holds what the code could hold there.
THEOREM TypesHold == Spec => []TypeInv
BY TypeInit, TypeNext, PTL DEF Spec

-----------------------------------------------------------------------------
\* One pass over both lists.

LEMMA ElementsIn ==
  ASSUME NEW S, NEW s \in Seq(S)
  PROVE  Len(s) \in Nat /\ DOMAIN s = 1..Len(s) /\ \A i \in DOMAIN s : s[i] \in S
OBVIOUS

\* Matches lie behind the row index and, until the update is dealt with, behind
\* the update.
MatchInv ==
  /\ MatchesAreInOrder
  /\ \A i \in DOMAIN matched : matched[i].row <= index /\ matched[i].at <= position
  /\ pc \in {"begin", "updates", "scan"} => \A i \in DOMAIN matched : matched[i].at < position

LEMMA MatchNext == TypeInv /\ MatchInv /\ [Next]_vars => MatchInv'
<1> SUFFICES ASSUME TypeInv, MatchInv, [Next]_vars PROVE MatchInv'
  OBVIOUS
<1>0. /\ position \in Nat /\ index \in Nat
      /\ \A i \in DOMAIN matched : matched[i].row \in Nat /\ matched[i].at \in Nat
  <2>1. Len(rows) \in Nat /\ Len(updates) \in Nat
    BY DEF TypeInv
  <2>2. position \in Nat /\ index \in Nat
    BY <2>1 DEF TypeInv
  <2>3. \A i \in DOMAIN matched : matched[i] \in [at : 1..Len(updates), row : 1..Len(rows)]
    BY ElementsIn DEF TypeInv
  <2>4. QED
    BY <2>1, <2>2, <2>3
<1>1. CASE UNCHANGED vars
  BY <1>1 DEF vars, inputVars, scanVars, passVars, MatchInv, MatchesAreInOrder
<1>2. CASE Begin
  BY <1>2 DEF Begin, scanVars, MatchInv, MatchesAreInOrder
<1>3. CASE NextUpdate
  BY <1>3 DEF NextUpdate, resumed, MatchInv, MatchesAreInOrder
<1>4. CASE MatchSequence \/ MatchStopId
  <2>1. /\ matched' = Append(matched, [at |-> position, row |-> index + 1])
        /\ index' = index + 1 /\ pc = "scan" /\ pc' = "checks" /\ position' = position
    BY <1>4 DEF MatchSequence, MatchStopId, Match
  <2>2. /\ DOMAIN matched' = 1..(Len(matched) + 1) /\ DOMAIN matched = 1..Len(matched)
        /\ Len(matched) \in Nat
        /\ \A i \in 1..Len(matched) : matched'[i] = matched[i]
        /\ matched'[Len(matched) + 1] = [at |-> position, row |-> index + 1]
    <3>1. /\ matched \in Seq([at : 1..Len(updates), row : 1..Len(rows)])
          /\ Len(matched) \in Nat /\ DOMAIN matched = 1..Len(matched)
      BY ElementsIn DEF TypeInv
    <3>2. QED
      BY <2>1, <3>1
  <2>3. \A i \in 1..Len(matched) : matched[i].row <= index /\ matched[i].at < position
    BY <2>1, <2>2 DEF MatchInv
  <2>4. /\ matched'[Len(matched) + 1].row = index + 1
        /\ matched'[Len(matched) + 1].at = position
    BY <2>2
  <2>5. ASSUME NEW i \in 1..(Len(matched) + 1), NEW j \in 1..(Len(matched) + 1), i < j
        PROVE  matched'[i].at < matched'[j].at /\ matched'[i].row < matched'[j].row
    <3>1. i \in 1..Len(matched)
      BY <2>2, <2>5
    <3>2. CASE j = Len(matched) + 1
      <4>1. matched'[i] = matched[i] /\ matched[i].row <= index /\ matched[i].at < position
        BY <2>2, <2>3, <3>1
      <4>2. matched'[j].row = index + 1 /\ matched'[j].at = position
        BY <2>4, <3>2
      <4>3. matched[i].row \in Nat /\ matched[i].at \in Nat
        BY <1>0, <2>2, <3>1
      <4>4. matched[i].row < index + 1
        BY <1>0, <4>1, <4>3
      <4>5. QED
        BY <4>1, <4>2, <4>4
    <3>3. CASE j # Len(matched) + 1
      <4>1. j \in 1..Len(matched)
        BY <2>2, <3>3
      <4>2. matched[i].at < matched[j].at /\ matched[i].row < matched[j].row
        BY <2>2, <2>5, <3>1, <4>1 DEF MatchInv, MatchesAreInOrder
      <4>3. QED
        BY <2>2, <3>1, <4>1, <4>2
    <3>4. QED
      BY <3>2, <3>3
  <2>6. ASSUME NEW i \in 1..(Len(matched) + 1)
        PROVE  matched'[i].row <= index + 1 /\ matched'[i].at <= position
    <3>1. CASE i = Len(matched) + 1
      BY <1>0, <2>4, <3>1
    <3>2. CASE i # Len(matched) + 1
      <4>1. i \in 1..Len(matched) /\ matched'[i] = matched[i]
        BY <2>2, <3>2
      <4>2. matched[i].row <= index /\ matched[i].at < position
        BY <2>3, <4>1
      <4>3. matched[i].row \in Nat /\ matched[i].at \in Nat
        BY <1>0, <2>2, <4>1
      <4>4. matched[i].row <= index + 1 /\ matched[i].at <= position
        BY <1>0, <4>2, <4>3
      <4>5. QED
        BY <4>1, <4>4
    <3>3. QED
      BY <3>1, <3>2
  <2>7. QED
    BY <2>1, <2>2, <2>5, <2>6 DEF MatchInv, MatchesAreInOrder
<1>5. CASE SkipRow
  BY <1>0, <1>5 DEF SkipRow, examined, MatchInv, MatchesAreInOrder
<1>6. CASE RowsExhausted
  BY <1>6 DEF RowsExhausted, scanVars, MatchInv, MatchesAreInOrder
<1>7. CASE Check
  BY <1>0, <1>7 DEF Check, scanVars, MatchInv, MatchesAreInOrder
<1>8. CASE Order
  BY <1>8 DEF Order, scanVars, MatchInv, MatchesAreInOrder
<1>9. QED
  BY <1>1, <1>2, <1>3, <1>4, <1>5, <1>6, <1>7, <1>8 DEF Next, Scan

\* No row vouches for two updates and no later update for an earlier row, for
\* any trip and any feed.
THEOREM OnePass == Spec => []MatchesAreInOrder
<1>1. Init => MatchInv
  BY DEF Init, MatchInv, MatchesAreInOrder
<1>2. MatchInv => MatchesAreInOrder
  BY DEF MatchInv
<1>3. QED
  BY <1>1, <1>2, TypesHold, MatchNext, PTL DEF Spec

-----------------------------------------------------------------------------
\* E051.

\* Row j lies past everything matched so far.
Unmatched(j) == \A k \in DOMAIN matched : matched[k].row < j

\* The rows left behind since the last match do not carry this stop_sequence.
Tried ==
  has_stop_sequence(update) =>
    \A j \in 1..index : Unmatched(j) => rows[j].stop_sequence # sequence_of(update)

\* Between updates the index stands on the last match, or past the last row.
Settled == index = Len(rows) \/ \A j \in 1..index : ~Unmatched(j)

E051Inv ==
  /\ pc \in {"begin", "updates"} => ~unknown /\ Settled
  /\ pc = "scan" => Tried \/ (~unknown /\ index = Len(rows))
  /\ pc = "checks" /\ ~unknown => Settled
  /\ pc \in {"scan", "checks"} /\ unknown =>
       Tried /\ index = Len(rows) /\ has_stop_sequence(update)
  /\ pc \in {"begin", "updates", "scan", "checks"} => Silent(events, "E051")
  /\ E051MeansTheRowsRanOut

\* f is e followed by events of which none is an E051.
Adds(e, f) ==
  /\ f \in Seq(Events)
  /\ Len(e) <= Len(f)
  /\ \A i \in 1..Len(e) : f[i] = e[i]
  /\ \A i \in (Len(e) + 1)..Len(f) : f[i].rule # "E051"

LEMMA AddsMore ==
  ASSUME NEW e \in Seq(Events), NEW f, Adds(e, f),
         NEW t \in Seq(Events), Silent(t, "E051")
  PROVE  Adds(e, f \o t)
<1>1. /\ f \in Seq(Events) /\ Len(e) \in Nat /\ Len(f) \in Nat /\ Len(t) \in Nat
      /\ Len(e) <= Len(f) /\ DOMAIN t = 1..Len(t)
  BY DEF Adds
<1>2. /\ f \o t \in Seq(Events) /\ Len(f \o t) = Len(f) + Len(t)
      /\ \A i \in 1..Len(f) : (f \o t)[i] = f[i]
      /\ \A i \in (Len(f) + 1)..(Len(f) + Len(t)) : (f \o t)[i] = t[i - Len(f)]
  BY <1>1
<1>3. ASSUME NEW i \in (Len(e) + 1)..(Len(f) + Len(t)) PROVE (f \o t)[i].rule # "E051"
  <2>1. CASE i <= Len(f)
    <3>1. i \in 1..Len(f) /\ i \in (Len(e) + 1)..Len(f)
      BY <1>1, <2>1
    <3>2. QED
      BY <1>2, <3>1 DEF Adds
  <2>2. CASE i > Len(f)
    <3>1. i - Len(f) \in DOMAIN t /\ i \in (Len(f) + 1)..(Len(f) + Len(t))
      BY <1>1, <2>2
    <3>2. QED
      BY <1>2, <3>1 DEF Silent
  <2>3. QED
    BY <1>1, <2>1, <2>2
<1>4. ASSUME NEW i \in 1..Len(e) PROVE (f \o t)[i] = e[i]
  <2>1. i \in 1..Len(f)
    BY <1>1
  <2>2. QED
    BY <1>2, <2>1 DEF Adds
<1>5. Len(e) <= Len(f \o t)
  BY <1>1, <1>2
<1>6. QED
  BY <1>2, <1>3, <1>4, <1>5 DEF Adds

LEMMA AddsNothing == ASSUME NEW e \in Seq(Events) PROVE Adds(e, e)
BY DEF Adds

LEMMA AddsWhere ==
  ASSUME NEW e \in Seq(Events), NEW f, Adds(e, f),
         NEW c \in BOOLEAN, NEW rule \in Rules \ {"E051"}, NEW at \in Nat
  PROVE  Adds(e, f \o Where(c, rule, at))
BY AddsMore, WhereReports

LEMMA OwnEventsType ==
  ASSUME TypeInv, pc = "checks"
  PROVE  OwnEvents \in Seq(Events) /\ Silent(OwnEvents, "E051")
<1>1. position \in Nat /\ update \in Updates
  BY DEF TypeInv, update
<1>2. update.own \in Seq(OwnRules)
  BY <1>1, WalkAssumption
<1>3. OwnRules \subseteq Rules /\ "E051" \notin OwnRules
  BY DEF Rules, OwnRules
<1>4. Len(update.own) \in Nat /\ DOMAIN update.own = 1..Len(update.own)
      /\ \A i \in DOMAIN update.own : update.own[i] \in OwnRules
  BY <1>2
<1>5. \A i \in DOMAIN update.own :
        /\ Event(update.own[i], position) \in Events
        /\ Event(update.own[i], position).rule = update.own[i]
  BY <1>1, <1>3, <1>4 DEF Event, Events
<1>6. OwnEvents \in Seq(Events)
  BY <1>4, <1>5 DEF OwnEvents
<1>7. \A i \in DOMAIN OwnEvents : OwnEvents[i] = Event(update.own[i], position)
  BY DEF OwnEvents
<1>8. DOMAIN OwnEvents = DOMAIN update.own
  BY DEF OwnEvents
<1>9. QED
  BY <1>3, <1>4, <1>5, <1>6, <1>7, <1>8 DEF Silent

\* Only the tail of an update whose stop_sequence is unknown reports an E051.
LEMMA QuietStep ==
  ASSUME TypeInv, Next, ~(Check /\ unknown)
  PROVE  Adds(events, events')
<1>0. events \in Seq(Events) /\ position \in Nat /\ Adds(events, events)
  BY AddsNothing DEF TypeInv
<1>1. CASE Begin
  BY <1>0, <1>1, AddsWhere DEF Begin, Rules
<1>2. CASE NextUpdate
  <2>1. Adds(events, events \o Where(needs_sequence, "E009", position))
    BY <1>0, AddsWhere DEF Rules, needs_sequence
  <2>2. Adds(events, events \o Where(needs_sequence, "E009", position)
                            \o Where(repeats_sequence, "E036", position))
    BY <1>0, <2>1, AddsWhere DEF Rules, repeats_sequence
  <2>3. Adds(events, events \o Where(needs_sequence, "E009", position)
                            \o Where(repeats_sequence, "E036", position)
                            \o Where(repeats_id, "E037", position))
    BY <1>0, <2>2, AddsWhere DEF Rules, repeats_id
  <2>4. QED
    BY <1>2, <2>3 DEF NextUpdate
<1>3. CASE MatchSequence
  <2> DEFINE named == has_stop_id(update) /\ row.stop_id # update.stop_id
             blanks == update.timeless /\ row.blank
  <2>1. named \in BOOLEAN /\ blanks \in BOOLEAN
    OBVIOUS
  <2>2. events' = events \o Where(named, "E045", position) \o Where(blanks, "E046", position)
    BY <1>3 DEF MatchSequence, check_e045, check_e046
  <2> HIDE DEF named, blanks
  <2>3. Adds(events, events \o Where(named, "E045", position))
    BY <1>0, <2>1, AddsWhere DEF Rules
  <2>4. QED
    BY <1>0, <2>1, <2>2, <2>3, AddsWhere DEF Rules
<1>4. CASE MatchStopId
  <2> DEFINE blanks == update.timeless /\ row.blank
  <2>1. blanks \in BOOLEAN /\ events' = events \o Where(blanks, "E046", position)
    BY <1>4 DEF MatchStopId, check_e046
  <2> HIDE DEF blanks
  <2>2. QED
    BY <1>0, <2>1, AddsWhere DEF Rules
<1>5. CASE SkipRow \/ RowsExhausted
  BY <1>0, <1>5 DEF SkipRow, RowsExhausted
<1>6. CASE Check
  <2> DEFINE bare == ~has_stop_sequence(update) /\ ~has_stop_id(update)
  <2>1. /\ bare \in BOOLEAN
        /\ events' = events \o Where(bare, "E040", position) \o OwnEvents
                            \o Where(unknown, "E051", position)
    BY <1>6 DEF Check
  <2> HIDE DEF bare
  <2>2. Adds(events, events \o Where(bare, "E040", position))
    BY <1>0, <2>1, AddsWhere DEF Rules
  <2>3. pc = "checks"
    BY <1>6 DEF Check
  <2>4. Adds(events, events \o Where(bare, "E040", position) \o OwnEvents)
    BY <1>0, <2>2, <2>3, AddsMore, OwnEventsType
  <2>5. Where(unknown, "E051", position) = <<>>
    BY <1>6, WhereNothing DEF TypeInv
  <2>6. <<>> \in Seq(Events) /\ Silent(<<>>, "E051")
    BY DEF Silent
  <2>7. QED
    BY <1>0, <2>1, <2>4, <2>5, <2>6, AddsMore
<1>7. CASE Order
  <2>1. disordered \in BOOLEAN
    BY DEF disordered
  <2>2. QED
    BY <1>0, <1>7, <2>1, AddsWhere DEF Order, Rules
<1>8. QED
  BY <1>1, <1>2, <1>3, <1>4, <1>5, <1>6, <1>7 DEF Next, Scan

LEMMA StaysSilent ==
  ASSUME NEW e \in Seq(Events), NEW f, Adds(e, f), Silent(e, "E051")
  PROVE  Silent(f, "E051")
<1>1. /\ Len(e) \in Nat /\ Len(f) \in Nat /\ Len(e) <= Len(f)
      /\ DOMAIN e = 1..Len(e) /\ DOMAIN f = 1..Len(f)
  BY DEF Adds
<1>2. ASSUME NEW i \in 1..Len(f) PROVE f[i].rule # "E051"
  <2>1. CASE i <= Len(e)
    <3>1. i \in 1..Len(e) /\ e[i].rule # "E051"
      BY <1>1, <2>1 DEF Silent
    <3>2. QED
      BY <3>1 DEF Adds
  <2>2. CASE i > Len(e)
    <3>1. i \in (Len(e) + 1)..Len(f)
      BY <1>1, <2>2
    <3>2. QED
      BY <3>1 DEF Adds
  <2>3. QED
    BY <1>1, <2>1, <2>2
<1>3. QED
  BY <1>1, <1>2 DEF Silent

LEMMA SilenceIsEnough ==
  (Silent(events, "E051") => E051MeansTheRowsRanOut)
BY DEF Silent, E051MeansTheRowsRanOut, Reports

\* The events after a step that reports no E051, and the findings before it.
LEMMA Kept ==
  ASSUME TypeInv, Adds(events, events'), NEW i \in Reports("E051")'
  PROVE  i \in Reports("E051") /\ events'[i] = events[i]
<1>1. /\ Len(events) \in Nat /\ Len(events') \in Nat /\ events' \in Seq(Events)
      /\ DOMAIN events = 1..Len(events) /\ DOMAIN events' = 1..Len(events')
  BY DEF TypeInv, Adds
<1>2. i \in 1..Len(events') /\ events'[i].rule = "E051"
  BY <1>1 DEF Reports
<1>3. i \in 1..Len(events)
  <2>1. SUFFICES ASSUME i > Len(events) PROVE FALSE
    BY <1>1, <1>2
  <2>2. i \in (Len(events) + 1)..Len(events')
    BY <1>1, <1>2, <2>1
  <2>3. QED
    BY <1>2, <2>2 DEF Adds
<1>4. events'[i] = events[i]
  BY <1>3 DEF Adds
<1>5. QED
  BY <1>1, <1>2, <1>3, <1>4 DEF Reports

\* A step within the loop that does not break out of it.
LEMMA LoopStep ==
  ASSUME TypeInv, E051Inv, Next, ~(Check /\ unknown),
         pc \in {"begin", "updates", "scan", "checks"}
  PROVE  Silent(events', "E051") /\ E051MeansTheRowsRanOut'
<1>1. Adds(events, events') /\ events \in Seq(Events) /\ Silent(events, "E051")
  BY QuietStep DEF TypeInv, E051Inv
<1>2. Silent(events', "E051")
  BY <1>1, StaysSilent
<1>3. QED
  BY <1>2 DEF Silent, E051MeansTheRowsRanOut, Reports

\* The step that reports an E051: every row is behind the index, and those past
\* the last match do not carry the update's stop_sequence.
LEMMA BreakStep ==
  ASSUME TypeInv, E051Inv, Check, unknown
  PROVE  E051MeansTheRowsRanOut'
<1> DEFINE bare == ~has_stop_sequence(update) /\ ~has_stop_id(update)
           before == events \o Where(bare, "E040", position) \o OwnEvents
<1>1. /\ bare \in BOOLEAN /\ pc = "checks"
      /\ events' = before \o Where(unknown, "E051", position)
  BY DEF Check
<1>2. position \in Nat /\ events \in Seq(Events) /\ Silent(events, "E051")
  BY <1>1 DEF TypeInv, E051Inv
<1>3. Adds(events, before)
  <2> HIDE DEF bare
  <2>1. Adds(events, events \o Where(bare, "E040", position))
    BY <1>1, <1>2, AddsNothing, AddsWhere DEF Rules
  <2>2. QED
    BY <1>1, <1>2, <2>1, AddsMore, OwnEventsType
<1> HIDE DEF bare, before
<1>4. before \in Seq(Events) /\ Silent(before, "E051")
  BY <1>2, <1>3, StaysSilent DEF Adds
<1>5. events' = Append(before, Event("E051", position))
  BY <1>1, <1>4 DEF Where
<1>6. /\ Len(before) \in Nat /\ DOMAIN before = 1..Len(before)
      /\ DOMAIN events' = 1..(Len(before) + 1)
      /\ \A i \in 1..Len(before) : events'[i] = before[i]
      /\ events'[Len(before) + 1] = Event("E051", position)
  BY <1>4, <1>5
<1>7. ASSUME NEW i \in DOMAIN events', events'[i].rule = "E051"
      PROVE  events'[i].at = position
  <2>1. ~(i \in 1..Len(before))
    BY <1>4, <1>6, <1>7 DEF Silent
  <2>2. i = Len(before) + 1
    BY <1>6, <2>1
  <2>3. QED
    BY <1>6, <2>2 DEF Event
<1>8. /\ index = Len(rows) /\ has_stop_sequence(update) /\ Tried
  BY <1>1 DEF E051Inv
<1>9. \A j \in DOMAIN rows : (\A k \in DOMAIN matched : matched[k].row < j) =>
        rows[j].stop_sequence # sequence_of(updates[position])
  <2>1. DOMAIN rows = 1..index
    BY <1>8 DEF TypeInv
  <2>2. QED
    BY <1>8, <2>1 DEF Tried, Unmatched, update
<1>10. UNCHANGED <<index, rows, matched, updates>>
  BY DEF Check, inputVars, scanVars
<1>11. QED
  BY <1>7, <1>8, <1>9, <1>10 DEF E051MeansTheRowsRanOut, Reports

LEMMA E051Next == TypeInv /\ E051Inv /\ [Next]_vars => E051Inv'
<1> SUFFICES ASSUME TypeInv, E051Inv, [Next]_vars PROVE E051Inv'
  OBVIOUS
<1>0. index \in Nat /\ Len(rows) \in Nat
  BY DEF TypeInv
<1>1. CASE UNCHANGED vars
  BY <1>1 DEF vars, inputVars, scanVars, passVars, E051Inv, Tried, Settled, Unmatched,
              E051MeansTheRowsRanOut, Reports, update
<1>2. CASE Begin
  <2>1. Silent(events', "E051") /\ E051MeansTheRowsRanOut'
    BY <1>2, LoopStep DEF Begin, Check, Next
  <2>2. ~unknown' /\ Settled' /\ pc' = "updates"
    BY <1>2 DEF Begin, scanVars, inputVars, E051Inv, Settled, Unmatched
  <2>3. QED
    BY <2>1, <2>2 DEF E051Inv
<1>3. CASE NextUpdate
  <2>1. Silent(events', "E051") /\ E051MeansTheRowsRanOut'
    BY <1>3, LoopStep DEF NextUpdate, Check, Next
  <2>2. ~unknown' /\ Settled' /\ Settled /\ pc' \in {"scan", "checks"}
    BY <1>3 DEF NextUpdate, resumed, inputVars, E051Inv, Settled, Unmatched
  <2>3. Tried' \/ index' = Len(rows)'
    BY <2>2 DEF Settled, Tried, Unmatched
  <2>4. QED
    BY <2>1, <2>2, <2>3 DEF E051Inv
<1>4. CASE MatchSequence \/ MatchStopId
  <2>1. Silent(events', "E051") /\ E051MeansTheRowsRanOut'
    BY <1>4, LoopStep DEF MatchSequence, MatchStopId, Check, Next, Scan
  <2>2. ~unknown /\ unknown' = unknown /\ pc' = "checks" /\ index' = index + 1
    BY <1>0, <1>4 DEF MatchSequence, MatchStopId, E051Inv
  <2>3. matched' = Append(matched, [at |-> position, row |-> index + 1])
    BY <1>4 DEF MatchSequence, MatchStopId, Match
  <2>4. /\ Len(matched) + 1 \in DOMAIN matched'
        /\ matched'[Len(matched) + 1] = [at |-> position, row |-> index + 1]
    <3>1. Len(matched) \in Nat
      BY ElementsIn DEF TypeInv
    <3>2. matched \in Seq([at : 1..Len(updates), row : 1..Len(rows)])
      BY DEF TypeInv
    <3>3. QED
      BY <2>3, <3>1, <3>2
  <2>5. matched'[Len(matched) + 1].row = index + 1
    BY <2>4
  <2>6. \A j \in 1..index' : ~Unmatched(j)'
    BY <1>0, <2>2, <2>4, <2>5 DEF Unmatched
  <2>7. QED
    BY <2>1, <2>2, <2>6 DEF E051Inv, Settled
<1>5. CASE SkipRow
  <2>1. Silent(events', "E051") /\ E051MeansTheRowsRanOut'
    BY <1>5, LoopStep DEF SkipRow, Check, Next, Scan
  <2>2. /\ Tried /\ index < Len(rows) /\ index' = index + 1 /\ ~unknown
        /\ pc' = "scan" /\ ~is_sequence_match
        /\ UNCHANGED <<rows, matched, updates, position>>
        /\ unknown' = (has_stop_sequence(update) /\ on_last_row)
    BY <1>0, <1>5 DEF SkipRow, examined, inputVars, E051Inv
  <2>3. Tried'
    <3>1. SUFFICES ASSUME has_stop_sequence(update), NEW j \in 1..(index + 1), Unmatched(j)
                   PROVE  rows[j].stop_sequence # sequence_of(update)
      BY <2>2 DEF Tried, Unmatched, update
    <3>2. CASE j = index + 1
      BY <2>2, <3>1, <3>2 DEF is_sequence_match, row
    <3>3. CASE j # index + 1
      <4>1. j \in 1..index
        BY <1>0, <3>3
      <4>2. QED
        BY <2>2, <3>1, <4>1 DEF Tried
    <3>4. QED
      BY <3>2, <3>3
  <2>4. unknown' => index' = Len(rows)' /\ has_stop_sequence(update)'
    BY <2>2 DEF on_last_row, update
  <2>5. QED
    BY <2>1, <2>2, <2>3, <2>4 DEF E051Inv
<1>6. CASE RowsExhausted
  <2>1. Silent(events', "E051") /\ E051MeansTheRowsRanOut'
    BY <1>6, LoopStep DEF RowsExhausted, Check, Next, Scan
  <2>2. /\ index = Len(rows) /\ pc = "scan" /\ pc' = "checks"
        /\ UNCHANGED <<rows, index, matched, updates, position, unknown>>
    BY <1>0, <1>6 DEF RowsExhausted, inputVars, scanVars, TypeInv
  <2>3. ~unknown \/ (Tried /\ has_stop_sequence(update))
    BY <2>2 DEF E051Inv
  <2>4. Settled'
    BY <2>2 DEF Settled
  <2>5. ~unknown' \/ (Tried' /\ has_stop_sequence(update)')
    BY <2>2, <2>3 DEF Tried, Unmatched, update
  <2>6. QED
    BY <2>1, <2>2, <2>4, <2>5 DEF E051Inv
<1>7. CASE Check
  <2>1. CASE unknown
    <3>1. pc' = "order"
      BY <1>7, <2>1 DEF Check, breaks
    <3>2. QED
      BY <1>7, <2>1, <3>1, BreakStep DEF E051Inv
  <2>2. CASE ~unknown
    <3>1. Silent(events', "E051") /\ E051MeansTheRowsRanOut'
      BY <1>7, <2>2, LoopStep DEF Check, Next
    <3>2. pc' = "updates" /\ ~unknown' /\ Settled'
      BY <1>7, <2>2 DEF Check, breaks, inputVars, scanVars, E051Inv, Settled, Unmatched
    <3>3. QED
      BY <3>1, <3>2 DEF E051Inv
  <2>3. QED
    BY <2>1, <2>2 DEF TypeInv
<1>8. CASE Order
  <2>1. Adds(events, events')
    BY <1>8, QuietStep DEF Order, Check, Next
  <2>2. E051MeansTheRowsRanOut /\ UNCHANGED <<index, rows, matched, updates>>
    BY <1>8 DEF Order, inputVars, scanVars, E051Inv
  <2>3. E051MeansTheRowsRanOut'
    BY <2>1, <2>2, Kept DEF E051MeansTheRowsRanOut
  <2>4. pc' = "done"
    BY <1>8 DEF Order
  <2>5. QED
    BY <2>3, <2>4 DEF E051Inv
<1>9. QED
  BY <1>1, <1>2, <1>3, <1>4, <1>5, <1>6, <1>7, <1>8 DEF Next, Scan

LEMMA E051Init == Init => E051Inv
BY DEF Init, E051Inv, Settled, Unmatched, Silent, E051MeansTheRowsRanOut, Reports

LEMMA E051Holds == Spec => [](TypeInv /\ E051Inv)
BY TypesHold, E051Init, E051Next, PTL DEF Spec

\* E051 is said of a stop_sequence that no row after the last match carries,
\* when every row has been used up looking for it.
THEOREM E051Correct == Spec => []E051MeansTheRowsRanOut
<1>1. E051Inv => E051MeansTheRowsRanOut
  BY DEF E051Inv
<1>2. QED
  BY <1>1, E051Holds, PTL

\* After E051 nothing follows but the verdict on the order.
THEOREM BreakEndsTheTrip == Spec => BreakIsFinal
<1>1. ASSUME TypeInv, E051Inv, [Next]_vars, Reports("E051") # {}, events' # events
      PROVE  events' = Append(events, Event("E002", 0))
  <2>1. ~Silent(events, "E051") /\ pc \notin {"begin", "updates", "scan", "checks"}
    BY <1>1 DEF Silent, Reports, E051Inv
  <2>2. Order
    BY <1>1, <2>1 DEF Next, Scan, Begin, NextUpdate, MatchSequence, MatchStopId, SkipRow,
                      RowsExhausted, Check, vars
  <2>3. events \in Seq(Events)
    BY <1>1 DEF TypeInv
  <2>4. events' = events \o Where(disordered, "E002", 0)
    BY <2>2 DEF Order
  <2>5. disordered
    BY <1>1, <2>3, <2>4 DEF Where, disordered
  <2>6. events' = events \o <<Event("E002", 0)>>
    BY <2>4, <2>5 DEF Where
  <2>7. QED
    BY <2>3, <2>6
<1>2. TypeInv /\ E051Inv /\ [Next]_vars =>
        [Reports("E051") # {} /\ events' # events =>
           events' = Append(events, Event("E002", 0))]_vars
  BY <1>1
<1>3. QED
  BY <1>2, E051Holds, PTL DEF Spec, BreakIsFinal

-----------------------------------------------------------------------------
\* What is reported once.

Single == {"E002", "E009", "E041", "E051"}

Once(s, rule) ==
  \A i, j \in DOMAIN s : s[i].rule = rule /\ s[j].rule = rule => i = j

\* Events that repeat no single rule, have none of the rules in unsaid and point
\* into the TripUpdate.
Tidy(s, unsaid) ==
  /\ s \in Seq(Events)
  /\ \A rule \in Single : Once(s, rule)
  /\ \A rule \in unsaid : Silent(s, rule)
  /\ \A i \in DOMAIN s : s[i].at \in 0..Len(updates)

\* Events with another behind them.
LEMMA TidyAppend ==
  ASSUME NEW s, NEW S, Tidy(s, S), NEW rule \in Rules, NEW at \in 0..Len(updates),
         Len(updates) \in Nat, rule \in Single => rule \in S
  PROVE  Tidy(Append(s, Event(rule, at)), S \ {rule})
<1> DEFINE e == Event(rule, at)
           t == Append(s, e)
<1>1. e \in Events /\ e.rule = rule /\ e.at = at
  BY DEF Event, Events
<1> HIDE DEF e
<1>2. /\ s \in Seq(Events) /\ Len(s) \in Nat /\ DOMAIN s = 1..Len(s)
      /\ t \in Seq(Events) /\ DOMAIN t = 1..(Len(s) + 1)
      /\ \A i \in 1..Len(s) : t[i] = s[i]
      /\ t[Len(s) + 1] = e
  BY <1>1 DEF Tidy
<1> HIDE DEF t
<1>3. \A i \in 1..(Len(s) + 1) : i \in 1..Len(s) \/ i = Len(s) + 1
  BY <1>2
<1>4. ASSUME NEW r \in Single PROVE Once(t, r)
  <2>1. SUFFICES ASSUME NEW i \in DOMAIN t, NEW j \in DOMAIN t, t[i].rule = r, t[j].rule = r
                 PROVE  i = j
    BY DEF Once
  <2>2. Once(s, r)
    BY DEF Tidy
  <2>3. CASE i \in 1..Len(s) /\ j \in 1..Len(s)
    BY <1>2, <2>1, <2>2, <2>3 DEF Once
  <2>4. CASE i = Len(s) + 1 \/ j = Len(s) + 1
    <3>1. r = rule
      BY <1>1, <1>2, <2>1, <2>4
    <3>2. Silent(s, r)
      BY <3>1 DEF Tidy
    <3>3. ~(i \in 1..Len(s)) /\ ~(j \in 1..Len(s))
      BY <1>2, <2>1, <3>2 DEF Silent
    <3>4. QED
      BY <1>2, <1>3, <2>1, <3>3
  <2>5. QED
    BY <1>2, <1>3, <2>1, <2>3, <2>4
<1>5. ASSUME NEW r \in S \ {rule} PROVE Silent(t, r)
  <2>1. Silent(s, r)
    BY DEF Tidy
  <2>2. QED
    BY <1>1, <1>2, <1>3, <2>1 DEF Silent
<1>6. \A i \in DOMAIN t : t[i].at \in 0..Len(updates)
  BY <1>1, <1>2, <1>3 DEF Tidy
<1>7. QED
  BY <1>2, <1>4, <1>5, <1>6 DEF Tidy, t, e

LEMMA TidyWhere ==
  ASSUME NEW s, NEW S, Tidy(s, S), NEW rule \in Rules, NEW at \in 0..Len(updates),
         Len(updates) \in Nat, NEW c \in BOOLEAN, rule \in Single /\ c => rule \in S
  PROVE  /\ Tidy(s \o Where(c, rule, at), S \ {rule})
         /\ ~c => Tidy(s \o Where(c, rule, at), S)
<1>0. s \in Seq(Events) /\ Event(rule, at) \in Events
  BY DEF Tidy, Event, Events
<1>1. CASE c
  <2>1. s \o Where(c, rule, at) = Append(s, Event(rule, at))
    BY <1>0, <1>1 DEF Where
  <2>2. rule \in Single => rule \in S
    BY <1>1
  <2>3. Tidy(Append(s, Event(rule, at)), S \ {rule})
    BY <2>2, TidyAppend
  <2>4. QED
    BY <1>1, <2>1, <2>3
<1>2. CASE ~c
  <2>1. s \o Where(c, rule, at) = s
    BY <1>0, <1>2 DEF Where
  <2>2. QED
    BY <2>1 DEF Tidy
<1>3. QED
  BY <1>1, <1>2

\* A rule that may be repeated changes nothing about those that may not.
LEMMA TidyOther ==
  ASSUME NEW s, NEW S, Tidy(s, S), S \subseteq Single, NEW rule \in Rules \ Single,
         NEW at \in 0..Len(updates), Len(updates) \in Nat, NEW c \in BOOLEAN
  PROVE  Tidy(s \o Where(c, rule, at), S)
<1>1. S \ {rule} = S
  OBVIOUS
<1>2. Tidy(s \o Where(c, rule, at), S \ {rule})
  BY TidyWhere
<1>3. QED
  BY <1>1, <1>2

\* The findings of an update's own rules are none of the single ones.
LEMMA TidyOwn ==
  ASSUME TypeInv, pc = "checks", NEW s, NEW S, Tidy(s, S), S \subseteq Single
  PROVE  Tidy(s \o OwnEvents, S)
<1> DEFINE x == OwnEvents
           t == s \o x
<1>1. position \in 1..Len(updates) /\ update \in Updates
  BY DEF TypeInv, update
<1>2. update.own \in Seq(OwnRules) /\ DOMAIN update.own = 1..Len(update.own)
  BY <1>1, WalkAssumption
<1>3. x \in Seq(Events)
  BY OwnEventsType
<1>4. \A i \in DOMAIN x : x[i].rule \notin Single /\ x[i].at \in 0..Len(updates)
  <2>1. SUFFICES ASSUME NEW i \in DOMAIN update.own
                 PROVE  /\ Event(update.own[i], position).rule \notin Single
                        /\ Event(update.own[i], position).at \in 0..Len(updates)
    BY DEF OwnEvents
  <2>2. update.own[i] \in OwnRules
    BY <1>2
  <2>3. update.own[i] \notin Single
    BY <2>2 DEF OwnRules, Single
  <2>4. QED
    BY <1>1, <2>3 DEF Event
<1> HIDE DEF x
<1>5. /\ s \in Seq(Events) /\ Len(s) \in Nat /\ DOMAIN s = 1..Len(s)
      /\ Len(x) \in Nat /\ DOMAIN x = 1..Len(x)
      /\ t \in Seq(Events) /\ DOMAIN t = 1..(Len(s) + Len(x))
      /\ \A i \in 1..Len(s) : t[i] = s[i]
      /\ \A i \in (Len(s) + 1)..(Len(s) + Len(x)) : t[i] = x[i - Len(s)]
  BY <1>3 DEF Tidy
<1> HIDE DEF t
<1>6. ASSUME NEW i \in DOMAIN t, ~(i \in 1..Len(s))
      PROVE  t[i].rule \notin Single /\ t[i].at \in 0..Len(updates)
  <2>1. i \in (Len(s) + 1)..(Len(s) + Len(x)) /\ i - Len(s) \in DOMAIN x
    BY <1>5, <1>6
  <2>2. QED
    BY <1>4, <1>5, <2>1
<1>7. ASSUME NEW r \in Single PROVE Once(t, r)
  <2>1. Once(s, r)
    BY DEF Tidy
  <2>2. QED
    BY <1>5, <1>6, <2>1 DEF Once
<1>8. ASSUME NEW r \in S PROVE Silent(t, r)
  <2>1. Silent(s, r)
    BY DEF Tidy
  <2>2. QED
    BY <1>5, <1>6, <2>1 DEF Silent
<1>9. \A i \in DOMAIN t : t[i].at \in 0..Len(updates)
  BY <1>5, <1>6 DEF Tidy
<1>10. QED
  BY <1>5, <1>7, <1>8, <1>9 DEF Tidy, t, x

LEMMA TidyLess ==
  ASSUME NEW s, NEW S, Tidy(s, S), NEW T, T \subseteq S
  PROVE  Tidy(s, T)
BY DEF Tidy

\* The single rules the walk has not come to yet.
Unsaid ==
  {rule \in Single :
     \/ rule = "E041" /\ pc = "begin"
     \/ rule = "E009" /\ ~found_e009
     \/ rule = "E051" /\ pc \in {"begin", "updates", "scan", "checks"}
     \/ rule = "E002" /\ pc # "done"}

OnceInv == Tidy(events, Unsaid)

LEMMA OnceNext == TypeInv /\ OnceInv /\ [Next]_vars => OnceInv'
<1> SUFFICES ASSUME TypeInv, OnceInv, [Next]_vars PROVE OnceInv'
  OBVIOUS
<1>0. /\ Len(updates) \in Nat /\ Unsaid \subseteq Single /\ Tidy(events, Unsaid)
      /\ 0 \in 0..Len(updates)
      /\ pc \in {"scan", "checks", "order"} => position \in 0..Len(updates)
      /\ Single \subseteq Rules
  BY DEF TypeInv, OnceInv, Unsaid, Single, Rules
<1> DEFINE Grown == Tidy(events', Unsaid')
<1>1. ASSUME updates' = updates, Grown PROVE OnceInv'
  BY <1>1 DEF OnceInv, Tidy
<1>2. CASE UNCHANGED vars
  <2>1. UNCHANGED <<updates, events, pc, found_e009>>
    BY <1>2 DEF vars, inputVars, passVars
  <2>2. QED
    BY <2>1 DEF OnceInv, Unsaid, Tidy
<1>3. CASE Begin
  <2> DEFINE c == updates = <<>> /\ ~canceled
  <2>1. /\ events' = events \o Where(c, "E041", 0) /\ c \in BOOLEAN
        /\ pc = "begin" /\ pc' = "updates" /\ found_e009' = found_e009 /\ updates' = updates
    BY <1>3 DEF Begin, inputVars, passVars
  <2> HIDE DEF c
  <2>2. "E041" \in Unsaid /\ "E041" \in Rules
    BY <2>1 DEF Unsaid, Single, Rules
  <2>3. Tidy(events', Unsaid \ {"E041"})
    BY <1>0, <2>1, <2>2, TidyWhere
  <2>4. Unsaid' \subseteq Unsaid \ {"E041"}
    BY <2>1 DEF Unsaid
  <2>5. QED
    BY <1>1, <2>1, <2>3, <2>4, TidyLess
<1>4. CASE NextUpdate
  <2>1. /\ events' = events \o Where(needs_sequence, "E009", position)
                            \o Where(repeats_sequence, "E036", position)
                            \o Where(repeats_id, "E037", position)
        /\ needs_sequence \in BOOLEAN /\ repeats_sequence \in BOOLEAN /\ repeats_id \in BOOLEAN
        /\ pc = "updates" /\ pc' \in {"scan", "checks"} /\ position \in 0..Len(updates)
        /\ found_e009' = (found_e009 \/ needs_sequence) /\ updates' = updates
    BY <1>4 DEF NextUpdate, inputVars, TypeInv, needs_sequence, repeats_sequence, repeats_id
  <2>2. {"E009", "E036", "E037"} \subseteq Rules /\ {"E036", "E037"} \cap Single = {}
    BY DEF Rules, Single
  <2>3. needs_sequence => "E009" \in Unsaid
    BY DEF needs_sequence, Unsaid, Single
  <2> DEFINE f == events \o Where(needs_sequence, "E009", position)
             g == f \o Where(repeats_sequence, "E036", position)
  <2>4. Tidy(f, Unsaid')
    <3>1. Tidy(f, Unsaid \ {"E009"}) /\ (~needs_sequence => Tidy(f, Unsaid))
      BY <1>0, <2>1, <2>2, <2>3, TidyWhere
    <3>2. CASE needs_sequence
      <4>1. Unsaid' \subseteq Unsaid \ {"E009"}
        BY <2>1, <3>2 DEF Unsaid
      <4>2. QED
        BY <3>1, <4>1, TidyLess
    <3>3. CASE ~needs_sequence
      <4>1. Unsaid' \subseteq Unsaid
        BY <2>1, <3>3 DEF Unsaid
      <4>2. QED
        BY <3>1, <3>3, <4>1, TidyLess
    <3>4. QED
      BY <3>2, <3>3
  <2> HIDE DEF f
  <2>5. Unsaid' \subseteq Single
    BY DEF Unsaid
  <2>6. Tidy(g, Unsaid')
    BY <1>0, <2>1, <2>2, <2>4, <2>5, TidyOther
  <2> HIDE DEF g
  <2>7. Tidy(g \o Where(repeats_id, "E037", position), Unsaid')
    BY <1>0, <2>1, <2>2, <2>5, <2>6, TidyOther
  <2>8. QED
    BY <1>1, <2>1, <2>7 DEF f, g
<1>5. CASE MatchSequence \/ MatchStopId
  <2> DEFINE named == MatchSequence /\ has_stop_id(update) /\ row.stop_id # update.stop_id
             blanks == update.timeless /\ row.blank
  <2>1. /\ pc = "scan" /\ pc' = "checks" /\ found_e009' = found_e009 /\ updates' = updates
    BY <1>5 DEF MatchSequence, MatchStopId, inputVars, passVars
  <2>2. events' = events \o Where(named, "E045", position) \o Where(blanks, "E046", position)
    <3>1. CASE MatchSequence
      BY <3>1 DEF MatchSequence, check_e045, check_e046
    <3>2. CASE MatchStopId /\ ~MatchSequence
      <4>1. events' = events \o Where(blanks, "E046", position)
        BY <3>2 DEF MatchStopId, check_e046
      <4>2. Where(named, "E045", position) = <<>> /\ events \o <<>> = events
        BY <3>2 DEF Where, TypeInv
      <4>3. QED
        BY <4>1, <4>2
    <3>3. QED
      BY <1>5, <3>1, <3>2
  <2>3. named \in BOOLEAN /\ blanks \in BOOLEAN
    OBVIOUS
  <2> HIDE DEF named, blanks
  <2>4. {"E045", "E046"} \subseteq Rules \ Single
    BY DEF Rules, Single
  <2>5. Tidy(events \o Where(named, "E045", position), Unsaid)
    BY <1>0, <2>1, <2>3, <2>4, TidyOther
  <2>6. Tidy(events', Unsaid)
    BY <1>0, <2>1, <2>2, <2>3, <2>4, <2>5, TidyOther
  <2>7. Unsaid' \subseteq Unsaid
    BY <2>1 DEF Unsaid
  <2>8. QED
    BY <1>1, <2>1, <2>6, <2>7, TidyLess
<1>6. CASE SkipRow \/ RowsExhausted
  <2>1. /\ pc = "scan" /\ pc' \in {"scan", "checks"} /\ found_e009' = found_e009
        /\ updates' = updates /\ events' = events
    BY <1>6 DEF SkipRow, RowsExhausted, inputVars, passVars
  <2>2. Unsaid' \subseteq Unsaid
    BY <2>1 DEF Unsaid
  <2>3. QED
    BY <1>0, <1>1, <2>1, <2>2, TidyLess
<1>7. CASE Check
  <2> DEFINE bare == ~has_stop_sequence(update) /\ ~has_stop_id(update)
             f == events \o Where(bare, "E040", position)
             g == f \o OwnEvents
  <2>1. /\ events' = g \o Where(unknown, "E051", position)
        /\ bare \in BOOLEAN /\ unknown \in BOOLEAN
        /\ pc = "checks" /\ pc' = IF unknown THEN "order" ELSE "updates"
        /\ found_e009' = found_e009 /\ updates' = updates
    BY <1>7 DEF Check, breaks, inputVars, passVars, TypeInv
  <2> HIDE DEF bare
  <2>2. "E040" \in Rules \ Single /\ "E051" \in Unsaid /\ "E051" \in Rules
    BY <2>1 DEF Rules, Single, Unsaid
  <2>3. Tidy(f, Unsaid)
    BY <1>0, <2>1, <2>2, TidyOther
  <2> HIDE DEF f
  <2>4. Tidy(g, Unsaid)
    BY <1>0, <2>1, <2>3, TidyOwn
  <2> HIDE DEF g
  <2>5. Tidy(events', Unsaid \ {"E051"}) /\ (~unknown => Tidy(events', Unsaid))
    BY <1>0, <2>1, <2>2, <2>4, TidyWhere
  <2>6. CASE unknown
    <3>1. Unsaid' \subseteq Unsaid \ {"E051"}
      BY <2>1, <2>6 DEF Unsaid
    <3>2. QED
      BY <1>1, <2>1, <2>5, <3>1, TidyLess
  <2>7. CASE ~unknown
    <3>1. Unsaid' \subseteq Unsaid
      BY <2>1, <2>7 DEF Unsaid
    <3>2. QED
      BY <1>1, <2>1, <2>5, <2>7, <3>1, TidyLess
  <2>8. QED
    BY <2>6, <2>7
<1>8. CASE Order
  <2>1. /\ events' = events \o Where(disordered, "E002", 0) /\ disordered \in BOOLEAN
        /\ pc \in {"order", "updates"} /\ pc' = "done" /\ found_e009' = found_e009
        /\ updates' = updates
    BY <1>8 DEF Order, inputVars, passVars, disordered
  <2>2. "E002" \in Unsaid /\ "E002" \in Rules
    BY <2>1 DEF Unsaid, Single, Rules
  <2>3. Tidy(events', Unsaid \ {"E002"})
    BY <1>0, <2>1, <2>2, TidyWhere
  <2>4. Unsaid' \subseteq Unsaid \ {"E002"}
    BY <2>1 DEF Unsaid
  <2>5. QED
    BY <1>1, <2>1, <2>3, <2>4, TidyLess
<1>9. QED
  BY <1>2, <1>3, <1>4, <1>5, <1>6, <1>7, <1>8 DEF Next, Scan

-----------------------------------------------------------------------------
\* Every disorder is reported.

\* The updates whose stop_sequence is in the list E002 reads.
Processed == IF pc \in {"begin", "updates"} THEN 1..(position - 1)
                                            ELSE 1..position \cap DOMAIN updates

Sent(i) == i \in Processed /\ has_stop_sequence(updates[i])

\* What was sent is in the list, and in the order it was sent.
Listed ==
  /\ \A i \in Nat : Sent(i) =>
       \E k \in DOMAIN stop_sequences : stop_sequences[k] = sequence_of(updates[i])
  /\ \A i, j \in Nat : Sent(i) /\ Sent(j) /\ i < j =>
       \E k, l \in DOMAIN stop_sequences :
         /\ k < l
         /\ stop_sequences[k] = sequence_of(updates[i])
         /\ stop_sequences[l] = sequence_of(updates[j])

DisorderInv ==
  /\ Listed
  /\ pc = "done" => strictly_ordered(stop_sequences) \/ Reports("E002") # {}

\* A longer list still has what was sent.
LEMMA ListGrows ==
  ASSUME TypeInv, Listed, NEW v \in Int32,
         stop_sequences' \in {stop_sequences, Append(stop_sequences, v)},
         updates' = updates, \A i \in Nat : Sent(i)' => Sent(i)
  PROVE  Listed'
<1>1. /\ DOMAIN stop_sequences \subseteq DOMAIN stop_sequences'
      /\ \A k \in DOMAIN stop_sequences : stop_sequences'[k] = stop_sequences[k]
  <2>1. stop_sequences \in Seq(Int32)
    BY DEF TypeInv
  <2>2. CASE stop_sequences' = stop_sequences
    BY <2>2
  <2>3. CASE stop_sequences' = Append(stop_sequences, v)
    <3>1. /\ Len(stop_sequences) \in Nat
          /\ DOMAIN stop_sequences = 1..Len(stop_sequences)
          /\ DOMAIN stop_sequences' = 1..(Len(stop_sequences) + 1)
          /\ \A k \in 1..Len(stop_sequences) : stop_sequences'[k] = stop_sequences[k]
      BY <2>1, <2>3
    <3>2. QED
      BY <3>1
  <2>4. QED
    BY <2>2, <2>3
<1>2. ASSUME NEW i \in Nat, Sent(i)'
      PROVE  \E k \in DOMAIN stop_sequences' : stop_sequences'[k] = sequence_of(updates[i])
  BY <1>1, <1>2 DEF Listed
<1>3. ASSUME NEW i \in Nat, NEW j \in Nat, Sent(i)', Sent(j)', i < j
      PROVE  \E k, l \in DOMAIN stop_sequences' :
               /\ k < l
               /\ stop_sequences'[k] = sequence_of(updates[i])
               /\ stop_sequences'[l] = sequence_of(updates[j])
  <2>1. PICK k \in DOMAIN stop_sequences, l \in DOMAIN stop_sequences :
               /\ k < l
               /\ stop_sequences[k] = sequence_of(updates[i])
               /\ stop_sequences[l] = sequence_of(updates[j])
    BY <1>3 DEF Listed
  <2>2. QED
    BY <1>1, <2>1
<1>4. QED
  BY <1>2, <1>3 DEF Listed

\* The update's own stop_sequence goes behind those sent before it.
LEMMA ListTakes ==
  ASSUME TypeInv, Listed, NextUpdate
  PROVE  Listed'
<1>1. /\ pc = "updates" /\ pc' \in {"scan", "checks"} /\ updates' = updates
      /\ position' = position /\ position \in 1..Len(updates)
      /\ update = updates[position] /\ update \in Updates
  BY DEF NextUpdate, inputVars, TypeInv, update
<1>2. \A i \in Nat : Sent(i)' => Sent(i) \/ (i = position /\ has_stop_sequence(update))
  BY <1>1 DEF Sent, Processed
<1>3. \A i \in Nat : Sent(i) => i < position
  BY <1>1 DEF Sent, Processed
<1>4. CASE ~has_stop_sequence(update)
  <2>1. stop_sequences' = stop_sequences
    BY <1>4 DEF NextUpdate
  <2>2. 0 \in Int32
    BY WalkAssumption DEF Int32
  <2>3. QED
    BY <1>1, <1>2, <1>4, <2>1, <2>2, ListGrows
<1>5. CASE has_stop_sequence(update)
  <2> DEFINE v == sequence_of(update)
             s == stop_sequences
             t == stop_sequences'
  <2>1. v \in Int32 /\ s \in Seq(Int32) /\ t = Append(s, v)
    BY <1>1, <1>5, Narrowed DEF NextUpdate, TypeInv
  <2> HIDE DEF v
  <2>2. /\ Len(s) \in Nat /\ DOMAIN s = 1..Len(s) /\ DOMAIN t = 1..(Len(s) + 1)
        /\ \A k \in 1..Len(s) : t[k] = s[k]
        /\ t[Len(s) + 1] = v
    BY <2>1
  <2>3. ASSUME NEW i \in Nat, Sent(i)
        PROVE  \E k \in 1..Len(s) : t[k] = sequence_of(updates[i])
    BY <2>2, <2>3 DEF Listed
  <2>4. ASSUME NEW i \in Nat, Sent(i)'
        PROVE  \E k \in DOMAIN t : t[k] = sequence_of(updates[i])
    BY <1>1, <1>2, <2>2, <2>3, <2>4 DEF v
  <2>5. ASSUME NEW i \in Nat, NEW j \in Nat, Sent(i)', Sent(j)', i < j
        PROVE  \E k, l \in DOMAIN t :
                 /\ k < l
                 /\ t[k] = sequence_of(updates[i])
                 /\ t[l] = sequence_of(updates[j])
    <3>1. Sent(i)
      <4>1. i # position
        BY <1>1, <1>2, <1>3, <2>5
      <4>2. QED
        BY <1>2, <2>5, <4>1
    <3>2. CASE Sent(j)
      <4>1. PICK k \in DOMAIN s, l \in DOMAIN s :
               /\ k < l
               /\ s[k] = sequence_of(updates[i])
               /\ s[l] = sequence_of(updates[j])
        BY <2>5, <3>1, <3>2 DEF Listed
      <4>2. QED
        BY <2>2, <4>1
    <3>3. CASE j = position
      <4>1. PICK k \in 1..Len(s) : t[k] = sequence_of(updates[i])
        BY <2>3, <3>1
      <4>2. t[Len(s) + 1] = sequence_of(updates[j])
        BY <1>1, <2>2, <3>3 DEF v
      <4>3. k \in DOMAIN t /\ Len(s) + 1 \in DOMAIN t /\ k < Len(s) + 1
        BY <2>2
      <4>4. QED
        BY <4>1, <4>2, <4>3
    <3>4. QED
      BY <1>2, <2>5, <3>2, <3>3
  <2> HIDE DEF t
  <2>6. QED
    BY <1>1, <2>4, <2>5 DEF Listed, t
<1>6. QED
  BY <1>4, <1>5

LEMMA DisorderNext == TypeInv /\ DisorderInv /\ [Next]_vars => DisorderInv'
<1> SUFFICES ASSUME TypeInv, DisorderInv, [Next]_vars PROVE DisorderInv'
  OBVIOUS
<1>0. /\ Listed /\ Len(updates) \in Nat /\ position \in Nat
      /\ 0 \in Int32
  BY WalkAssumption DEF TypeInv, DisorderInv, Int32
<1>1. CASE UNCHANGED vars
  <2>1. UNCHANGED <<updates, stop_sequences, pc, position, events>>
    BY <1>1 DEF vars, inputVars
  <2>2. QED
    BY <2>1 DEF DisorderInv, Listed, Sent, Processed, Reports
<1>2. CASE Begin
  <2>1. UNCHANGED <<updates, stop_sequences, position>> /\ pc = "begin" /\ pc' = "updates"
    BY <1>2 DEF Begin, inputVars
  <2>2. \A i \in Nat : Sent(i)' => Sent(i)
    BY <2>1 DEF Sent, Processed
  <2>3. QED
    BY <1>0, <2>1, <2>2, ListGrows DEF DisorderInv
<1>3. CASE NextUpdate
  <2>1. pc' # "done"
    BY <1>3 DEF NextUpdate
  <2>2. QED
    BY <1>0, <1>3, <2>1, ListTakes DEF DisorderInv
<1>4. CASE Scan
  <2>1. /\ UNCHANGED <<updates, position>> /\ pc = "scan" /\ pc' \in {"scan", "checks"}
    BY <1>4 DEF Scan, MatchSequence, MatchStopId, SkipRow, RowsExhausted, inputVars
  <2>2. \A i \in Nat : Sent(i)' => Sent(i)
    BY <2>1 DEF Sent, Processed
  <2>3. \E v \in Int32 : stop_sequences' \in {stop_sequences, Append(stop_sequences, v)}
    <3>1. CASE MatchStopId
      <4>1. index + 1 \in 1..Len(rows)
        BY <3>1 DEF MatchStopId, TypeInv
      <4>2. row \in Rows
        BY <4>1 DEF row, TypeInv
      <4>3. QED
        BY <3>1, <4>2, RowType DEF MatchStopId
    <3>2. CASE MatchSequence \/ SkipRow \/ RowsExhausted
      BY <1>0, <3>2 DEF MatchSequence, SkipRow, RowsExhausted
    <3>3. QED
      BY <1>4, <3>1, <3>2 DEF Scan
  <2>4. QED
    BY <1>0, <2>1, <2>2, <2>3, ListGrows DEF DisorderInv
<1>5. CASE Check
  <2>1. /\ UNCHANGED <<updates, stop_sequences>> /\ pc = "checks"
        /\ \/ pc' = "order" /\ position' = position
           \/ pc' = "updates" /\ position' = position + 1
    BY <1>5 DEF Check, inputVars
  <2>2. \A i \in Nat : Sent(i)' => Sent(i)
    <3>1. position <= Len(updates) /\ DOMAIN updates = 1..Len(updates)
      BY <2>1 DEF TypeInv
    <3>2. QED
      BY <1>0, <2>1, <3>1 DEF Sent, Processed
  <2>3. QED
    BY <1>0, <2>1, <2>2, ListGrows DEF DisorderInv
<1>6. CASE Order
  <2>1. /\ UNCHANGED <<updates, stop_sequences, position>> /\ pc' = "done"
        /\ pc = "order" \/ (pc = "updates" /\ position > Len(updates))
        /\ events' = events \o Where(disordered, "E002", 0)
        /\ events \in Seq(Events)
    BY <1>6 DEF Order, inputVars, TypeInv
  <2>2. \A i \in Nat : Sent(i)' => Sent(i)
    <3>1. DOMAIN updates = 1..Len(updates)
      BY DEF TypeInv
    <3>2. QED
      BY <1>0, <2>1, <3>1 DEF Sent, Processed
  <2>3. ASSUME ~strictly_ordered(stop_sequences) PROVE Reports("E002")' # {}
    <3>1. Event("E002", 0) \in Events /\ Event("E002", 0).rule = "E002"
      BY DEF Event, Events, Rules
    <3>2. events' = Append(events, Event("E002", 0))
      BY <2>1, <2>3, <3>1 DEF disordered, Where
    <3>3. /\ Len(events) + 1 \in DOMAIN events'
          /\ events'[Len(events) + 1] = Event("E002", 0)
      BY <2>1, <3>1, <3>2
    <3>4. QED
      BY <3>1, <3>3 DEF Reports
  <2>4. Listed'
    BY <1>0, <2>1, <2>2, ListGrows
  <2>5. QED
    BY <2>1, <2>3, <2>4 DEF DisorderInv
<1>7. QED
  BY <1>1, <1>2, <1>3, <1>4, <1>5, <1>6 DEF Next

LEMMA DisorderShows == TypeInv /\ DisorderInv => DisorderIsReported
<1> SUFFICES ASSUME TypeInv, DisorderInv, pc = "done",
                    NEW i \in 1..position \cap DOMAIN updates,
                    NEW j \in 1..position \cap DOMAIN updates,
                    i < j, has_stop_sequence(updates[i]), has_stop_sequence(updates[j]),
                    sequence_of(updates[i]) >= sequence_of(updates[j])
             PROVE  Reports("E002") # {}
  BY DEF DisorderIsReported
<1>1. i \in Nat /\ j \in Nat /\ Sent(i) /\ Sent(j)
  BY DEF Sent, Processed
<1>2. PICK k \in DOMAIN stop_sequences, l \in DOMAIN stop_sequences :
         /\ k < l
         /\ stop_sequences[k] = sequence_of(updates[i])
         /\ stop_sequences[l] = sequence_of(updates[j])
  BY <1>1 DEF DisorderInv, Listed
<1>3. stop_sequences[k] \in Int /\ stop_sequences[l] \in Int
  <2>1. stop_sequences[k] \in Int32 /\ stop_sequences[l] \in Int32
    BY <1>2, ElementsIn DEF TypeInv
  <2>2. QED
    BY <2>1, WalkAssumption DEF Int32
<1>4. ~(stop_sequences[k] < stop_sequences[l])
  BY <1>2, <1>3
<1>5. ~strictly_ordered(stop_sequences)
  BY <1>2, <1>4 DEF strictly_ordered
<1>6. QED
  BY <1>5 DEF DisorderInv

-----------------------------------------------------------------------------
\* A TripUpdate that follows its trip.

\* The updates lie along the rows in order.
Lies(along) ==
  /\ known
  /\ \A i, j \in DOMAIN rows : i < j => rows[i].stop_sequence < rows[j].stop_sequence
  /\ along \in [DOMAIN updates -> DOMAIN rows]
  /\ \A i, j \in DOMAIN updates : i < j => along[i] < along[j]
  /\ \A i \in DOMAIN updates : Describes(updates[i], rows[along[i]])

\* The update being scanned for has put its stop_sequence in the list already.
Named(k) == pc = "scan" /\ has_stop_sequence(update) /\ k = Len(stop_sequences)

\* The index has not passed the row the update lies along, so the first row that
\* matches is found no later; and the list ends where the index stands.
Behind(along) ==
  /\ ~unknown /\ pc # "order"
  /\ pc \in {"begin", "updates"} /\ position <= Len(updates) => index < along[position]
  /\ pc = "scan" => index < along[position]
  /\ pc = "checks" => index <= along[position]
  /\ strictly_ordered(stop_sequences)
  /\ Len(stop_sequences) =
       IF pc \in {"begin", "updates"} THEN position - 1
       ELSE IF pc = "scan" /\ ~has_stop_sequence(update) THEN position - 1
       ELSE IF pc = "done" THEN Len(stop_sequences)
       ELSE position
  /\ \A k \in DOMAIN stop_sequences :
       IF Named(k) THEN stop_sequences[k] = sequence_of(update)
                   ELSE index >= 1 /\ stop_sequences[k] <= rows[index].stop_sequence
  /\ pc = "done" => Silent(events, "E002") /\ Silent(events, "E051")

CleanInv == \A along : Lies(along) => Behind(along)

\* A list in order with a larger value behind it.
LEMMA LargerLast ==
  ASSUME NEW s \in Seq(Int), strictly_ordered(s), NEW v \in Int,
         \A k \in DOMAIN s : s[k] < v
  PROVE  strictly_ordered(Append(s, v))
<1> DEFINE t == Append(s, v)
<1>1. /\ Len(s) \in Nat /\ DOMAIN s = 1..Len(s) /\ DOMAIN t = 1..(Len(s) + 1)
      /\ \A k \in 1..Len(s) : t[k] = s[k]
      /\ t[Len(s) + 1] = v
  OBVIOUS
<1> HIDE DEF t
<1>2. ASSUME NEW i \in DOMAIN t, NEW j \in DOMAIN t, i < j PROVE t[i] < t[j]
  <2>1. i \in 1..Len(s)
    BY <1>1, <1>2
  <2>2. CASE j \in 1..Len(s)
    BY <1>1, <1>2, <2>1, <2>2 DEF strictly_ordered
  <2>3. CASE j = Len(s) + 1
    BY <1>1, <2>1, <2>3
  <2>4. QED
    BY <1>1, <2>2, <2>3
<1>3. QED
  BY <1>2 DEF strictly_ordered, t

\* What the rows and the updates are once they lie along each other.
LEMMA AlongTypes ==
  ASSUME TypeInv, NEW along, Lies(along)
  PROVE  /\ Len(rows) \in Nat /\ DOMAIN rows = 1..Len(rows)
         /\ Len(updates) \in Nat /\ DOMAIN updates = 1..Len(updates)
         /\ \A i \in 1..Len(rows) : rows[i].stop_sequence \in Int
         /\ \A i \in 1..Len(updates) : along[i] \in 1..Len(rows)
         /\ stop_sequences \in Seq(Int) /\ Len(stop_sequences) \in Nat
         /\ DOMAIN stop_sequences = 1..Len(stop_sequences)
         /\ index \in Nat /\ position \in Nat
<1>1. rows \in Seq(Rows) /\ updates \in Seq(Updates) /\ stop_sequences \in Seq(Int32)
  BY DEF TypeInv
<1>2. /\ Len(rows) \in Nat /\ DOMAIN rows = 1..Len(rows)
      /\ Len(updates) \in Nat /\ DOMAIN updates = 1..Len(updates)
  BY <1>1
<1>3. \A i \in 1..Len(rows) : rows[i].stop_sequence \in Int
  BY <1>1, <1>2, RowType
<1>4. Int32 \subseteq Int
  BY WalkAssumption DEF Int32
<1>5. stop_sequences \in Seq(Int) /\ Len(stop_sequences) \in Nat
      /\ DOMAIN stop_sequences = 1..Len(stop_sequences)
  <2>1. /\ Len(stop_sequences) \in Nat
        /\ DOMAIN stop_sequences = 1..Len(stop_sequences)
        /\ \A i \in DOMAIN stop_sequences : stop_sequences[i] \in Int32
        /\ stop_sequences = [i \in 1..Len(stop_sequences) |-> stop_sequences[i]]
    BY <1>1
  <2>2. \A i \in 1..Len(stop_sequences) : stop_sequences[i] \in Int
    BY <1>4, <2>1
  <2>3. QED
    BY <2>1, <2>2
<1>6. \A i \in 1..Len(updates) : along[i] \in 1..Len(rows)
  BY <1>2 DEF Lies
<1>7. index \in Nat /\ position \in Nat
  BY <1>2 DEF TypeInv
<1>8. QED
  BY <1>2, <1>3, <1>5, <1>6, <1>7

\* Every update is found at the row it lies along or before it, and no step of a
\* TripUpdate that follows its trip leaves the loop early.
LEMMA BehindNextUpdate ==
  ASSUME TypeInv, NEW along, Lies(along), Behind(along), NextUpdate
  PROVE  Behind(along)'
<1> DEFINE s == stop_sequences
           p == along[position]
           v == sequence_of(update)
<1>1. /\ pc = "updates" /\ pc' = "scan" /\ position \in 1..Len(updates)
      /\ UNCHANGED <<inputVars, position, index, unknown>>
      /\ update' = update
      /\ s' = IF has_stop_sequence(update) THEN Append(s, v) ELSE s
  BY DEF NextUpdate, resumed, inputVars, Lies, update, TypeInv
<1>2. /\ Len(rows) \in Nat /\ s \in Seq(Int) /\ Len(s) \in Nat /\ DOMAIN s = 1..Len(s)
      /\ index \in Nat /\ position \in Nat /\ p \in 1..Len(rows)
      /\ \A i \in 1..Len(rows) : rows[i].stop_sequence \in Int
  BY <1>1, AlongTypes
<1>3. /\ index < p /\ ~unknown /\ strictly_ordered(s) /\ Len(s) = position - 1
      /\ \A k \in DOMAIN s : index >= 1 /\ s[k] <= rows[index].stop_sequence
  BY <1>1 DEF Behind, Named
<1>4. CASE has_stop_sequence(update)
  <2>1. v = rows[p].stop_sequence
    BY <1>1, <1>4, AlongTypes DEF Lies, Describes, update
  <2>2. \A k \in DOMAIN s : s[k] < v
    <3>1. SUFFICES ASSUME NEW k \in DOMAIN s PROVE s[k] < v
      OBVIOUS
    <3>2. index \in 1..Len(rows) /\ s[k] <= rows[index].stop_sequence /\ s[k] \in Int
      BY <1>2, <1>3
    <3>3. rows[index].stop_sequence < rows[p].stop_sequence
      BY <1>2, <1>3, <3>2, AlongTypes DEF Lies
    <3>4. rows[index].stop_sequence \in Int /\ rows[p].stop_sequence \in Int
      BY <1>2, <3>2
    <3>5. QED
      BY <2>1, <3>2, <3>3, <3>4
  <2>3. v \in Int
    BY <1>2, <2>1
  <2> HIDE DEF v, p
  <2>4. strictly_ordered(Append(s, v))
    BY <1>2, <1>3, <2>2, <2>3, LargerLast
  <2>5. /\ Len(Append(s, v)) = Len(s) + 1 /\ DOMAIN Append(s, v) = 1..(Len(s) + 1)
        /\ \A k \in 1..Len(s) : Append(s, v)[k] = s[k]
        /\ Append(s, v)[Len(s) + 1] = v
    BY <1>2, <2>3
  <2>6. s' = Append(s, v)
    BY <1>1, <1>4 DEF v
  <2>7. Len(s') = position /\ \A k \in DOMAIN s' :
          IF k = Len(s') THEN s'[k] = v ELSE index >= 1 /\ s'[k] <= rows[index].stop_sequence
    BY <1>2, <1>3, <2>5, <2>6
  <2>8. QED
    BY <1>1, <1>3, <1>4, <2>4, <2>6, <2>7 DEF Behind, Named, v, p, inputVars
<1>5. CASE ~has_stop_sequence(update)
  BY <1>1, <1>3, <1>5 DEF Behind, Named, inputVars
<1>6. QED
  BY <1>4, <1>5

LEMMA BehindMatch ==
  ASSUME TypeInv, NEW along, Lies(along), Behind(along), MatchSequence \/ MatchStopId
  PROVE  Behind(along)'
<1> DEFINE s == stop_sequences
           p == along[position]
           v == row.stop_sequence
<1>1. /\ pc = "scan" /\ pc' = "checks" /\ position \in 1..Len(updates)
      /\ UNCHANGED <<inputVars, position, unknown>>
      /\ index' = index + 1 /\ index < Len(rows) /\ row = rows[index + 1]
  BY DEF MatchSequence, MatchStopId, inputVars, row, TypeInv
<1>2. /\ Len(rows) \in Nat /\ s \in Seq(Int) /\ Len(s) \in Nat /\ DOMAIN s = 1..Len(s)
      /\ index \in Nat /\ position \in Nat /\ p \in 1..Len(rows)
      /\ \A i \in 1..Len(rows) : rows[i].stop_sequence \in Int
  BY <1>1, AlongTypes
<1>3. /\ index < p /\ ~unknown /\ strictly_ordered(s)
      /\ Len(s) = IF has_stop_sequence(update) THEN position ELSE position - 1
      /\ \A k \in DOMAIN s :
           IF has_stop_sequence(update) /\ k = Len(s) THEN s[k] = sequence_of(update)
           ELSE index >= 1 /\ s[k] <= rows[index].stop_sequence
  BY <1>1 DEF Behind, Named
<1>4. /\ index + 1 \in 1..Len(rows) /\ v \in Int
      /\ index >= 1 => rows[index].stop_sequence \in Int /\ rows[index].stop_sequence < v
  <2>1. index + 1 \in 1..Len(rows) /\ v \in Int
    BY <1>1, <1>2
  <2>2. ASSUME index >= 1
        PROVE  rows[index].stop_sequence \in Int /\ rows[index].stop_sequence < v
    <3>1. index \in 1..Len(rows) /\ index < index + 1
      BY <1>1, <1>2, <2>2
    <3>2. QED
      BY <1>1, <1>2, <2>1, <3>1, AlongTypes DEF Lies
  <2>3. QED
    BY <2>1, <2>2
<1>5. \A k \in DOMAIN s : ~(has_stop_sequence(update) /\ k = Len(s)) => s[k] < v
  BY <1>2, <1>3, <1>4
<1>6. CASE MatchSequence
  <2>1. has_stop_sequence(update) /\ v = sequence_of(update) /\ s' = s
    BY <1>6 DEF MatchSequence, is_sequence_match
  <2> HIDE DEF v
  <2>2. \A k \in DOMAIN s : s[k] <= v
    BY <1>2, <1>3, <1>4, <1>5, <2>1
  <2>3. \A k \in DOMAIN s' : index' >= 1 /\ s'[k] <= rows[index'].stop_sequence
    BY <1>1, <1>2, <2>1, <2>2 DEF v
  <2>4. index' <= p
    BY <1>1, <1>2, <1>3
  <2>5. QED
    BY <1>1, <1>3, <2>1, <2>3, <2>4 DEF Behind, Named, inputVars
<1>7. CASE MatchStopId
  <2>1. ~has_stop_sequence(update) /\ s' = Append(s, v)
    BY <1>7 DEF MatchStopId, is_id_match
  <2>2. \A k \in DOMAIN s : s[k] < v
    BY <1>5, <2>1
  <2> HIDE DEF v
  <2>3. strictly_ordered(Append(s, v))
    BY <1>2, <1>3, <1>4, <2>2, LargerLast
  <2>4. /\ Len(Append(s, v)) = Len(s) + 1 /\ DOMAIN Append(s, v) = 1..(Len(s) + 1)
        /\ \A k \in 1..Len(s) : Append(s, v)[k] = s[k]
        /\ Append(s, v)[Len(s) + 1] = v
    BY <1>2, <1>4
  <2>5. \A k \in DOMAIN s' : s'[k] <= v
    BY <1>2, <1>4, <2>1, <2>2, <2>4
  <2>6. \A k \in DOMAIN s' : index' >= 1 /\ s'[k] <= rows[index'].stop_sequence
    BY <1>1, <1>2, <2>5 DEF v
  <2>7. index' <= p /\ Len(s') = position
    BY <1>1, <1>2, <1>3, <2>1, <2>4
  <2>8. QED
    BY <1>1, <1>3, <2>1, <2>3, <2>6, <2>7 DEF Behind, Named, inputVars
<1>8. QED
  BY <1>6, <1>7

LEMMA BehindSkip ==
  ASSUME TypeInv, NEW along, Lies(along), Behind(along), SkipRow
  PROVE  Behind(along)'
<1> DEFINE s == stop_sequences
           p == along[position]
<1>1. /\ pc = "scan" /\ pc' = "scan" /\ position \in 1..Len(updates)
      /\ UNCHANGED <<inputVars, position, stop_sequences>> /\ update' = update
      /\ index' = index + 1 /\ index < Len(rows) /\ row = rows[index + 1]
      /\ ~is_sequence_match /\ ~is_id_match
      /\ unknown' = (unknown \/ (has_stop_sequence(update) /\ index + 1 = Len(rows)))
  BY DEF SkipRow, examined, on_last_row, inputVars, row, update, TypeInv
<1>2. /\ Len(rows) \in Nat /\ s \in Seq(Int) /\ Len(s) \in Nat /\ DOMAIN s = 1..Len(s)
      /\ index \in Nat /\ position \in Nat /\ p \in 1..Len(rows)
      /\ \A i \in 1..Len(rows) : rows[i].stop_sequence \in Int
  BY <1>1, AlongTypes
<1>3. /\ index < p /\ ~unknown
      /\ \A k \in DOMAIN s :
           IF Named(k) THEN s[k] = sequence_of(update)
           ELSE index >= 1 /\ s[k] <= rows[index].stop_sequence
  BY <1>1 DEF Behind
<1>4. index + 1 # p
  <2>1. Describes(update, rows[p])
    BY <1>1, AlongTypes DEF Lies, update
  <2>2. QED
    BY <1>1, <2>1 DEF Describes, is_sequence_match, is_id_match
<1>5. index' < p /\ ~unknown'
  <2> HIDE DEF p
  <2>1. index + 1 < p /\ p <= Len(rows)
    BY <1>2, <1>3, <1>4
  <2>2. index + 1 # Len(rows)
    BY <1>2, <2>1
  <2>3. QED
    BY <1>1, <1>3, <2>1, <2>2
<1>6. ASSUME NEW k \in DOMAIN s, ~Named(k)
      PROVE  index + 1 >= 1 /\ s[k] <= rows[index + 1].stop_sequence
  <2>1. index >= 1 /\ s[k] <= rows[index].stop_sequence /\ s[k] \in Int
    BY <1>2, <1>3, <1>6
  <2>2. index \in 1..Len(rows) /\ index + 1 \in 1..Len(rows) /\ index < index + 1
    BY <1>1, <1>2, <2>1
  <2>3. rows[index].stop_sequence < rows[index + 1].stop_sequence
    BY <2>2, AlongTypes DEF Lies
  <2>4. QED
    BY <1>2, <2>1, <2>2, <2>3
<1>7. \A k \in DOMAIN s : Named(k)' <=> Named(k)
  BY <1>1 DEF Named
<1>8. \A k \in DOMAIN s :
        IF Named(k)' THEN s[k] = sequence_of(update)
        ELSE index' >= 1 /\ s[k] <= rows[index'].stop_sequence
  BY <1>1, <1>3, <1>6, <1>7
<1>9. QED
  BY <1>1, <1>5, <1>8 DEF Behind, inputVars

LEMMA CleanNext == TypeInv /\ OnceInv /\ CleanInv /\ [Next]_vars => CleanInv'
<1> SUFFICES ASSUME TypeInv, OnceInv, CleanInv, [Next]_vars, NEW along, Lies(along)'
             PROVE  Behind(along)'
  BY DEF CleanInv
<1>1. UNCHANGED <<known, canceled, rows, updates>>
  BY DEF Next, Scan, Begin, NextUpdate, MatchSequence, MatchStopId, SkipRow, RowsExhausted,
         Check, Order, vars, inputVars
<1>2. Lies(along)
  BY <1>1 DEF Lies
<1>3. Behind(along)
  BY <1>2 DEF CleanInv
<1>4. CASE UNCHANGED vars
  <2>1. UNCHANGED <<rows, updates, pc, position, index, unknown, stop_sequences, events>>
    BY <1>4 DEF vars, inputVars, scanVars
  <2>2. QED
    BY <1>3, <2>1 DEF Behind, Named, update
<1>5. CASE Begin
  <2>1. /\ UNCHANGED <<rows, updates, position, index, unknown, stop_sequences>>
        /\ pc = "begin" /\ pc' = "updates"
    BY <1>5 DEF Begin, inputVars, scanVars
  <2>2. QED
    BY <1>3, <2>1 DEF Behind, Named, update
<1>6. CASE NextUpdate
  BY <1>2, <1>3, <1>6, BehindNextUpdate
<1>7. CASE MatchSequence \/ MatchStopId
  BY <1>2, <1>3, <1>7, BehindMatch
<1>8. CASE SkipRow
  BY <1>2, <1>3, <1>8, BehindSkip
<1>9. CASE RowsExhausted
  <2>1. pc = "scan" /\ index >= Len(rows) /\ position \in 1..Len(updates)
    BY <1>9 DEF RowsExhausted, TypeInv
  <2>2. index < along[position] /\ along[position] \in 1..Len(rows)
        /\ index \in Nat /\ Len(rows) \in Nat
    BY <1>2, <1>3, <2>1, AlongTypes DEF Behind
  <2>3. QED
    BY <2>1, <2>2
<1>10. CASE Check
  <2>1. /\ UNCHANGED <<rows, updates, index, unknown, stop_sequences>>
        /\ pc = "checks" /\ pc' = "updates" /\ position' = position + 1
        /\ position \in 1..Len(updates)
    BY <1>3, <1>10 DEF Check, breaks, inputVars, scanVars, Behind, TypeInv
  <2>2. /\ Len(updates) \in Nat /\ DOMAIN updates = 1..Len(updates) /\ index \in Nat
        /\ \A i \in 1..Len(updates) : along[i] \in Nat
        /\ Len(stop_sequences) \in Nat
    BY <1>2, AlongTypes
  <2>3. ASSUME position + 1 <= Len(updates) PROVE index < along[position + 1]
    <3>1. position \in DOMAIN updates /\ position + 1 \in DOMAIN updates
      BY <2>1, <2>2, <2>3
    <3>2. along[position] < along[position + 1]
      BY <1>2, <2>1, <2>2, <3>1 DEF Lies
    <3>3. index <= along[position]
      BY <1>3, <2>1 DEF Behind
    <3>4. QED
      BY <2>2, <3>1, <3>2, <3>3
  <2>4. Len(stop_sequences) = (position + 1) - 1
    BY <1>3, <2>1, <2>2 DEF Behind
  <2>5. QED
    BY <1>3, <2>1, <2>3, <2>4 DEF Behind, Named
<1>11. CASE Order
  <2>1. /\ UNCHANGED <<rows, updates, position, index, unknown, stop_sequences>>
        /\ pc = "updates" /\ position > Len(updates) /\ pc' = "done"
        /\ events' = events \o Where(disordered, "E002", 0)
    BY <1>3, <1>11 DEF Order, inputVars, scanVars, Behind
  <2>2. /\ Len(updates) \in Nat /\ position = Len(updates) + 1
        /\ events \in Seq(Events)
    <3>1. Len(updates) \in Nat
      BY <1>2, AlongTypes
    <3>2. position \in 1..(Len(updates) + 1) /\ events \in Seq(Events)
      BY DEF TypeInv
    <3>3. QED
      BY <2>1, <3>1, <3>2
  <2>3. strictly_ordered(stop_sequences) /\ Len(stop_sequences) = Len(updates)
    BY <1>3, <2>1, <2>2 DEF Behind
  <2>4. ~disordered
    BY <2>2, <2>3 DEF disordered
  <2>5. events' = events
    BY <2>1, <2>2, <2>4 DEF Where
  <2>6. Silent(events, "E002") /\ Silent(events, "E051")
    <3>1. {"E002", "E051"} \subseteq Unsaid
      BY <2>1 DEF Unsaid, Single
    <3>2. QED
      BY <3>1 DEF OnceInv, Tidy
  <2>7. QED
    BY <1>3, <2>1, <2>5, <2>6 DEF Behind, Named
<1>12. QED
  BY <1>4, <1>5, <1>6, <1>7, <1>8, <1>9, <1>10, <1>11 DEF Next, Scan

LEMMA CleanShows == TypeInv /\ OnceInv /\ CleanInv => FollowingIsClean
<1> SUFFICES ASSUME TypeInv, OnceInv, CleanInv, Follows
             PROVE  Reports("E002") \cup Reports("E051") = {}
  BY DEF FollowingIsClean
<1>1. PICK along : Lies(along)
  BY DEF Follows, Lies
<1>2. Behind(along)
  BY <1>1 DEF CleanInv
<1>3. Silent(events, "E002") /\ Silent(events, "E051")
  <2>1. CASE pc = "done"
    BY <1>2, <2>1 DEF Behind
  <2>2. CASE pc # "done"
    <3>1. pc \in {"begin", "updates", "scan", "checks"}
      BY <1>2, <2>2 DEF Behind, TypeInv
    <3>2. {"E002", "E051"} \subseteq Unsaid
      BY <3>1 DEF Unsaid, Single
    <3>3. QED
      BY <3>2 DEF OnceInv, Tidy
  <2>3. QED
    BY <2>1, <2>2
<1>4. QED
  BY <1>3 DEF Silent, Reports

-----------------------------------------------------------------------------
\* What each update leaves for the next.
PassInv ==
  /\ stop_ids \in Seq(StopIds)
  /\ previous_stop_sequence \in Int32 \cup {None}
  /\ previous_stop_id \in StopIds \cup {None}

LEMMA PassNext == TypeInv /\ PassInv /\ [Next]_vars => PassInv'
<1> SUFFICES ASSUME TypeInv, PassInv, [Next]_vars PROVE PassInv'
  OBVIOUS
<1>1. CASE NextUpdate
  <2>1. update \in Updates
    BY <1>1 DEF NextUpdate, update, TypeInv
  <2>2. 0 \in Int32
    BY WalkAssumption DEF Int32
  <2>3. previous_stop_sequence' \in Int32
    BY <1>1, <2>1, <2>2, Narrowed DEF NextUpdate
  <2>4. update.stop_id \in StopIds \cup {None}
    BY <2>1, WalkAssumption
  <2>5. stop_ids' \in Seq(StopIds)
    BY <1>1, <2>4 DEF NextUpdate, has_stop_id, PassInv
  <2>6. QED
    BY <1>1, <2>3, <2>4, <2>5 DEF NextUpdate, PassInv
<1>2. CASE ~NextUpdate
  <2>1. UNCHANGED <<stop_ids, previous_stop_sequence, previous_stop_id>>
    BY <1>2 DEF Next, Scan, Begin, MatchSequence, MatchStopId, SkipRow, RowsExhausted,
                Check, Order, vars, passVars
  <2>2. QED
    BY <2>1 DEF PassInv
<1>3. QED
  BY <1>1, <1>2

LEMMA TypeShows == TypeInv /\ OnceInv /\ PassInv => TypeOK
<1> SUFFICES ASSUME TypeInv, OnceInv, PassInv PROVE TypeOK
  OBVIOUS
<1> DEFINE E == [rule : Rules, at : 0..Len(updates)]
<1>1. /\ events \in Seq(Events) /\ Len(events) \in Nat /\ DOMAIN events = 1..Len(events)
      /\ events = [i \in 1..Len(events) |-> events[i]]
      /\ \A i \in DOMAIN events : events[i] \in Events
  BY DEF TypeInv
<1>2. \A i \in DOMAIN events : events[i].at \in 0..Len(updates)
  BY DEF OnceInv, Tidy
<1>3. \A i \in 1..Len(events) : events[i] \in E
  BY <1>1, <1>2 DEF Events
<1> HIDE DEF E
<1>4. events \in Seq(E)
  BY <1>1, <1>3
<1>5. QED
  BY <1>4 DEF TypeOK, TypeInv, PassInv, E

\* A TripUpdate is told of its order once, of every disorder that no break hid,
\* and never when it can be laid along its trip's rows (E002, E009, E041, E051).
THEOREM OrderIsTold == Spec => []OrderHolds
<1>1. Init => OnceInv /\ DisorderInv /\ CleanInv /\ PassInv
  <2> SUFFICES ASSUME Init PROVE OnceInv /\ DisorderInv /\ CleanInv /\ PassInv
    OBVIOUS
  <2>1. /\ pc = "begin" /\ position = 1 /\ index = 0 /\ unknown = FALSE
        /\ stop_sequences = <<>> /\ stop_ids = <<>> /\ events = <<>>
        /\ previous_stop_sequence = None /\ previous_stop_id = None
    BY DEF Init
  <2>2. OnceInv
    BY <2>1 DEF OnceInv, Tidy, Once, Silent
  <2>3. DisorderInv
    BY <2>1 DEF DisorderInv, Listed, Sent, Processed
  <2>4. ASSUME NEW along, Lies(along) PROVE Behind(along)
    <3>1. TypeInv
      BY TypeInit
    <3>2. 1 <= Len(updates) => along[1] \in 1..Len(rows) /\ Len(rows) \in Nat
      BY <2>4, <3>1, AlongTypes
    <3>3. 1 <= Len(updates) => 0 < along[1]
      BY <3>2
    <3>4. strictly_ordered(<<>>) /\ Len(<<>>) = 0
      BY DEF strictly_ordered
    <3>5. QED
      BY <2>1, <3>3, <3>4 DEF Behind
  <2>5. PassInv
    BY <2>1 DEF PassInv
  <2>6. QED
    BY <2>2, <2>3, <2>4, <2>5 DEF CleanInv
<1>2. OnceInv => AtMostOnce
  BY DEF OnceInv, Tidy, Once, Single, AtMostOnce, Reports
<1>3. TypeInv /\ OnceInv /\ DisorderInv /\ CleanInv /\ PassInv => OrderHolds
  BY <1>2, TypeShows, DisorderShows, CleanShows DEF OrderHolds
<1>4. QED
  BY <1>1, <1>3, TypesHold, OnceNext, DisorderNext, CleanNext, PassNext, PTL DEF Spec

=============================================================================
