---------------------------- MODULE EntityRules ----------------------------
(***************************************************************************)
(* The rules about the list of entities and about alerts and shapes        *)
(* (rules/_shared/walk_entities.py, rules/_shared/alert_index.py and the   *)
(* rules of rules/spec and rules/practice that read them), over a cycle of *)
(* messages: each is validated for itself, and sees the alerts of all.     *)
(***************************************************************************)
EXTENDS Integers, Sequences, FiniteSets

CONSTANTS
  Cycles,             \* the cycles that may be met: functions from roles to messages
  RoleOrder,          \* the roles, in the order they are validated
  Strings,
  None,
  Default,            \* what an absent string reads as
  shape_ids,          \* of shapes.txt
  route_stop_ids      \* per route of the feed that serves a stop, the stops it serves

VARIABLES cycle, pending, found

vars == <<cycle, pending, found>>

-----------------------------------------------------------------------------
TimeRange == [start : Nat \cup {None}, end : Nat \cup {None}]

\* A selector's trip is its trip_id and its route_id.
EntitySelector ==
  [trip : (Strings \X Strings) \cup {None}, stop_id : Strings \cup {None},
   route_id : Strings \cup {None}, direction_id : BOOLEAN]

\* A translated string is the sequence of its texts with their languages.
Alert ==
  [active_period : BOOLEAN, communication_period : Seq(TimeRange), impact_period : Seq(TimeRange),
   cause : BOOLEAN, cause_detail : BOOLEAN, effect : {None, "NO_SERVICE", "DETOUR"}, effect_detail : BOOLEAN,
   header_text : Seq(Strings \X (Strings \cup {None})) \cup {None},
   description_text : Seq(Strings \X (Strings \cup {None})) \cup {None},
   informed_entity : Seq(EntitySelector)]

\* A polyline is how many points decoded and whether decoding broke.
Polyline == [points : Nat, error : BOOLEAN]

Shape == [shape_id : Strings \cup {None}, encoded_polyline : Polyline \cup {None}]

TripUpdate == [trip_id : Strings \cup {None}, start_date : Strings \cup {None}, canceled : BOOLEAN]

Payloads == {"trip_update", "alert", "shape"}

Entity ==
  [id : Strings, is_deleted : BOOLEAN, trip_update : TripUpdate \cup {None},
   alert : Alert \cup {None}, shape : Shape \cup {None}]

\* What the program hands this part: the instances assume it.
LegalInputs ==
  /\ \A c \in Cycles : DOMAIN c \subseteq {RoleOrder[k] : k \in DOMAIN RoleOrder}
  /\ None \notin Strings /\ Default \in Strings
  /\ \A r \in DOMAIN route_stop_ids : route_stop_ids[r] # {}

-----------------------------------------------------------------------------
(* One pass over the entities of a message.                                *)

payloads(e) == {p \in Payloads : e[p] # None}

\* An entity with two payloads is read under both.
carrying(m, p) == {i \in DOMAIN m : p \in payloads(m[i])}

repeated_ids(m) == {m[i].id : i \in {j \in DOMAIN m : \E k \in 1..(j - 1) : m[k].id = m[j].id}}

Found(rule, entities, position, line) ==
  [rule |-> rule, entities |-> entities, position |-> position, line |-> line]

\* The entities with payload p of which a rule says something.
Each(rule, m, p, Says(_)) == {Found(rule, {i}, 0, Default) : i \in {j \in carrying(m, p) : Says(m[j][p])}}

S001(m) == {Found("S001", {i}, 0, Default) : i \in {j \in DOMAIN m : Cardinality(payloads(m[j])) # 1 /\ ~m[j].is_deleted}}

S002(m) == {Found("S002", {i \in DOMAIN m : m[i].id = id}, 0, Default) : id \in repeated_ids(m)}

S025(m) == Each("S025", m, "alert", LAMBDA a : a.active_period)
S027(m) == Each("S027", m, "alert", LAMBDA a : a.cause_detail /\ ~a.cause)
S028(m) == Each("S028", m, "alert", LAMBDA a : a.effect_detail /\ a.effect = None)

\* Only equality adds nothing for certain, and only to a header that says something.
S029(m) == Each("S029", m, "alert", LAMBDA a :
  None # a.header_text /\ a.header_text # <<>> /\ a.header_text = a.description_text)

S030(m) ==
  {Found("S030", {d[1]}, d[2], Default) :
     d \in UNION {{i} \X {q \in DOMAIN m[i].alert.informed_entity :
                            LET selector == m[i].alert.informed_entity[q]
                            IN  selector.direction_id /\ selector.route_id = None} : i \in carrying(m, "alert")}}

S037(m) == Each("S037", m, "shape", LAMBDA s : s.shape_id = None)
S038(m) == Each("S038", m, "shape", LAMBDA s : s.shape_id \in shape_ids)
S039(m) == Each("S039", m, "shape", LAMBDA s : s.encoded_polyline = None)
S040(m) == Each("S040", m, "shape", LAMBDA s :
  s.encoded_polyline # None /\ (s.encoded_polyline.error \/ s.encoded_polyline.points < 2))

\* An absent bound is an infinite one.
contained(inner, window) ==
  /\ window.start = None \/ (inner.start # None /\ window.start <= inner.start)
  /\ window.end = None \/ (inner.end # None /\ inner.end <= window.end)

\* Two windows that touch do not merge into one.
S026(m) ==
  {Found("S026", {d[1]}, d[2], Default) :
     d \in UNION {LET a == m[i].alert IN
                  {i} \X {q \in DOMAIN a.impact_period :
                            /\ a.communication_period # <<>>
                            /\ ~\E w \in DOMAIN a.communication_period :
                                  contained(a.impact_period[q], a.communication_period[w])} : i \in carrying(m, "alert")}}

-----------------------------------------------------------------------------
(* The index of alerts.                                                    *)

Selectors(alert) == {alert.informed_entity[q] : q \in DOMAIN alert.informed_entity}

\* What one alert names.  A selector's trip names its trip_id and route_id even
\* where they are the default.
selectors_of(alert) ==
  [effect         |-> alert.effect,
   trip_ids       |-> {s.trip[1] : s \in {t \in Selectors(alert) : t.trip # None}},
   trip_route_ids |-> {s.trip[2] : s \in {t \in Selectors(alert) : t.trip # None}},
   stop_ids       |-> {s.stop_id : s \in Selectors(alert)} \ {None},
   route_ids      |-> {s.route_id : s \in Selectors(alert)} \ {None}]

\* The index over the alerts of some messages.
index(messages) == UNION {{selectors_of(m[i].alert) : i \in carrying(m, "alert")} : m \in messages}

\* Every effect an alert of the index declares for a trip.
effects_for_trip(alerts, trip_id) ==
  {a.effect : a \in {b \in alerts : trip_id \in b.trip_ids}} \ {None}

\* A mistake: the alerts of another file are not seen.
own_index(role) == index({cycle[role]})

\* Every alert a message can see: the cycle's, whichever role it is.
visible_index(role) == index({cycle[r] : r \in DOMAIN cycle})

\* The trips of m all of whose dated updates cancel them, on two days or more,
\* with those updates.
cancelled_over_days(m) ==
  LET dated(t)   == {i \in carrying(m, "trip_update") : m[i].trip_update.trip_id = t /\ m[i].trip_update.start_date # None}
      named      == {m[i].trip_update.trip_id : i \in carrying(m, "trip_update")} \ {None}
      canceled(t) == /\ Cardinality({m[i].trip_update.start_date : i \in dated(t)}) > 1
                     /\ \A i \in dated(t) : m[i].trip_update.canceled
  IN  {<<t, dated(t)>> : t \in {n \in named : canceled(n)}}

\* The days of this message, the alerts of every one.
P006(role) ==
  {Found("P006", d[2], 0, Default) :
     d \in {c \in cancelled_over_days(cycle[role]) :
              "NO_SERVICE" \notin effects_for_trip(visible_index(role), c[1])}}

\* The lines an alert names stop by stop and not by name.
covered(a) ==
  {r \in DOMAIN route_stop_ids : r \notin a.route_ids /\ route_stop_ids[r] \subseteq a.stop_ids}

P012(m) ==
  {Found("P012", {d[1]}, 0, d[2]) : d \in UNION {{i} \X covered(selectors_of(m[i].alert)) : i \in carrying(m, "alert")}}

-----------------------------------------------------------------------------
\* What is said of a message standing by itself.
OfMessage(m) ==
  S001(m) \cup S002(m) \cup S025(m) \cup S026(m) \cup S027(m) \cup S028(m) \cup S029(m)
  \cup S030(m) \cup S037(m) \cup S038(m) \cup S039(m) \cup S040(m) \cup P012(m)

Init ==
  /\ cycle \in Cycles
  /\ pending = SelectSeq(RoleOrder, LAMBDA r : r \in DOMAIN cycle)
  /\ found = [r \in DOMAIN cycle |-> {}]

\* The roles of a cycle in their order, each for itself.
Validate ==
  /\ pending # <<>>
  /\ found' = [found EXCEPT ![Head(pending)] = OfMessage(cycle[Head(pending)]) \cup P006(Head(pending))]
  /\ pending' = Tail(pending)
  /\ UNCHANGED cycle

Next == Validate

Spec == Init /\ [][Next]_vars

-----------------------------------------------------------------------------
\* Every finding is about entities of the message it is reported for.
TypeOK ==
  /\ DOMAIN found = DOMAIN cycle
  /\ \A r \in DOMAIN cycle : \A f \in found[r] : f.entities # {} /\ f.entities \subseteq DOMAIN cycle[r]

Validated == {r \in DOMAIN cycle : \A k \in DOMAIN pending : pending[k] # r}

\* A cancellation over several days is silent when an alert of NO_SERVICE names
\* the trip in any file of the cycle, and it is reported for the file of the
\* updates, once, when none does: how a producer splits a feed over its files
\* does not decide it (rule P006 through visible_index).
AnyFileMayHoldTheAlert ==
  \A r \in Validated, t \in Strings :
    LET m == cycle[r]
        dated == {i \in DOMAIN m : m[i].trip_update # None /\ m[i].trip_update.trip_id = t /\ m[i].trip_update.start_date # None}
        spoken == \E o \in DOMAIN cycle : \E i \in DOMAIN cycle[o] :
                    /\ cycle[o][i].alert # None /\ cycle[o][i].alert.effect = "NO_SERVICE"
                    /\ \E q \in DOMAIN cycle[o][i].alert.informed_entity :
                         cycle[o][i].alert.informed_entity[q].trip # None /\ cycle[o][i].alert.informed_entity[q].trip[1] = t
    IN  ({f \in found[r] : f.rule = "P006" /\ f.entities \cap dated # {}} # {})
          <=> /\ ~spoken
              /\ \E i, j \in dated : m[i].trip_update.start_date # m[j].trip_update.start_date
              /\ \A i \in dated : m[i].trip_update.canceled

\* An entity with several payloads is a defect of its own and hides no other:
\* what the rules on alerts and shapes say of it is what they say of the same
\* payloads in entities of their own (walk_entities.carrying).
NoPayloadHidesAnother ==
  \A r \in Validated :
    \A i \in DOMAIN cycle[r] :
      LET e == cycle[r][i]
          About(p) == {<<f.rule, f.position, f.line>> : f \in {g \in OfMessage(<<[q \in DOMAIN e |-> IF q \in Payloads \ {p} THEN None ELSE e[q]]>>) :
                                                       g.rule # "S001"}}
      IN  {<<f.rule, f.position, f.line>> : f \in {g \in found[r] : g.entities = {i} /\ g.rule \notin {"S001", "S002", "P006"}}}
            = UNION {About(p) : p \in payloads(e)}

\* Where a producer says when an alert is shown, every instant of an impact that
\* is not reported lies in one window of it, an absent bound reaching beyond
\* every instant there is, and an impact that is reported has for each window an
\* instant outside of it (rule S026).
ImpactsAreCommunicated ==
  LET Instants == -1..6
      At(range)  == {t \in Instants : /\ range.start = None \/ range.start <= t
                                      /\ range.end = None \/ t <= range.end}
  IN  \A r \in Validated :
        \A i \in DOMAIN cycle[r] :
          cycle[r][i].alert # None /\ cycle[r][i].alert.communication_period # <<>> =>
            LET a == cycle[r][i].alert
            IN  \A q \in DOMAIN a.impact_period :
                  (Found("S026", {i}, q, Default) \in found[r])
                    <=> ~\E w \in DOMAIN a.communication_period :
                            At(a.impact_period[q]) \subseteq At(a.communication_period[w])

\* The remedy the practice asks for is the one that works: an alert reported for
\* a line is no longer once a selector names the line, and naming one of its
\* trips, or the empty trip, changes nothing (rule P012).
NamingTheLineIsTheRemedy ==
  \A r \in Validated :
    \A f \in {g \in found[r] : g.rule = "P012"} :
      LET i    == CHOOSE k \in f.entities : TRUE
          line == f.line
          Plus(selector) == [cycle[r] EXCEPT ![i].alert.informed_entity = Append(@, selector)]
          Blank == [trip |-> None, stop_id |-> None, route_id |-> None, direction_id |-> FALSE]
          Lines(m) == {g \in P012(m) : g.entities = {i}}
      IN  /\ Lines(Plus([Blank EXCEPT !.route_id = line])) = Lines(cycle[r]) \ {f}
          /\ \A t \in {line, Default} : Lines(Plus([Blank EXCEPT !.trip = <<t, t>>])) = Lines(cycle[r])
=============================================================================
