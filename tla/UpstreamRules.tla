---------------------------- MODULE UpstreamRules ----------------------------
(***************************************************************************)
(* The upstream rules of one message, in the registry's order.  Most of    *)
(* them are one line over a walk several share: the walk's body runs for   *)
(* the first of them that asks, its events are kept in the message's memo  *)
(* under the walk's name, and each rule takes the events with its own id   *)
(* (rules/_shared/walks.py).  E011, E015 and W005 walk for themselves.     *)
(*                                                                         *)
(* What the walks yield is chosen; modules TimestampWalk, VehicleWalk,     *)
(* TripDescriptorWalk and StopTimeUpdateWalk are about that.               *)
(***************************************************************************)
EXTENDS Orders, SequencesExt

CONSTANTS
  Messages,    \* messages: what each walk yields of it, and its stops and vehicles
  Orders,      \* registries: the ids of the rules, in their order
  Names,       \* the module and the qualified name of each walk
  None

VARIABLES message, name, todo, memo, ran, pc, occurrences

vars == <<message, name, todo, memo, ran, pc, occurrences>>

timestamps == "timestamps"
trip_descriptors == "trip_descriptors"
vehicles == "vehicles"
stop_time_updates == "stop_time_updates"
Walks == {timestamps, trip_descriptors, vehicles, stop_time_updates}

Reads(rule_id, walk) == [id |-> rule_id, walk |-> walk]
occurrences_for(rule_id) == Reads(rule_id, stop_time_updates)

\* The rules, by the walk their module reads.
E001 == Reads("E001", timestamps)
E012 == Reads("E012", timestamps)
E017 == Reads("E017", timestamps)
E018 == Reads("E018", timestamps)
E022 == Reads("E022", timestamps)
E025 == Reads("E025", timestamps)
E048 == Reads("E048", timestamps)
E050 == Reads("E050", timestamps)
W001 == Reads("W001", timestamps)
W007 == Reads("W007", timestamps)
W008 == Reads("W008", timestamps)

E003 == Reads("E003", trip_descriptors)
E004 == Reads("E004", trip_descriptors)
E016 == Reads("E016", trip_descriptors)
E020 == Reads("E020", trip_descriptors)
E021 == Reads("E021", trip_descriptors)
E023 == Reads("E023", trip_descriptors)
E024 == Reads("E024", trip_descriptors)
E030 == Reads("E030", trip_descriptors)
E031 == Reads("E031", trip_descriptors)
E032 == Reads("E032", trip_descriptors)
E033 == Reads("E033", trip_descriptors)
E034 == Reads("E034", trip_descriptors)
E035 == Reads("E035", trip_descriptors)
W006 == Reads("W006", trip_descriptors)
W009 == Reads("W009", trip_descriptors)

E026 == Reads("E026", vehicles)
E027 == Reads("E027", vehicles)
E028 == Reads("E028", vehicles)
E029 == Reads("E029", vehicles)
E052 == Reads("E052", vehicles)
W002 == Reads("W002", vehicles)
W004 == Reads("W004", vehicles)

E002 == occurrences_for("E002")
E009 == occurrences_for("E009")
E036 == occurrences_for("E036")
E037 == occurrences_for("E037")
E040 == occurrences_for("E040")
E041 == occurrences_for("E041")
E042 == occurrences_for("E042")
E043 == occurrences_for("E043")
E044 == occurrences_for("E044")
E045 == occurrences_for("E045")
E046 == occurrences_for("E046")
E051 == occurrences_for("E051")

Shared ==
  {E001, E012, E017, E018, E022, E025, E048, E050, W001, W007, W008, E003,
   E004, E016, E020, E021, E023, E024, E030, E031, E032, E033, E034, E035,
   W006, W009, E026, E027, E028, E029, E052, W002, W004, E002, E009, E036,
   E037, E040, E041, E042, E043, E044, E045, E046, E051}

-----------------------------------------------------------------------------
\* E011 looks a stop up and E015 asks what it is, of the same places but one:
\* E015 has no branch for alerts.
StopsOf(entity) ==
  entity.stop_time_updates \o (IF entity.vehicle_stop = None THEN <<>> ELSE <<entity.vehicle_stop>>)

E011 ==
  FlattenSeq([i \in DOMAIN message.entity |->
    LET stops == StopsOf(message.entity[i]) \o message.entity[i].alert_stops
    IN  Picked(stops, {k \in DOMAIN stops : stops[k] \notin DOMAIN message.stops})])

_misplaced(stop) == stop \in DOMAIN message.stops /\ message.stops[stop] # 0

E015 ==
  FlattenSeq([i \in DOMAIN message.entity |->
    LET stops == StopsOf(message.entity[i]) IN Picked(stops, {k \in DOMAIN stops : _misplaced(stops[k])})])

\* The halves that run on a trip with exact_times 0 and name no vehicle.
W005 ==
  FlattenSeq([i \in DOMAIN message.entity |->
    LET halves == message.entity[i].halves
    IN  Picked(halves, {k \in DOMAIN halves : halves[k].frequency_zero /\ halves[k].vehicle_id = None})])

Alone == {"E011", "E015", "W005"}

\* What the rules that walk for themselves may report of an entity.
Met(entity) == Range(StopsOf(entity) \o entity.alert_stops) \cup Range(entity.halves)

\* What the program hands this part: the instances assume it.  A registry has each
\* rule once, and a walk yields events of its own rules, none of which is a stop
\* or the half of an entity.
LegalInputs ==
  /\ \A order \in Orders :
       /\ order \in Seq({r.id : r \in Shared} \cup Alone) /\ IsInjective(order)
       /\ {r.id : r \in Shared} \subseteq Range(order)
  /\ \A m \in Messages :
       /\ m.entity \in Seq(Range(m.entity))
       /\ \A e \in Range(m.entity) :
            /\ e.stop_time_updates \in Seq(Range(e.stop_time_updates))
            /\ e.alert_stops \in Seq(Range(e.alert_stops)) /\ e.halves \in Seq(Range(e.halves))
       /\ \A walk \in Walks :
            /\ m.events[walk] \in Seq(Range(m.events[walk]))
            /\ \A event \in Range(m.events[walk]) :
                 Reads(event.id, walk) \in Shared /\ \A e \in Range(m.entity) : event \notin Met(e)

-----------------------------------------------------------------------------
Init ==
  /\ message \in Messages /\ name \in Names /\ todo \in Orders
  /\ memo = <<>> /\ ran = <<>> /\ pc = "rules" /\ occurrences = <<>>

\* A mistake: a walk that saw nothing looks like one that never ran.
cached_if_it_saw_something(key) == key \in DOMAIN memo /\ memo[key].events # <<>>

cached(key) == key \in DOMAIN memo

Rule ==
  IF Head(todo) \in Alone THEN [id |-> Head(todo), walk |-> None]
  ELSE CHOOSE r \in Shared : r.id = Head(todo)

Reported(found) == occurrences' = Append(occurrences, [rule |-> Rule.id, found |-> found]) /\ todo' = Tail(todo)

\* events_for: the filter neither reorders nor deduplicates.
Mine(events) == Picked(events, {k \in DOMAIN events : events[k].id = Rule.id})

\* walk_events of the rule's walk.
Check ==
  LET key == name[Rule.walk]
  IN  /\ pc = "rules" /\ todo # <<>> /\ Rule.id \notin Alone
      /\ \/ /\ cached(key) /\ memo[key].walk = Rule.walk
            /\ Reported(Mine(memo[key].events))
            /\ UNCHANGED <<memo, ran, pc>>
         \/ /\ cached(key) /\ memo[key].walk # Rule.walk
            /\ pc' = "contract error"
            /\ UNCHANGED <<todo, memo, ran, occurrences>>
         \/ /\ ~cached(key)
            /\ memo' = [k \in DOMAIN memo \cup {key} |->
                        IF k = key THEN [walk |-> Rule.walk, events |-> message.events[Rule.walk]] ELSE memo[k]]
            /\ ran' = Append(ran, Rule.walk)
            /\ Reported(Mine(message.events[Rule.walk]))
            /\ UNCHANGED pc
      /\ UNCHANGED <<message, name>>

CheckAlone ==
  /\ pc = "rules" /\ todo # <<>> /\ Rule.id \in Alone
  /\ Reported(CASE Rule.id = "E011" -> E011 [] Rule.id = "E015" -> E015 [] OTHER -> W005)
  /\ UNCHANGED <<message, name, memo, ran, pc>>

Next == Check \/ CheckAlone

Spec == Init /\ [][Next]_vars

-----------------------------------------------------------------------------
Done == pc = "rules" /\ todo = <<>>

\* Every variable holds what the code could hold there.
TypeOK ==
  /\ pc \in {"rules", "contract error"}
  /\ \A key \in DOMAIN memo : memo[key].walk \in Walks
  /\ Range(ran) \subseteq Walks
  /\ \A k \in DOMAIN occurrences : occurrences[k].rule \in {r.id : r \in Shared} \cup Alone

\* Whatever order the registry has, each event a walk yields is reported once,
\* by one rule, which is none of another walk's, and in the order it was
\* yielded: forty-five modules with four lines each leave none of them out and
\* report none of them twice (walks.py, events_for).
EachEventHasOneRule ==
  Done =>
    \A walk \in Walks : \A k \in DOMAIN message.events[walk] :
      LET event    == message.events[walk][k]
          Told     == {o \in DOMAIN occurrences : Contains(occurrences[o].found, event)}
      IN  /\ \E o \in Told : Told = {o}
          /\ \A o \in Told :
               /\ occurrences[o].rule = event.id
               /\ occurrences[o].found = Picked(message.events[walk], {l \in DOMAIN message.events[walk] : message.events[walk][l].id = event.id})

\* A walk runs once in a message's context, however many of its rules ask and
\* even when it saw nothing; and two walks of one name end the run rather than
\* answer for each other (walk_events, "running its body at most once").
EachWalkRunsOnce ==
  /\ IsInjective(ran)
  /\ Done => {occurrences[o].rule : o \in DOMAIN occurrences} \cap {r.id : r \in Shared}
               \subseteq {r.id : r \in {q \in Shared : q.walk \in Range(ran)}}
  /\ Done => \A v, w \in Range(ran) : name[v] = name[w] => v = w
=============================================================================
