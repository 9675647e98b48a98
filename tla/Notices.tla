------------------------------ MODULE Notices ------------------------------
(***************************************************************************)
(* The value a NoticeContainer holds (report/occurrence.py) and what each  *)
(* of its methods makes of it.                                             *)
(*                                                                         *)
(* An occurrence is a record with a rule_id; the rest of it (prefix,       *)
(* context) is carried and never looked at, so a user of this module gives *)
(* it whatever further fields its properties need.  A container is a       *)
(* record: the two caps it was built with, the occurrences it retained in  *)
(* insertion order, and per rule the number counted and the number         *)
(* retained.  The dicts of the code, which answer 0 for an absent key, are *)
(* total functions here.                                                   *)
(***************************************************************************)
EXTENDS Integers, Sequences

CONSTANTS
  Rules,                     \* every id an occurrence can carry
  Occurrences,               \* every occurrence, each with a rule_id in Rules
  MAX_TOTAL_OCCURRENCES,     \* the default caps of a container
  MAX_OCCURRENCES_PER_RULE,
  MAX_EXPORTS_PER_RULE,
  Unlimited                  \* sys.maxsize: more than any run ever adds

ASSUME OccurrencesHaveRules == \A o \in Occurrences : o.rule_id \in Rules

ASSUME CapsAreNatural ==
  /\ MAX_TOTAL_OCCURRENCES \in Nat
  /\ MAX_OCCURRENCES_PER_RULE \in Nat
  /\ MAX_EXPORTS_PER_RULE \in Nat
  /\ Unlimited \in Nat

Container ==
  [max_total    : Nat,
   max_per_rule : Nat,
   occurrences  : Seq(Occurrences),
   counts       : [Rules -> Nat],
   retained     : [Rules -> Nat]]

\* NoticeContainer(max_total, max_per_rule)
NewContainer(max_total, max_per_rule) ==
  [max_total    |-> max_total,
   max_per_rule |-> max_per_rule,
   occurrences  |-> <<>>,
   counts       |-> [r \in Rules |-> 0],
   retained     |-> [r \in Rules |-> 0]]

DefaultContainer ==
  NewContainer(MAX_TOTAL_OCCURRENCES, MAX_OCCURRENCES_PER_RULE)

UncappedContainer == NewContainer(Unlimited, Unlimited)

-----------------------------------------------------------------------------

\* A mistake that lets one occurrence too many in: the cap compared with the
\* count as it was before this occurrence moved it.
HasRoomForOneMore(c, o) ==
  /\ Len(c.occurrences) < c.max_total
  /\ c.counts[o.rule_id] <= c.max_per_rule

\* A mistake that drops an occurrence the rule's cap has room for.
HasRoomForOneLess(c, o) ==
  /\ Len(c.occurrences) < c.max_total
  /\ c.counts[o.rule_id] + 1 < c.max_per_rule

\* The count moves before the caps are consulted, and the per-rule cap is
\* compared with the count, not with the number retained.
HasRoomFor(c, o) ==
  /\ Len(c.occurrences) < c.max_total
  /\ c.counts[o.rule_id] + 1 <= c.max_per_rule

\* One more for a rule, in a count kept per rule.
plus(per_rule, rule, n) == [per_rule EXCEPT ![rule] = @ + n]

\* Two such counts, rule by rule.
summed(one, other) == [r \in Rules |-> one[r] + other[r]]

\* A mistake that forgets that a dropped occurrence is still counted.
add_retained_only(c, o) ==
  IF HasRoomFor(c, o)
  THEN [c EXCEPT !.occurrences = Append(@, o),
                 !.counts      = plus(@, o.rule_id, 1),
                 !.retained    = plus(@, o.rule_id, 1)]
  ELSE c

add(c, o) ==
  IF HasRoomFor(c, o)
  THEN [c EXCEPT !.occurrences = Append(@, o),
                 !.counts      = plus(@, o.rule_id, 1),
                 !.retained    = plus(@, o.rule_id, 1)]
  ELSE [c EXCEPT !.counts      = plus(@, o.rule_id, 1)]

\* add's bookkeeping for n occurrences the caller never carried.
observe_dropped(c, rule, n) == [c EXCEPT !.counts = plus(@, rule, n)]

\* A mistake that puts the absorbed occurrences first.
merge_in_front(c, d) ==
  [c EXCEPT !.occurrences = d.occurrences \o @,
            !.counts      = summed(@, d.counts),
            !.retained    = summed(@, d.retained)]

\* The counts are summed and the caps are not applied again.
merge(c, d) ==
  [c EXCEPT !.occurrences = @ \o d.occurrences,
            !.counts      = summed(@, d.counts),
            !.retained    = summed(@, d.retained)]

-----------------------------------------------------------------------------

dropped_for(c, rule) == c.counts[rule] - c.retained[rule]

\* What a list has of a rule, in the list's order: of occurrences or of findings.
OfRule(list, rule) ==
  LET kept[i \in 0..Len(list)] ==
        IF i = 0 THEN <<>>
        ELSE IF list[i].rule_id = rule THEN Append(kept[i-1], list[i]) ELSE kept[i-1]
  IN  kept[Len(list)]

Of(c, rule) == OfRule(c.occurrences, rule)

\* The first few retained occurrences of a rule: what a report prints.
samples_for(c, rule) ==
  SubSeq(Of(c, rule), 1, IF Len(Of(c, rule)) < MAX_EXPORTS_PER_RULE
                         THEN Len(Of(c, rule)) ELSE MAX_EXPORTS_PER_RULE)

=============================================================================
