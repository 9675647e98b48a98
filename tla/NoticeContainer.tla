--------------------------- MODULE NoticeContainer ---------------------------
(***************************************************************************)
(* Several NoticeContainers (report/occurrence.py) used the way the runner *)
(* and its gate use them: occurrences are added one at a time, some are    *)
(* only counted, and one container is merged into another.                 *)
(*                                                                         *)
(* Beside each container goes what it was told, in order: the occurrences  *)
(* it was offered whether it kept them or not, and how many more of each   *)
(* rule it was told of without seeing them.  The properties compare what a *)
(* container answers with that.                                            *)
(***************************************************************************)
EXTENDS Notices

LOCAL INSTANCE SequencesExt

CONSTANTS
  Boxes,              \* the containers of this run
  Caps,               \* Caps[b]: the <<max_total, max_per_rule>> b was built with
  MaxSerial,          \* bound: how many occurrences are ever offered or counted
  MaxMerges           \* bound: how many merges

ASSUME BoxAssumption ==
  /\ Caps \in [Boxes -> Nat \X Nat]
  /\ MaxSerial \in Nat /\ MaxMerges \in Nat
  /\ [rule_id : Rules, serial : 1..MaxSerial] \subseteq Occurrences

VARIABLES
  box,                \* the containers
  serial,             \* bound: occurrences created so far
  offered,            \* history: every occurrence each box was offered, in order
  unseen,             \* history: per box and rule, those it was told of uncarried
  merges,             \* bound: merges so far
  merged              \* history: the boxes another one was merged into

vars == <<box, serial, offered, unseen, merges, merged>>

Init ==
  /\ box = [b \in Boxes |-> NewContainer(Caps[b][1], Caps[b][2])]
  /\ serial = 0
  /\ offered = [b \in Boxes |-> <<>>]
  /\ unseen = [b \in Boxes |-> [r \in Rules |-> 0]]
  /\ merges = 0
  /\ merged = {}

Add(b, r) ==
  /\ serial < MaxSerial
  /\ serial' = serial + 1
  /\ LET o == [rule_id |-> r, serial |-> serial']
     IN  /\ box' = [box EXCEPT ![b] = add(@, o)]
         /\ offered' = [offered EXCEPT ![b] = Append(@, o)]
  /\ UNCHANGED <<unseen, merges, merged>>

ObserveDropped(b, r, n) ==
  /\ serial + n <= MaxSerial
  /\ serial' = serial + n
  /\ box' = [box EXCEPT ![b] = observe_dropped(@, r, n)]
  /\ unseen' = [unseen EXCEPT ![b][r] = @ + n]
  /\ UNCHANGED <<offered, merges, merged>>

\* Each message's container goes into its run's aggregate, and the gate's into
\* the report of every request it serves; no container is merged into itself.
Merge(b, c) ==
  /\ b # c
  /\ merges < MaxMerges
  /\ merges' = merges + 1
  /\ box' = [box EXCEPT ![b] = merge(@, box[c])]
  /\ offered' = [offered EXCEPT ![b] = @ \o offered[c]]
  /\ unseen' = [unseen EXCEPT ![b] = [r \in Rules |-> @[r] + unseen[c][r]]]
  /\ merged' = merged \cup {b}
  /\ UNCHANGED serial

Next ==
  \/ \E b \in Boxes, r \in Rules : Add(b, r)
  \/ \E b \in Boxes, r \in Rules, n \in 1..2 : ObserveDropped(b, r, n)
  \/ \E b, c \in Boxes : Merge(b, c)

Spec == Init /\ [][Next]_vars

-----------------------------------------------------------------------------
TypeOK ==
  /\ box \in [Boxes -> Container]
  /\ serial \in 0..MaxSerial
  /\ offered \in [Boxes -> Seq(Occurrences)]
  /\ unseen \in [Boxes -> [Rules -> Nat]]
  /\ merges \in 0..MaxMerges
  /\ merged \subseteq Boxes

OfferedOf(b, r) == OfRule(offered[b], r)

\* The exported total is the true count: everything offered and everything only
\* counted, through any merge, whatever the caps dropped on the way in
\* (NoticeContainer's docstring and merge's).
CountsEverything ==
  \A b \in Boxes, r \in Rules :
    box[b].counts[r] = Len(OfferedOf(b, r)) + unseen[b][r]

\* retained_for is what the list really holds, so dropped_for is what capping
\* cost.
RetainedIsHeld ==
  \A b \in Boxes, r \in Rules : box[b].retained[r] = Len(Of(box[b], r))

\* The caps bound what a container holds until another is merged into it, which
\* does not apply them again.
CapsHoldUntilMerged ==
  \A b \in Boxes \ merged :
    /\ Len(box[b].occurrences) <= box[b].max_total
    /\ \A r \in Rules : box[b].retained[r] <= box[b].max_per_rule

\* An occurrence is lost to a full container or to a full rule and to nothing
\* else: while there is room, each rule keeps its first max_per_rule.
LostOnlyToACap ==
  \A b \in Boxes \ merged :
    Len(box[b].occurrences) < box[b].max_total =>
      \A r \in Rules :
        box[b].retained[r] >= (IF box[b].counts[r] < box[b].max_per_rule
                               THEN box[b].counts[r] ELSE box[b].max_per_rule)
                              - unseen[b][r]

\* What an unmerged container prints for a rule is the first of what it was
\* offered for it, in order: capping never leaves a hole in the middle.
SamplesAreTheFirst ==
  \A b \in Boxes \ merged, r \in Rules :
    /\ IsPrefix(samples_for(box[b], r), OfferedOf(b, r))
    /\ IsPrefix(Of(box[b], r), OfferedOf(b, r))

\* What a container answers is what it was told, whatever its caps and merges:
\* the totals, what is held of them, and the samples.
CountsHold == TypeOK /\ CountsEverything /\ RetainedIsHeld /\ SamplesAreTheFirst

\* Nothing a container has retained is ever dropped or moved: a sample printed
\* once is printed again by every later report of the same container.
RetainedStay ==
  [][\A b \in Boxes : IsPrefix(box[b].occurrences, box'[b].occurrences)]_vars

=============================================================================
