------------------------------- MODULE Runner -------------------------------
(***************************************************************************)
(* The validation loop: runner/run.py over runner/acquire.py,              *)
(* runner/dedupe.py, runner/clock.py and runner/equal_message.py.          *)
(*                                                                         *)
(* A run reads cycles, one source per role in each.  Every source is read, *)
(* compared with its role's duplicate basis, given a clock and decoded;    *)
(* the messages that decoded are then validated one after another, each    *)
(* handed to the sink and only then recorded.  The program is sequential:  *)
(* what the steps below interleave with is the file system, which may      *)
(* refuse a read, lose a file between its read and its stat, and refuse a  *)
(* write.  Only the two errors acquire catches are survived; any other     *)
(* exception and the equal-message abort end the run where it stands.      *)
(***************************************************************************)
EXTENDS Notices, FiniteSets

CONSTANTS
  Roles,                \* the feed roles of this run, some of ROLE_ORDER
  CycleShapes,          \* the role sequences a cycle may have
  MaxCycles,            \* bound: how many cycles a run reads
  Payloads,             \* byte strings; md5 is taken to tell them apart
  Messages,             \* decoded messages, equal when equal_messages says so
  Decoded,              \* Decoded[p]: the message in p, or the decode error code
  None,                 \* Python's None
  Mode,                 \* "compat" or "modern"
  AbortRequested,       \* the request's abort_on_equal_message
  DirectoryReplay,      \* the inputs came from a directory walk
  AtFixed,              \* modern's --at pins the clock
  SortByName,           \* SortBy.NAME rather than DATE_MODIFIED
  HasSink,              \* the caller passed a sink
  Fetched,              \* the roles whose source is a URL and not a file
  Findings(_, _, _, _), \* what the registry returns for message, previous, cycle, combined
  GateErrors            \* what the gate may already have recorded

VARIABLES
  pc,                   \* where the loop stands, or how it ended
  cycle,                \* cycles begun
  pending,              \* sources of this cycle not yet read
  source,               \* the role being acquired, or None
  data,                 \* its bytes, or None
  decoded,              \* this cycle's messages not yet recorded, in cycle order
  view,                 \* cycle_view: role to message, or None
  container,            \* the notices of the message being validated
  todo,                 \* findings not yet collected
  notices,              \* _Run.notices, the run's aggregate
  system_errors,        \* config.system_errors
  basis,                \* _Run.filters: each role's duplicate basis
  previous,             \* _Run.previous: each role's previous message
  inputs, roles, skipped, validated,   \* the rest of _Run
  written,              \* history: what the sink took, in order
  results,              \* history: per role, every validation recorded
  reports               \* history: every recorded validation, in run order

loopVars  == <<pc, cycle, pending, source, data, decoded, view>>
walkVars  == <<container, todo>>
basisVars == <<basis, previous>>
tallyVars == <<inputs, roles, skipped, validated>>
histVars  == <<results, reports>>
vars == <<loopVars, walkVars, notices, system_errors, basisVars, tallyVars,
          written, histVars>>

-----------------------------------------------------------------------------
ROLE_ORDER == <<"tu", "vp", "sa", "rt">>

UNREADABLE_FILE        == "unreadable_file_error"
DECODE_FAILURE         == "feed_decode_error"
MISSING_REQUIRED_FIELD == "missing_required_field_error"
UNPARSABLE_FILE_NAME_TIMESTAMP == "unparsable_file_name_timestamp_error"

DecodeErrors == {DECODE_FAILURE, MISSING_REQUIRED_FIELD}
SystemErrorCode == DecodeErrors \cup {UNREADABLE_FILE, UNPARSABLE_FILE_NAME_TIMESTAMP}

Names == (1..MaxCycles) \X Roles

\* ROLE_ORDER position.  A role nobody declared sorts after these; no run of
\* this model has one.
role_key(role) == CHOOSE i \in DOMAIN ROLE_ORDER : ROLE_ORDER[i] = role

Views == UNION {[rs -> Messages] : rs \in (SUBSET Roles) \ {{}}}

ASSUME RunAssumption ==
  /\ Roles # {} /\ Roles \subseteq {ROLE_ORDER[i] : i \in DOMAIN ROLE_ORDER}
  /\ CycleShapes \subseteq Seq(Roles)
  /\ MaxCycles \in Nat
  /\ Mode \in {"compat", "modern"}
  /\ {AbortRequested, DirectoryReplay, AtFixed, SortByName, HasSink} \subseteq BOOLEAN
  /\ Fetched \subseteq Roles
  /\ Mode = "compat" \/ DirectoryReplay => Fetched = {}

\* role_cycle and resolve_roles list a cycle's sources in ROLE_ORDER, one each.
ASSUME CyclesAreOrdered ==
  \A shape \in CycleShapes : \A i, j \in DOMAIN shape :
    i < j => role_key(shape[i]) < role_key(shape[j])

ASSUME DataAssumption ==
  /\ Decoded \in [Payloads -> Messages \cup DecodeErrors]
  /\ Messages \cap DecodeErrors = {}
  /\ None \notin Payloads \cup Messages \cup Roles \cup Views
  /\ SystemErrorCode \subseteq Rules
  /\ [rule_id : Rules, source : Names] \subseteq Occurrences
  /\ GateErrors \subseteq Container

\* A finding: its rule, and the role whose file it names if it names one.
Finding == [rule_id : Rules, names : Roles \cup {None}]

ASSUME FindingsAreTyped ==
  \A m \in Messages, w \in Messages \cup {None}, v \in Views, c \in Views \cup {None} :
    Findings(m, w, v, c) \in Seq(Finding)

\* sys.maxsize is more than one message's rules ever find.
ASSUME FindingsAreFewerThanUnlimited ==
  \A m \in Messages, w \in Messages \cup {None}, v \in Views, c \in Views \cup {None} :
    Len(Findings(m, w, v, c)) <= Unlimited

-----------------------------------------------------------------------------
\* A mistake: the host is the first role of the run, decoded or not.
first_declared_role(rs) ==
  CHOOSE r \in Roles : \A s \in Roles : role_key(r) <= role_key(s)

\* The first role present in a cycle reports its cross-feed findings.
host_role(rs) == CHOOSE r \in rs : \A s \in rs : role_key(r) <= role_key(s)

\* Decided once by config.py; the loop never asks for the mode.
abort_on_equal_message == AbortRequested /\ Mode = "compat"

\* A mistake: nothing is ever suppressed.
never_duplicate(role, digest) == FALSE

is_duplicate(role, digest) == basis[role] # None /\ digest = basis[role]

\* A mistake: the basis moves when bytes are read rather than recorded.
marks_nothing(role, digest) == UNCHANGED basis

mark_written(role, digest) == basis' = [basis EXCEPT ![role] = digest]

\* A mistake: modern's caps under compat.
always_capped_container == DefaultContainer

message_container ==
  IF Mode = "compat" THEN UncappedContainer ELSE DefaultContainer

\* A mistake: one container for the whole run.
keep_the_last_container == container

fresh_container == message_container

system_error(code, role) ==
  system_errors' = add(system_errors, [rule_id |-> code, source |-> <<cycle, role>>])

\* The clock is a file's only under compat or a replay that --at does not pin.
ReadsFileClock == Mode = "compat" \/ (DirectoryReplay /\ ~AtFixed)

\* A finding names its own file, or is stamped with the file it was found in.
stamped(found, role) ==
  [rule_id |-> found.rule_id,
   source  |-> <<cycle, IF found.names = None THEN role ELSE found.names>>]

-----------------------------------------------------------------------------
Init ==
  /\ pc = "cycle"
  /\ cycle = 0
  /\ pending = <<>>
  /\ source = None
  /\ data = None
  /\ decoded = <<>>
  /\ view = None
  /\ container = DefaultContainer
  /\ todo = <<>>
  /\ notices = DefaultContainer
  /\ \E found \in GateErrors : system_errors = merge(DefaultContainer, found)
  /\ basis = [r \in Roles |-> None]
  /\ previous = [r \in Roles |-> None]
  /\ inputs = <<>>
  /\ roles = [r \in Roles |-> None]
  /\ skipped = 0
  /\ validated = 0
  /\ written = <<>>
  /\ results = [r \in Roles |-> <<>>]
  /\ reports = <<>>

\* for cycle in cycles
BeginCycle ==
  /\ pc = "cycle"
  /\ cycle < MaxCycles
  /\ \E shape \in CycleShapes : pending' = shape
  /\ cycle' = cycle + 1
  /\ decoded' = <<>>
  /\ view' = None
  /\ pc' = "acquire"
  /\ UNCHANGED <<source, data, walkVars, notices, system_errors, basisVars,
                 tallyVars, written, histVars>>

EndOfInputs ==
  /\ pc = "cycle"
  /\ pc' = "done"
  /\ UNCHANGED <<cycle, pending, source, data, decoded, view, walkVars, notices,
                 system_errors, basisVars, tallyVars, written, histVars>>

\* Every source is listed, whatever becomes of it.
Announce(role) ==
  /\ pc = "acquire"
  /\ pending # <<>> /\ role = Head(pending)
  /\ pending' = Tail(pending)
  /\ inputs' = Append(inputs, <<cycle, role>>)
  /\ roles' = [roles EXCEPT ![role] = IF @ = None THEN <<cycle, role>> ELSE @]
  /\ UNCHANGED <<cycle, decoded, view, walkVars, notices, basisVars, validated,
                 written, histVars>>

\* A mistake: a source that produced nothing is not counted.
forget_the_skip == UNCHANGED skipped

skip == skipped' = skipped + 1

\* read() raised OSError: a system error, and the file is skipped.
Unreadable(role) ==
  /\ Announce(role)
  /\ system_error(UNREADABLE_FILE, role)
  /\ skip
  /\ UNCHANGED <<pc, source, data>>

\* A fetch raised what is not an OSError, a truncated body for one: not caught.
FetchRaises(role) ==
  /\ Announce(role)
  /\ role \in Fetched
  /\ source' = role
  /\ pc' = "fetch raised"
  /\ UNCHANGED <<data, skipped, system_errors>>

\* The bytes of the last payload recorded for this role: skipped in silence.
Suppress(role, payload) ==
  /\ Announce(role)
  /\ is_duplicate(role, payload)
  /\ skip
  /\ UNCHANGED <<pc, source, data, system_errors>>

Read(role, payload) ==
  /\ Announce(role)
  /\ ~is_duplicate(role, payload)
  /\ source' = role
  /\ data' = payload
  /\ pc' = "clock"
  /\ UNCHANGED <<skipped, system_errors>>

\* The clock costs no system call, or one stat that answers.
TakeClock ==
  /\ pc = "clock"
  /\ pc' = "decode"
  /\ UNCHANGED <<cycle, pending, source, data, decoded, view, walkVars, notices,
                 system_errors, basisVars, tallyVars, written, histVars>>

\* -sort name and a name with no instant in it: the modification time stands in.
FallBackToModificationTime ==
  /\ pc = "clock"
  /\ ReadsFileClock /\ SortByName
  /\ system_error(UNPARSABLE_FILE_NAME_TIMESTAMP, source)
  /\ pc' = "decode"
  /\ UNCHANGED <<cycle, pending, source, data, decoded, view, walkVars, notices,
                 basisVars, tallyVars, written, histVars>>

\* stat() of a file that went away since it was read: nothing catches that.
StatFails ==
  /\ pc = "clock"
  /\ ReadsFileClock
  /\ pc' = "stat failed"
  /\ UNCHANGED <<cycle, pending, source, data, decoded, view, walkVars, notices,
                 system_errors, basisVars, tallyVars, written, histVars>>

\* A mistake: bytes that do not decode are skipped without a word.
no_system_error(code, role) == UNCHANGED system_errors

decode_error(code, role) == system_error(code, role)

DecodeFails ==
  /\ pc = "decode"
  /\ Decoded[data] \in DecodeErrors
  /\ decode_error(Decoded[data], source)
  /\ skip
  /\ pc' = "acquire"
  /\ source' = None
  /\ data' = None
  /\ UNCHANGED <<cycle, pending, decoded, view, walkVars, notices, basisVars,
                 inputs, roles, validated, written, histVars>>

Decode ==
  /\ pc = "decode"
  /\ Decoded[data] \in Messages
  /\ decoded' = Append(decoded, [role |-> source, digest |-> data,
                                 message |-> Decoded[data]])
  /\ pc' = "acquire"
  /\ source' = None
  /\ data' = None
  /\ UNCHANGED <<cycle, pending, view, walkVars, notices, system_errors, basisVars,
                 tallyVars, written, histVars>>

-----------------------------------------------------------------------------
RolesOf(ones) == {ones[i].role : i \in DOMAIN ones}

view_of(ones) ==
  [r \in RolesOf(ones) |->
     ones[CHOOSE i \in DOMAIN ones : ones[i].role = r].message]

\* A mistake: a cycle with nothing decoded is looked at again.
cycle_not_left ==
  /\ pc = "acquire"
  /\ pending = <<>> /\ decoded = <<>>
  /\ UNCHANGED vars

\* Nothing decoded: on to the next cycle.
AbandonCycle ==
  /\ pc = "acquire"
  /\ pending = <<>> /\ decoded = <<>>
  /\ pc' = "cycle"
  /\ UNCHANGED <<cycle, pending, source, data, decoded, view, walkVars, notices,
                 system_errors, basisVars, tallyVars, written, histVars>>

Combine ==
  /\ pc = "acquire"
  /\ pending = <<>> /\ decoded # <<>>
  /\ view' = view_of(decoded)
  /\ pc' = "validate"
  /\ UNCHANGED <<cycle, pending, source, data, decoded, walkVars, notices,
                 system_errors, basisVars, tallyVars, written, histVars>>

one == Head(decoded)

\* The cycle, but only on the message that reports for it.
combined(role) == IF role = host_role(DOMAIN view) THEN view ELSE None

\* A mistake: whatever was recorded last, of any role.
previous_of_any_role(role) ==
  IF reports = <<>> THEN None ELSE reports[Len(reports)].message

was(role) == previous[role]

\* A mistake: the guard compares the bytes again.
same_bytes(role) == one.digest = basis[role]

\* equal_messages on this message and the role's previous one, if there is one.
equals_previous(role) == was(role) # None /\ one.message = was(role)

\* guard_equal_message, before any rule runs and before anything is written.
AbortOnEqualMessage ==
  /\ pc = "validate"
  /\ abort_on_equal_message
  /\ equals_previous(one.role)
  /\ pc' = "equal message"
  /\ UNCHANGED <<cycle, pending, source, data, decoded, view, walkVars, notices,
                 system_errors, basisVars, tallyVars, written, histVars>>

Validate ==
  /\ pc = "validate"
  /\ ~(abort_on_equal_message /\ equals_previous(one.role))
  /\ container' = fresh_container
  /\ todo' = Findings(one.message, was(one.role), view, combined(one.role))
  /\ pc' = "walk"
  /\ UNCHANGED <<cycle, pending, source, data, decoded, view, notices,
                 system_errors, basisVars, tallyVars, written, histVars>>

\* Each occurrence reaches the container before the next is pulled.
Collect ==
  /\ pc = "walk"
  /\ todo # <<>>
  /\ container' = add(container, stamped(Head(todo), one.role))
  /\ todo' = Tail(todo)
  /\ UNCHANGED <<loopVars, notices, system_errors, basisVars, tallyVars,
                 written, histVars>>

\* sink(result), or nothing when there is no sink.
Deliver ==
  /\ pc = "walk"
  /\ todo = <<>>
  /\ written' = IF HasSink THEN Append(written, <<cycle, one.role>>) ELSE written
  /\ pc' = "record"
  /\ UNCHANGED <<cycle, pending, source, data, decoded, view, walkVars, notices,
                 system_errors, basisVars, tallyVars, histVars>>

\* A mistake: recording first, so a write that fails has already moved the basis.
basis_already_moved == mark_written(one.role, one.digest) /\ UNCHANGED previous

nothing_recorded == UNCHANGED basisVars

\* The sink raised: an OSError from writing the results file, not caught here.
SinkFails ==
  /\ pc = "walk"
  /\ todo = <<>>
  /\ HasSink
  /\ pc' = "write failed"
  /\ nothing_recorded
  /\ UNCHANGED <<cycle, pending, source, data, decoded, view, walkVars, notices,
                 system_errors, tallyVars, written, histVars>>

\* _Run.record: the aggregate, the previous message, and the basis last.
Record ==
  /\ pc = "record"
  /\ notices' = merge(notices, container)
  /\ previous' = [previous EXCEPT ![one.role] = one.message]
  /\ validated' = validated + 1
  /\ mark_written(one.role, one.digest)
  /\ results' = [results EXCEPT ![one.role] =
                   Append(@, [digest |-> one.digest, message |-> one.message,
                              was |-> was(one.role)])]
  /\ reports' = Append(reports, [name |-> <<cycle, one.role>>, message |-> one.message,
                                 was |-> was(one.role), cycle |-> view,
                                 combined |-> combined(one.role)])
  /\ decoded' = Tail(decoded)
  /\ pc' = IF Tail(decoded) = <<>> THEN "cycle" ELSE "validate"
  /\ UNCHANGED <<cycle, pending, source, data, view, walkVars, system_errors,
                 inputs, roles, skipped, written>>

Acquire ==
  \E role \in Roles :
    \/ Unreadable(role) \/ FetchRaises(role)
    \/ \E payload \in Payloads : Suppress(role, payload) \/ Read(role, payload)

Next ==
  \/ BeginCycle \/ EndOfInputs
  \/ Acquire
  \/ TakeClock \/ FallBackToModificationTime \/ StatFails
  \/ DecodeFails \/ Decode
  \/ AbandonCycle \/ Combine
  \/ AbortOnEqualMessage \/ Validate \/ Collect
  \/ Deliver \/ SinkFails \/ Record

\* One thread runs the loop and never blocks: a step that can be taken is taken.
Spec == Init /\ [][Next]_vars /\ WF_vars(Next)

-----------------------------------------------------------------------------
Result == [digest : Payloads, message : Messages, was : Messages \cup {None}]

Report == [name     : Names,
           message  : Messages,
           was      : Messages \cup {None},
           cycle    : Views,
           combined : Views \cup {None}]

Ended == {"done", "fetch raised", "stat failed", "write failed", "equal message"}

\* Every variable holds what the code could hold there.
TypeOK ==
  /\ pc \in Ended \cup {"cycle", "acquire", "clock", "decode", "validate", "walk",
                        "record"}
  /\ cycle \in 0..MaxCycles
  /\ pending \in Seq(Roles)
  /\ source \in Roles \cup {None}
  /\ data \in Payloads \cup {None}
  /\ decoded \in Seq([role : Roles, digest : Payloads, message : Messages])
  /\ view \in Views \cup {None}
  /\ container \in Container
  /\ todo \in Seq(Finding)
  /\ notices \in Container
  /\ system_errors \in Container
  /\ basis \in [Roles -> Payloads \cup {None}]
  /\ previous \in [Roles -> Messages \cup {None}]
  /\ inputs \in Seq(Names)
  /\ roles \in [Roles -> Names \cup {None}]
  /\ skipped \in Nat
  /\ validated \in Nat
  /\ written \in Seq(Names)
  /\ results \in [Roles -> Seq(Result)]
  /\ reports \in Seq(Report)

InFlight == Len(decoded) + (IF source = None THEN 0 ELSE 1)

\* gtfsRealtimeInputs, filesSkipped and messagesValidated agree at every step:
\* an input is skipped, validated or still being worked on, and a run that
\* finishes leaves none behind (run.py: inputs.append, skipped, record).
EveryInputIsAccountedFor ==
  /\ Len(inputs) = skipped + validated + InFlight
  /\ pc = "done" => InFlight = 0

\* The comparison basis is the last payload RECORDED for the role and the
\* previous message is the one decoded from it: a file that was skipped, could
\* not be decoded or whose write failed moves neither (dedupe.py's docstring).
BasisIsTheLastRecorded ==
  \A r \in Roles :
    IF results[r] = <<>>
    THEN basis[r] = None /\ previous[r] = None
    ELSE /\ basis[r] = results[r][Len(results[r])].digest
         /\ previous[r] = results[r][Len(results[r])].message

\* No role is validated twice running on the same bytes, nor, when the run
\* reproduces upstream's abort, on equal messages in different bytes.
NothingRepeated ==
  \A r \in Roles : \A i \in 2..Len(results[r]) :
    /\ results[r][i].digest # results[r][i-1].digest
    /\ abort_on_equal_message => results[r][i].message # results[r][i-1].message

\* A rule's previous message is the one this role validated before, never what
\* another role's message happened to precede it (context.py, decision 2).
PreviousIsPerRole ==
  \A r \in Roles : \A i \in DOMAIN results[r] :
    results[r][i].was = IF i = 1 THEN None ELSE results[r][i-1].message

\* The abort is never reached on the same bytes: the MD5 skip runs first, so
\* what aborts is another encoding of the message before (equal_message.py).
AbortIsAReencoding ==
  pc = "equal message" =>
    /\ one.digest # basis[one.role]
    /\ one.message = previous[one.role]

\* With a sink, a basis never moves for a source the sink has not taken, which
\* is what run's docstring claims of the order sink, record.
BasisMovesAfterTheWrite ==
  [][\A r \in Roles : HasSink /\ basis'[r] # basis[r] =>
       \E i \in DOMAIN written : written[i] = <<cycle, r>>]_vars

ReportsOf(c) == {i \in DOMAIN reports : reports[i].name[1] = c}

\* A finished cycle in which anything decoded reports its cross-feed findings
\* exactly once, and every rule of that cycle looked at exactly the messages it
\* validated: no role is carried forward from an earlier cycle, and no guest
\* reports a second time (context.py, "Named feed roles").
CrossFeedOncePerCycle ==
  \A c \in 1..cycle :
    (c < cycle \/ pc \in {"cycle", "done"}) /\ ReportsOf(c) # {} =>
      /\ \E i \in ReportsOf(c) : \A j \in ReportsOf(c) :
           reports[j].combined # None <=> i = j
      /\ \A i \in ReportsOf(c) :
           /\ DOMAIN reports[i].cycle = {reports[j].name[2] : j \in ReportsOf(c)}
           /\ \A j \in ReportsOf(c) :
                reports[i].cycle[reports[j].name[2]] = reports[j].message

\* A compat run drops nothing: upstream has no cap, so a cap here would be a
\* silent divergence (run.py, _message_container).
CompatDropsNothing ==
  Mode = "compat" => \A r \in Rules : dropped_for(notices, r) = 0

\* A compat run's state is well formed and its containers hold every finding.
CompatHolds == TypeOK /\ CompatDropsNothing

FindingsIn(report, r) ==
  Len(OfRule(Findings(report.message, report.was, report.cycle, report.combined), r))

\* The findings of a rule over a run's reports.
FoundIn(run, r) ==
  LET found[i \in 0..Len(run)] ==
        IF i = 0 THEN 0 ELSE found[i-1] + FindingsIn(run[i], r)
  IN  found[Len(run)]

\* The totals a report prints are every finding of every validated message,
\* whatever the caps kept (occurrence.py: "the exported total is the true
\* count").
TotalsAreTrue == \A r \in Rules : notices.counts[r] = FoundIn(reports, r)

\* What a run of several roles reports is what its rules saw: cross-feed findings
\* once per cycle, and every finding in the totals.
ReportsHold == CrossFeedOncePerCycle /\ TotalsAreTrue

\* What the registry found for the message being validated, and as much of it as
\* its container has been handed.
Found == Findings(one.message, was(one.role), view, combined(one.role))
Walked == [k \in 1..Len(Found) - Len(todo) |-> stamped(Found[k], one.role)]

\* A message's container counts what was found for that message so far and holds,
\* of each rule, the first of it: nothing an earlier message left, of this cycle
\* or of one before (MessageResult's docstring).  The per-file writer serialises
\* it whole.
OwnFindingsOnly ==
  pc \in {"walk", "record"} =>
    \A r \in Rules :
      LET kept  == Of(container, r)
          found == OfRule(Walked, r)
      IN  /\ container.counts[r] = Len(found)
          /\ Len(kept) <= Len(found)
          /\ \A k \in DOMAIN kept : kept[k] = found[k]

\* A source skipped without a system error is a duplicate of something: before
\* a role has validated anything, every skip says why (acquire.py, api.py).
SilentSkipNeedsABasis ==
  [][skipped' # skipped /\ system_errors' = system_errors =>
       basis[IF source = None THEN Head(pending) ELSE source] # None]_vars

\* The loop cannot go round without reading: every run ends, one way or another.
RunEnds == <>(pc \in Ended)

\* Seen from one role, a run of many roles, cycles, failures and duplicates is
\* the single-feed loop over the payloads that role offered.
Feed(r) == INSTANCE BatchLoop WITH
             AbortsOnEqual   <- abort_on_equal_message,
             prevHash        <- basis[r],
             previousMessage <- previous[r],
             results         <- results[r]

EachRoleIsABatchLoop ==
  /\ \A r \in Roles : Feed(r)!Init
  /\ [][\A r \in Roles : Feed(r)!Next \/ UNCHANGED Feed(r)!batchVars]_vars

\* api.py's exception model: a CompatAbort aborts the call, and like the other
\* errors of its inputs it writes nothing ("none of them writes anything").
CompatAbortWritesNothing ==
  pc = "equal message" => written = <<>>

=============================================================================
