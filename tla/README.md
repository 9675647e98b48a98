# A verification of gtfs-rt-validator

This directory holds TLA+ models of `src/gtfs_rt_validator`, the TLC
configurations that check them on small instances, and TLAPS proofs of what
matters most about them. Paths below are relative to
`src/src/gtfs_rt_validator/` unless they begin with `src/`.

The program validates GTFS-realtime feeds (protocol buffers, one file or URL per
role: trip updates `tu`, vehicle positions `vp`, alerts `sa`, or all three in
`rt`) against a static GTFS archive. It has two modes. *compat* reproduces a
Java validator byte for byte, its faults included; *modern* adds rules, named
roles and one report per run. It is a single-threaded program: nothing in it
runs in parallel with anything else in it. Its difficulty is elsewhere: state
carried from one message to the next, failures in the middle of a long loop,
twelve rules reading one walk, caches keyed on addresses, and a second program
whose order of steps has to be reproduced exactly.

## 1. Inventory

| Component | State it keeps | Operations | What makes it correct |
|---|---|---|---|
| notice container, `report/occurrence.py` | two caps, retained occurrences, counts, retained per rule | `add`, `observe_dropped`, `merge`, `samples_for` | totals are true counts; caps bound what is kept and lose nothing else |
| validation loop, `runner/run.py`, `acquire.py`, `dedupe.py`, `sources.py` | `_Run`: inputs, skipped, validated, aggregate notices, per-role duplicate basis and previous message | read, suppress, clock, decode, combine, guard, validate, sink, record | state is per role and moves only when a result is recorded; every input is accounted for |
| equal-message guard, `runner/equal_message.py` | none (reads the previous message) | `guard_equal_message`, `equal_messages` | aborts on a re-encoding, only under compat, only when asked |
| rule context, `runner/context.py` | one message, its previous, its cycle, its memo | `host_role`, `collect`, stamping | one role reports for a cycle; findings name their own file |
| clock, `runner/clock.py` | none | per-file or pinned instant | which readings touch the file and can fail |
| gate and configuration, `runner/gate.py`, `config.py`, `mode.py` | `PreparedFeed`, seeded system errors | refuse, prepare, reuse | the mode is decided once; a prepared feed is only reused as it was prepared |
| memo, `rules/_shared/memo.py`, `walks.py` | `ctx.memo` | `memoised`, `walk_events`, `polyline` | a structure is built once and never answers for another object |
| stop_time_update walk, `rules/_shared/walk_stop_time_updates.py` | `_Scan`, lists for E002, previous values, E009 flag | one generator over two nested lists | one pass over both; E051 and its break; the verdict on the order |
| timestamp walk, `rules/_shared/walk_timestamp*.py`, `timestamp_pass.py` | previous arrival and departure, previous message | one generator | what is compared with what when fields are missing |
| trip descriptor walk, `rules/_shared/walk_trip_descriptor.py` | W009's feed-wide list | one generator | what one trip's finding hides from the next |
| relationships, times and instances, `schedule_relationship.py` and 26 rules | the previous message, for S021 | filters over resolved relationships | several sentences of the specification, each its own module, say one thing together |
| entities, alerts and shapes, `walk_entities.py`, `alert_index.py`, `polyline.py` | an index per cycle | one walk, joins by trip, a decoder of lines | a payload hides no other; a cycle's files are one feed |
| trip modifications, `walk_trip_modifications.py`, `feed_index.py`, `realtime_shapes.py` | an index of what a cycle defines | walk, joins by id | order and split over files decide nothing |
| translated strings, `walk_translations.py` | the closure over the schema | closure, pruned descent | pruning loses no site |
| vehicle walk, `walk_vehicle.py`, `p015.py` | ids seen so far | one generator, a nest of three checks | one finding per place, one bearer per id |
| boxes, `geometry/bbox.py`, `static/_tables` | two boxes and their wider ones | building, widening, membership | equal to spatial4j's on either side of the dateline |
| rules between two messages, `walk_sequence_ids.py`, `versions.py`, P001 to P005 | the previous message | comparisons | bands that meet; a move reported once |
| cross-feed rules, `crossfeed.py`, `javahash.py` | the gathered maps | one pass, joins by id, Java's order | silent exactly when the halves agree |
| upstream rules, `rules/upstream`, `walks.py` | the memo of a message | 48 rules over four walks, one line each, and three of their own | every event reported once, by its own rule |
| frequencies, `frequencies.py` | none | the search of E019 and P011 | the gate refuses exactly what the jar's loop could not leave |
| decoder, `proto/` | cursor | wire reader, descriptors, presence, encoder | a message, or one of two errors |
| registry, `rules/registry.py`, `report/manifest.py` | the table of rules | registration, discovery, selection, severity | the whole tree or no registry; compat's is the manifest's |
| static feed, `static/`, `runner/gate.py` | the context | two readers, the gate, the indexes | whole or refused, and what is absent is not empty |
| times and zones, `times.py`, `timeformats.py`, `zones.py`, `timestamp_text.py` | none | reading and printing clocks, dates, custom zone ids | equal to Java's |
| Java formatting, `javafmt.py`, `_floatingdecimal` | none | decimals as Java prints them | outside the models |
| reports, `report/`, `results.py` | files on disk | compat JSON, modern JSON, system errors | files are a prefix of the run; the report never trails its errors |
| API and command lines, `api.py`, `cli.py`, `cliargs.py`, `compatcli.py`, `inputs.py` | `PreparedFeed` of the caller | resolving roles, reuse, exit codes | a line is on one surface; a feed is used as it was prepared |
| replay, `dedupe.py`, `sources.py`, `clock.py` | the stat cache | listing, filtering, sorting, reading | no file is lost though the directory changes |
| schemas, `proto/schema_*.py`, `descriptor.py` | two tables | what the decoder and the rules ask of them | each is whole; the two are views of one message |
| conformance tooling, `src/tools` | none | comparison scripts | not part of the program |

**How they interact.** `api.py` builds the cycles and a configuration through the
gate, whose system errors seed the run's. `run()` pulls a cycle, acquires each
source, gives the decoded messages of the cycle to one `RuleContext` per
message, lets every rule of the registry yield into one notice container, hands
the result to the sink (a compat results file, or nothing) and only then records
it: aggregate, previous message, duplicate basis, in that order. Rules share
walks through the context's memo, so one pass over the feed serves a dozen of
them.

**What is hard.** (a) Failures: a read, a `stat`, a decode, a fetch and a write
can each fail for one file of many, and only two of the errors are caught.
(b) Order: duplicate filter, then decode, then equal-message guard, then rules,
then sink, then record; each exchange of two of these is a different program.
(c) State that outlives a message: the basis and previous message per role, and
nothing else. (d) State that outlives a row or an update inside a walk. (e)
Python's own memory: an address is a cache key. (f) Fixed-width integers of the
program that is reproduced. (g) The file system changes under a run. There is no
crash recovery: nothing is persisted but the output.

The `hazards` of `PROJECT.json` list these at their lines, with the properties
that cover each; none is left without one.

## 2. Modules

| Module | Models | Shape |
|---|---|---|
| `Notices` | the value of a `NoticeContainer` and what each method makes of it | operators |
| `NoticeContainer` | several containers under any sequence of calls | state machine |
| `BatchLoop` | the abstract promise for one feed role | abstract specification |
| `Runner` | `run()` with everything it calls, for any set of roles | state machine; `EXTENDS Notices`, instantiates `BatchLoop` once per role |
| `Memo` | `ctx.memo` over objects that live, die and share addresses | state machine |
| `StopTimeUpdateWalk` | one TripUpdate through the walk of twelve rules | state machine |
| `TimestampWalk` | the messages of one role through the walk of eleven rules | state machine |
| `TimeTexts` | the texts of times and dates, a character at a time | operators |
| `TripDescriptorWalk` | one message through the walk of fifteen rules | state machine over `TimeTexts` |
| `TripRules` | the rules on relationships, times and instances, over a message and its previous one | state machine |
| `EntityRules` | the entity walk, the index of alerts and their rules, over a cycle | state machine |
| `Polylines` | the decoder of encoded lines, a character at a time | state machine |
| `DetourRules` | trip modifications and what a cycle defines for itself | state machine |
| `Translations` | the closure over the schema, the walk it prunes, S031 to S036 | state machine, fair |
| `Rectangles` | boxes on a sphere | operators |
| `Extents` | the two boxes of a prepared feed | state machine over `Rectangles` |
| `VehicleWalk` | the pass over the vehicles, P015, the carriages | state machine over `Rectangles` |
| `Headways` | E019's search and the jar's loop, side by side | state machine, fair |
| `StaticFeed` | archive, reader, gate, context | state machine |
| `Requests` | a caller's feeds and requests, and what the writers leave on disk | state machine |
| `CommandLine` | one invocation, from its tokens to its exit code | state machine, fair |
| `Orders` | lists picked from lists, and a set in the order a key gives it | operators |
| `Registry` | registration, discovery and the registries of the modes | state machine over `Orders` |
| `ReplayDirectory` | listing, sorting and reading a directory that changes | state machine over `Orders` |
| `MessagePairs` | P001 to P005 and the header rules, over a stream of messages | state machine |
| `CrossFeed` | the pass over a cycle, W003, E047 and a HashMap's order | state machine |
| `UpstreamRules` | the registry's upstream rules over the walks they share | state machine |
| `ClockTexts` | custom time zone ids and the sentence of E050 | state machine over `TimeTexts` |
| `Schemas` | the two tables of messages, fields and enums | data and operators |
| `Wire` | bytes to messages and back, under any schema | state machine over `Schemas` |
| `MCParts` and the `MC*Data` modules | the modules from `TripDescriptorWalk` on, each over its own inputs, in one run | composition and constants |
| `NoticesProofs`, `NoticeContainerProofs`, `RunnerProofs`, `MemoProofs`, `StopTimeUpdateWalkProofs`, `TimestampWalkProofs` | the theorems of each | proofs |
| `ProgramProofs` | the theorems of `Orders`, `Requests`, `Registry`, `ReplayDirectory` and `UpstreamRules` | proofs |
| `RuleProofs` | the theorems of `Headways`, `MessagePairs`, `TripDescriptorWalk`, `VehicleWalk` and `Translations` | proofs |
| the other `MC*` | the small instances of the first five state machines | constants |

Each model keeps the names of the code. Beside several definitions stands a
second one introduced by "A mistake": what a plausible slip in that line would
have been. Nothing in a specification refers to those. They exist so that each
property can be shown to notice one: with the slip in place of the definition,
the same run finds the property violated (`mutants` in `PROJECT.json`).

### Notices and NoticeContainer

A container is a record: its caps, its retained occurrences in order, `counts`
and `retained`. `add` moves the count before it consults the caps and compares
the per-rule cap with the count and not with what was retained, as the code
does; `merge` sums and does not apply the caps again. Dicts that answer 0 for an
absent key are total functions. An occurrence is anything with a `rule_id`; the
rest of it is carried and never read. `in_order`, `rule_ids` and `grouped` only
read.

### Runner

`pc` is where the loop stands. One action per step that can fail or that another
can see:

| Action | Code |
|---|---|
| `BeginCycle`, `EndOfInputs` | the `for cycle in cycles` of `run` |
| `Unreadable`, `FetchRaises`, `Suppress`, `Read` | `acquire`'s read and duplicate filter |
| `TakeClock`, `FallBackToModificationTime`, `StatFails` | `clock.py` as `acquire` calls it |
| `Decode`, `DecodeFails` | the decoder's three outcomes |
| `AbandonCycle`, `Combine` | the cycle view once its sources are read |
| `AbortOnEqualMessage`, `Validate` | `guard_equal_message`, and the fresh context and container |
| `Collect` | `collect`: one occurrence, stamped, into the container before the next is pulled |
| `Deliver`, `SinkFails` | the sink, or none |
| `Record` | `_Run.record` |

What the registry's rules find is the constant operator
`Findings(message, previous, cycle, combined)`: everything a rule can see. The
ways a run ends are five values of `pc`: `done`, and four exceptions that
nothing catches. `results`, `reports` and `written` are histories.

Abstractions: MD5 tells payloads apart; two messages are equal when they are the
same model value; the instant a clock yields is left out, only whether it costs
a `stat` that can fail; a rule that breaks its own contract
(`RuleContractError`) is a bug of that rule and ends the run like any other.

### BatchLoop and the refinement

`BatchLoop` is what `dedupe.py` and `equal_message.py` say of one role: validate
a payload when it is not the last one validated, against the message of that
one, never when an abort is due. `Feed(r)` maps a role's `basis`, `previous` and
`results` onto it. Every step of `Runner` is, for every role, a step of
`BatchLoop` or nothing at all.

### Memo

Objects are numbered as they are allocated; an object has an address and a text.
`live` is what the reference counts keep: objects held outside, those under
construction, and those an entry of the memo holds. An address is free as soon
as nothing live is at it. `Hit`, `Refuse`, `Build` and `Finish` are the branches
of `memoised`; a walk's key carries no address. A body may ask for other
structures while it runs, so builds nest. A value is the triple of build, object
and context it was computed from, which is exactly what an answer can get wrong.

### StopTimeUpdateWalk

One TripUpdate, chosen in `Init` with the trip's rows. `NextUpdate` is the head
of the loop body (E009, E036, E037 and the lists), `MatchSequence`,
`MatchStopId`, `SkipRow` and `RowsExhausted` are the inner loop over
`stop_times.txt`, `Check` is its tail (E040, E042 to E044, E051 and the break)
and `Order` is E002. `int32` is the narrowing of a `uint32` to a Java `int`,
at a width given by `HalfWord`. A row's `stop_sequence` is taken to be an `int`
already, as the archive's typing makes it; an empty `stop_id` in an update is
left out; the E046 of an arrival and that of a departure are one event.

### TimestampWalk

`feed` is the sequence of messages the runner records for one role, so the
previous message is always the one directly before. Its walk is one generator:

| Action | Code |
|---|---|
| `Header` | `_header_events`: E048 or W001 alone, or E001, W008, E050 and `_against_previous` |
| `NextEntity`, `NoTripUpdate` | the loop of `timestamps` |
| `BeginTrip`, `StopTimeUpdate`, `EndTrip` | `_trip_update_events`, and `stop_time_update_events` with what it carries |
| `Vehicle` | `_vehicle_events` |
| `AlertBound`, `EndEntity` | `_alert_events` |
| `EndMessage` | `_Run.record`, which makes this message the next one's previous |

`int64` is the narrowing of a `uint64`, or of a difference, to a Java `long`, at
a width given by `HalfWord`; the time of a stop is an `int64` on the wire. A
`Stop` has the arrival and departure `_event_time` gives it. The pinned or
per-file instant is a field of the message. Texts are left out, and the agency's
time zone with them.

### The parts

Each has the shape of the code it models: where the code is one call that reads
a message and returns findings, one action makes them and what is interesting is
what the findings say together; where it is a loop that keeps something, the
loop is a state machine.

* **TimeTexts, TripDescriptorWalk.** Each entity has three halves, examined on
  their own. `w009` is the one list that outlives an entity. The times of a trip
  print as Java prints them, -999 included.
* **TripRules.** A `Validate` of twenty-six rules over one message and its
  previous one. `resolve_trip` and `resolve_stop` are operators, and so is each
  rule.
* **EntityRules, DetourRules.** `cycle` maps a role to its message; each message
  is validated in turn and may see the indexes of all (`visible_index`). Rules
  of a cycle report at its host, as in `Runner`.
* **Polylines.** `_value` takes a character; a point is whole when its longitude
  is. A text that ends or breaks inside a number keeps the points before it.
* **Translations.** `Look` and `Pass` are the fixpoint over the schema, `Visit`
  the descent. A type the schema does not declare is walked all the same.
* **Rectangles, Extents.** The dateline is kept whole: a box that crosses it has
  the greater western edge, and `_widest_gap_lon_range` leaves its loop early as
  in the code. What `asin` and `cos` say is a table, monotone and rounded up.
* **VehicleWalk.** `vehicles` is the pass, one vehicle a step; `Check` the rules
  that read it. The way to a line is measured north plus east.
* **Headways.** Two loops, a step each. `spinning_frequency` is the gate's
  question, on the same rows.
* **StaticFeed.** A table a step, then the gate's refusals in their order, then
  `StaticContext.build`. A cell is None, `Bad`, `Odd` or its value.
* **Requests.** `PreparedFeed`s are made, kept and reused while the archive at
  the path changes. Every file is opened, which empties it, and then filled, so
  a write that fails leaves the file as it was or a cut one, in `SinkFails` as in
  `write_report` and `write_system_errors`, a step each. `Result.write` is asked of
  any result at any time and as often as `MaxWrites` allows; of a compat result it is
  refused. `lay` and `writes` are history: what lay at the path when a run was asked
  for, and which result each call of `Result.write` was about and what it came to.
* **CommandLine.** commons-cli's token loop a token a step, and the project's own
  parser, with the exit codes of each way out. What the run itself came to is
  chosen; `Runner` and `Requests` are about that.
* **Registry.** Any set of modules may have been imported before `discover`; a
  module that raises is not kept and runs again at the next import.
* **ReplayDirectory.** `iterdir`, `is_file`, each `stat` of the sort and each
  read are steps of their own, and a file may be written or removed between any
  two. The sort is CPython's for short lists, so that which stats are taken, and
  when, is the code's.
* **MessagePairs.** Bands of seconds, an alignment of two lists of ids, and
  versions compared as floats.
* **CrossFeed.** `entity` a step, then the index, then W003 and E047 over it in
  the order `javahash.py` gives: hash, spread, table growth, and the refusal where
  Java would make a tree of a chain.
* **UpstreamRules.** A rule a step, in any order of the registry; the first of a
  walk's rules to ask runs it.
* **ClockTexts.** `custom_offset` reads a character a step as Java's
  `ZoneInfoFile` does. A clock is printed in the zone that gives.
* **Wire.** `Field` reads one field and `require` ends a message. Bytes have
  three bits of payload, an `int` fourteen bits: the places where a varint runs
  out are kept, one for one. `equal_messages` compares what was decoded; that two
  messages are equal exactly when they rewrite to the same bytes
  (`EqualMeansTheSameBytes`) is what lets `Runner` take equality for identity of
  values. A getter answers what is there or the default the schema gives
  (`get`, `default`), and with that two decodings of one input can be laid side
  by side: `TwoViewsAgree` reads the bytes under both schemas.
* **Schemas.** `SCHEMA_2015` and `SCHEMA_CURRENT` are the tables of the code, field
  by field and member by member. `SchemasAreWhole` says what the decoder and the
  rules take for granted of them: no two fields under one number, no type that holds
  itself, no default outside its enum, no constant of a rule that is not a member.

## 3. Runs

| Run | Bounds | Shows |
|---|---|---|
| `parts` | below | each part of `MCParts` |
| `headways_negative`, `registry_order`, `compat_timezone` | as `parts` | three findings, below |
| `notice_container` | two containers capped at 2/1 and 3/2, two rules, four occurrences, two merges | every cap is hit from every side; each container can be merged into the other and then added to |
| `runner_compat` | one role, four files, four payloads holding two messages and junk, sink, abort on | re-encoding, duplicate, duplicate after junk, every failure of a file |
| `runner_roles` | three roles, two cycles, modern caps of two and one, one role fetched, no sink | partial cycles, change of host, capped totals, refinement per role |
| `runner_aborts` | as `runner_compat` | a finding, below |
| `memo` | four objects over two addresses, two contexts, four builds (a walk, two namesakes, a decoder one of them calls) | reuse of an address, nesting, refusals |
| `stop_time_updates` | every TripUpdate of up to three updates of eighteen kinds, four trips of two or three rows: a loop, a gap, a tie, a negative sequence; words of three bits | every way through both loops |
| `stop_time_updates_unknown` | the same | a finding, below |
| `timestamps` | words of four bits, POSIX times 2 to 6, two ticks to a second; feeds of three headers; one entity under every kind of header; trips of up to three stops, and two trips of one stop in a message | every order of headers, every test at its boundary, every pattern of absent fields |

**The run `parts`.** The modules after `TimestampWalk` share no state with each
other or with the runner: a rule reads a message and its context, a reader reads
a file. A system that interleaved them would have only products of their
behaviours, so `MCParts` takes their disjoint union: `part` says whose behaviour
this is, and the variables of that part are kept in the cells `c1` to `c12`.
What does flow between them is a value: what the walks yield is chosen in
`UpstreamRules`, what a run comes to is chosen in `CommandLine`. 687 316 distinct
states in all.

| Part | Inputs |
|---|---|
| trip descriptors | every way one descriptor or selector can be declared, with five texts of times and three of dates; pairs of entities for what one W009 hides |
| trip rules | nine relationships of a trip by five of two updates; one- and two-sided updates at each row of a trip that comes back to a stop; predictions one second around the clock; two instances of a trip; two messages |
| entity rules | two entities with several payloads; one impact and up to two windows, bounds absent or at the other's edge; three selectors of seven; cancellations over one, two or three files |
| polylines | every text of up to four characters out of eight groups, and lines around each width of a number, cut off anywhere |
| detours | a shape referred to from both sides and published twice, whole, empty or broken, before or after; again with shapes withheld; two selectors and a stop; four travel times; a fortnight round a leap day; three files |
| translations | sixteen to thirty-two schemas, one whose types hold each other, one type undeclared; up to two members; every text of up to four URL characters |
| extents | a world of twelve by six units: up to three longitudes between any two parallels, a dateline and both poles, two tables, buffers of 0 to 2 |
| vehicles | every position in and round a box over the dateline by every kind of trip and line; alerts before, after and in another file; speeds and bearings at each bound; three entities; three carriages |
| headways | periods from two times in the morning and one before midnight, of whole, half, negative and no headway; four lengths; two periods; three halves; twelve clocks |
| static feed | a whole feed with any two tables replaced, emptied or taken away, in both modes |
| command line | any two or three tokens before, between and after what makes a run |
| requests | two versions of an archive, one prepared feed, two runs of four kinds, one undecodable message, two writes of any results, any write whole, cut or not begun |
| registry | every tree of three modules, right or with one wrong, and whatever of it was imported before |
| replay directory | three files and a directory, one change between any two calls, by name or date, pinned or not |
| message pairs | three headers at and around each band's edge in words of eight bits; versions round 2.0; three messages with two entities |
| cross-feed | up to two entities a half by two trips and two vehicles; tables of three to seven keys that grow, collide and make a tree |
| upstream rules | forty-five rules of four walks in two orders, any event twice, and all at once; two walks under one name |
| clock texts | every custom id of up to five characters, and longer ones at each limit; days around midnight in each of them |
| wire | one or two tokens of twenty-seven and a tail, two small schemas: every field kind, overlong varints, both zeros and two NaNs, groups, unknown fields; under each of the real schemas, an entity of every payload with members, fields and messages younger than the jar, and a descriptor whose member is young, old, or both in turn |

**Why the bounds are enough.** A role's memory is one payload deep, so three
files reach every relation between a file, the one before and the one before
that, and a fourth lets a failure come between. Two cycles are one change of
cycle. Four builds and two addresses are the fewest that free an address and use it
again while another build is in progress. Three updates are the fewest in which
a recovered stop_sequence stands between two that were sent. Words of three bits
have every boundary that 32 have, and words of four hold a difference that
wraps. Three headers let a broken chain stand between two that are in order;
three stops let a stop without a field stand between two that have it, and two
trips would show a time carried from one into the other. Two ticks to a second
are enough to tell a whole second from a part of one. All theorems below are
free of these bounds.

**Deadlock.** Each of these systems really stops: a run ends, a walk ends, a
container or a memo is dropped. So the configurations say
`CHECK_DEADLOCK FALSE`. Where a loop may be left early or go on after a failure, a
liveness property says that an end is reached (`RunEnds`, `WalkEnds`,
`LoopsEnd`); the loops of the others count to the length of a list and nothing
leaves them.

**Fairness.** `Runner` and `StopTimeUpdateWalk` have weak fairness of the whole
next-state relation and nothing finer: one thread runs the loop and never waits
for another; a generator that is read by a rule is read to its end. Which failure
comes, or whether any does, is left open. `Memo` and `NoticeContainer` are
passive objects that may never be called again and assume none. `TimestampWalk`
asks nothing that must eventually happen, and assumes none either. In `parts`
the walk of the translations, the reading of a command line and the two loops of
E019 are weakly fair, each being one call that is computed to its end; the two
loops have a fairness condition each, because the jar's may spin for ever where
the rule's returns. The other parts ask for no end.

**Properties worth reading first.** `BasisIsTheLastRecorded`,
`BasisMovesAfterTheWrite`, `CrossFeedOncePerCycle` and `EachRoleIsABatchLoop` in
`Runner`; `AnswersTheQuestion` in `Memo`; `FollowingIsClean` and
`DisorderIsReported` in `StopTimeUpdateWalk`, which together say what E002 means
to an agency: a feed that follows its trip is never accused, and one that does
not is; `SilentExactlyWhenTimesClimb` in `TimestampWalk`, the same of a trip's
times: two carried values judge it as well as all of them would;
`ConcatenationMerges` in `Wire`, `AsTheJarSays` in `Headways`,
`TwoViewsAgree` in `Wire`, `WholeTreeOrNoRegistry` in `Registry`, `OneInstantEach` in `ReplayDirectory` and
`SilenceIsAgreement` in `CrossFeed`.

A run names a property per question and not per sentence: `CountsHold`,
`CompatHolds`, `ReportsHold`, `MemoHolds`, `OrderHolds`, `AgeHolds` and the
properties of `MCParts` are conjunctions of invariants that each have a name and
a comment of their own.

## 4. Findings

Each is a run that TLC refutes, and a sentence of the repository.

* **`runner_aborts`**: `EqualMessageAbort` is a `CompatAbort` and is raised in
  the middle of a run, after earlier results files were written. `api.py:45-49`
  says of the errors of a run's inputs that "none of them writes anything";
  `gate.py:135-138` says the opposite of this one, and is right.
* **`headways_negative`**: `e019.py:77-80` says a vehicle's candidate "is non-negative
  and Java's truncating division and Python's flooring one agree". The reader of
  `frequencies.txt` keeps the sign of an hour on purpose (`onebusaway.py:188-190`), so
  a period may start at `-1:00:30`, and E019's prefix of a vehicle then shows a
  candidate from hour -1, minute 30, second 30, where the jar's remainders are minute -330,
  second -30. `AsTheJarSays` holds of vehicles from midnight on, and of trip updates
  and alerts, whose clock divides as Java does, at any time.
* **`stop_time_updates_unknown`**: `walks.py:37-39` and `e051.py:1` say E051 is
  for a `stop_sequence` no row of the trip carries. The scan never rewinds, so a
  sequence that an *earlier* row carries is reported as well.
  `E051MeansTheRowsRanOut` states what the code does.
* **`registry_order`**: `registry.py:227-229` says the order of
  `Registry.modern()` does not depend on who imported what first. `modern()`
  returns rules as their decorators first ran, so a rule imported before
  `discover()` comes first.
* **`compat_timezone`**: `gate.py:102-103` says the fallback time zone is
  modern's. Compat's refusal asks whether there is an agency row and not what is
  in it, so a row with a blank `agency_timezone` runs on UTC, without a note.

Smaller divergences met on the way, which need no run to be seen:

* `frequencies.py:96` asks where the jar's loop "would never terminate". With a
  negative headway it does, once the `int` has wrapped; only 0 never ends. The
  gate refuses both.
* `e019.py:20-21` says the two halves' clocks agree "exactly when `startTime` is a
  multiple of 360 seconds". They differ at 06:06:00 and agree at 06:06:06.
* `polyline.py:23-24` says the memo is keyed on the encoded string. `memoised` keys
  on the string object's address, so equal texts held by two objects are decoded
  twice; no finding of a rule changes.
* `adapter.py:219-220` says four of the seven tables are required; two are
  optional (`adapter.py:86`), so five are.
* `gate.py:251` lists the refusals in another order than they are made in. What a
  caller sees differs only on a feed with several faults.
* `p004.py:5-6` says its band and W007's are disjoint, "so no feed is reported
  twice". That holds of the two, and of all rules while both stamps are on one side
  of the sign bit. Where only the later one is 2^63 or more and it is 31 to 35
  seconds on, the walk reads it as negative and E018 says it went back, and P004,
  which reads it unsigned, speaks beside it (`TheBandsMeet` has the whole table).
* `wire.py:58` says `read_varint32` is "not the same function as
  `read_varint` with a mask".
  `VarintsAgree` shows that its value is the low 32 bits of the other's, and that
  both end at the same byte.

## 5. Proofs

The theorems hold for every value of the constants under the assumptions named
in each module. Those are facts of the code: a cycle lists each role at most once
in `ROLE_ORDER` (`CyclesAreOrdered`; `role_cycle` and `resolve_roles` build it
so), caps are natural numbers, payloads decode to a message or to one of two
errors, a message's rules find no more than `sys.maxsize`, names tell a build from
the decoders it calls, rows are sorted.

* **Induction.** A recursive definition is reached by induction all the same, in
  two steps that are stated once. A set of naturals that has 0 and with each
  number the next has them all (`NatSetInduction`, from the library's well-founded
  minimum: the predicate is a set, so that a proof can name it), and a recursion
  whose step is a function has a value after any number of steps (`NatRecursion`);
  two that start alike and step alike are alike (`Agreement`). These stand at the
  head of `NoticesProofs`. `OfRule`, what a list
  has of a rule, and `FoundIn`, what a run found of one, are recursive functions,
  and from these come their laws: of an empty list, of one entry more, of a list
  behind another (`OfRuleConcat`), and how many the first entry is
  (`HowManyTail`).
* **NoticeContainerProofs.** `CapsHold` and `LossesAreCapped` from `BoxInvariant`.
  The caps alone are not inductive: `add` compares the count and not the number
  retained, so the invariant relates the two: a rule retains no more than it
  counts, and while there is room in the container, at least as many as its cap
  and its count allow, less what it was only told of. `RetainedStay`, because every
  call leaves the old list a prefix of the new one. `CountsAreTrue`: totals and
  retained counts follow the lists call by call, but that a rule's samples are the
  *first* it was offered needs to know that a rule which has lost an occurrence
  never has room again. `HoldsTheFirst` says so: until a rule is full all it was
  offered is held, and being full is for good, since lists and counts only grow.
* **RunnerProofs.** `LoopInvariant` is `TypeInv /\ QueueInv /\ FreshInv /\
  GuardInv /\ HistoryInv`. `QueueInv` says the decoded, the one being acquired and
  the pending are different roles of one cycle, without which a second message
  of a role in one cycle would meet a basis that had moved since it was compared.
  `FreshInv` carries "not a duplicate" from the moment it was tested, before the
  decode, to the moment the basis moves, after the write. `GuardInv` does the
  same for the equal-message guard. From these follow `BasisCorrect`,
  `NothingIsRepeated`, `PreviousIsTheRolesOwn` and `AbortCorrect`, and by
  further invariants on top of them `AccountsBalance`, `WriteBeforeBasis`,
  `OwnFindings`, `CompatDrops` and the refinement `EachRoleImplementsBatchLoop`.
  For `CompatDrops` the invariant counts what is still to come: while a message is
  walked, what it holds and what is left to find stay within the cap
  (`FindingsAreFewerThanUnlimited`), so every `add` finds room. `SilentSkips`
  holds since a skip without a record is a duplicate, of the role's basis.
  `OwnFindings` says of the message under validation that its container counts of each
  rule exactly what was found of this message so far, and retains the first of them.
  `WalkInv` carries it: what is left to collect is the end of what was found, and the
  container is what becomes of the rest, added in order to an empty one
  (`AddCounts` and `AddHoldsTheFirst` of `NoticesProofs`, which `NoticeContainerProofs`
  uses too). So nothing of an earlier message is left in it, of this cycle or another.
  `ReportsAreTrue` has an invariant for each half. `TotalInv`: while a message is
  walked, what its container counts of a rule and what is left of it to collect are
  what was found of it, so that a record adds to the aggregate what it adds to the
  run. `CycleInv`: while a cycle is validated, each role of its view is either
  reported or still decoded, and never both or twice, so that when none is left the
  reports name the view's roles once each, and its host among them.
* **MemoProofs.** `AnswersAreTheAskers` and `BodiesRunOnce`, with the type
  invariant. The heart of the invariant: an entry's object is live, live objects
  have different addresses, and an entry's key is the key of its own object; so a
  key that hits was made from the very object that is asked about. The names matter as much: a build
  that is running is never found half-built under its own name.
* **StopTimeUpdateWalkProofs.** `OnePass` (matches are in the order of both
  lists), `E051Correct` and `BreakEndsTheTrip`. For E051 the invariant follows
  the inner loop: every row between the last match and the index was tried
  against this update, and once the rows have run out that verdict settles on
  the update the event names.
  `OrderIsTold`, over the same invariant and four more, of which `PassInv` completes the type invariant. `OnceInv`: which
  of the rules that speak once have not spoken is a function of where the walk is
  and of `found_e009`. `DisorderInv`: what was sent stays in `stop_sequences` in
  the order it was sent, so `strictly_ordered` sees the pair that is not.
  `CleanInv`: of an update laid along the trip's rows, the index never passes the
  row it lies along, and the list ends where the index stands; so none is unknown
  and none enters the list twice.
* **TimestampWalkProofs.** `TripsAreJudgedWhole` and `HeadersAreInOrder`. That a
  trip is silent exactly when its times climb follows from `OrderInv`: each value
  carried is the time of an earlier stop, and while the trip is silent no earlier
  time is later than both, so four comparisons with two values are comparisons
  with everything before. That headers climb follows from `HeaderInv`, one
  verdict per message, and the order of integers is transitive.
  `AgeIsTold`: whole seconds beyond the tolerance are milliseconds from one second
  past it on, so an entity ahead of the clock under a header of which nothing was
  said is ahead of that header, which E012 tells; and two POSIX times are too near
  for their difference to wrap.
* **RuleProofs: Headways.** `SilentIsADeparture` and `AsTheJarSays`, for every list of
  periods and every clock (`LegalInputs`: the jar's `int` holds a period's start,
  and its end with a headway). Both loops take one of three turns (`PassOn`,
  `Match`, `Advance`), and what a loop knows is said of the departures it has
  `Behind` it: the candidate it stands at is on the period's grid, none behind it
  was the clock that is wanted, and what it shows is the last of those behind. That
  `Advance` leaves exactly one more behind is where arithmetic enters, that there
  is no multiple between one and the next (`NoMultipleBetween`); that a clock
  names one time is `ClockParts` and `ClockOfATime`. Two loops that are done then agree
  whatever turns they took (`LoopsAgree`), so the two need not run in step. The jar's
  turns are turns of the same kind only while its `int` does not wrap and the
  divisions agree (`JarTurn`). The invariant assumes what the gate asks, that no
  period spins; `TypeOK` holds without (`HeadwaysTypeOK`).
* **RuleProofs: MessagePairs.** `BandsOfPairsMeet`, `VersionsOfPairs` and
  `MovesAreReportedOnce`, for streams of any length. What a message says after the
  one before it is one set, `Findings`, and `PairsInv` is that whatever was reported
  of the k-th message is that set of the k-th and the one directly before, and of no
  other. The theorems are then about two messages. Of two stamps on one side
  of the sign bit exactly one rule speaks, or none where the later is 1 to 30 seconds
  on, because the difference of two words there does not wrap; across it the walk's
  signed reading and P004's unsigned one part, and the table says which rules may
  then speak, E018 and P004 both of one pair among them. And of a trip that an
  entity of every message carries, the first such entity is the only place a move
  can be told at, so once a message. A version's text enters as a table from texts
  to quarters of a float's last place, so what is said of floats is said of that
  grid.
* **RuleProofs: TripDescriptorWalk.** `TheFirstIsWarnedOf`,
  `ReferencesAreReportedOnce` and `DisagreementsAreNeverAlone`. The walk passes over
  entities, halves, selectors and stops, and its findings are filtered from all of
  it, so `WalkInv` has a part for each: `PlaceInv` says where the walk may stand,
  and `HalvesInv`, `SelectorsInv`, `StopsInv` and `ListInv` say what the findings
  are, in closed form, of everything it is past and of nothing it is not. TLC was
  asked first whether they hold, and are inductive, over the run's own inputs.
* **RuleProofs: VehicleWalk.** The type invariant and the five parts of `PlacesHold`
  that are about vehicles, for messages of any length, any box, shapes and measures.
  `FleetInv` has three parts. `StandsInv`: the ids seen are those of the walked
  vehicles, and only a shape that is no line has ended the walk. `SaidInv`: what each
  rule has said of each vehicle, in closed form, E052 of one that another bore its id
  before and the nest of one nothing raised on. `AfterInv`: what P015 and the carriage
  rules say once it is over, P015 only where the nest did not. TLC was asked for it on
  the run's own inputs first. That no position ends the run is then that one the
  geometry would refuse is one the nest calls no place, which is never looked up.
* **RuleProofs: Translations.** `EverySiteIsFound`, `SitesAreInOrder`, `OneLastResort`
  and the type invariant, for any schema and messages of any depth. `ClosingInv`: in a
  pass that has added nothing, no type it is past holds a holder without being one, so
  when the passes stop the closure is one. `OrderInv`: the ways of what was found and
  then of what is still to visit stand in document order, and going into a message
  puts its fields where it stood. `FoundInv`: a value that was asked for is found, or
  is at or below a place on the stack. That it stays so when a message is not gone
  into is `NothingIsPruned`: above what was asked for, every type holds it or is one
  the schema does not declare. It needs what `LegalInputs` says of data: a declared
  type's fields have declared types, and a message holds what its type declares.
  `Tree` is a recursive function of the depth; it enters as a list of levels each of
  which is held by the one before (`TreeHasLevels`), proved by the least counterexample.
* **ProgramProofs: Orders.** The library's `SelectSeq` and `SortSeq` are recursive,
  and no prover can unfold them. `Ranked(S, order)` lists a finite set by how many of
  its members come before each, and `Picked(list, places)` what a list has at some of
  its places: neither recurs. That a strict order gives each member a place of its
  own and leaves no place empty is `RankedLists`, from two facts on cardinality
  (`AheadIsFewer`, `PlacesMakeAList`); that nothing else lists the set in that order
  is `OneList`; and picking from what was picked is one picking (`PickedTwice`).
* **ProgramProofs: Requests.** `RunsAsAsked`, `FeedsAreReusable` and `ReportLeads`, for
  replays that are lists (`LegalInputs`). What a run has tallied is a recursive
  function of its feed and of the messages so far. No recursion is unfolded: an
  `Account` is any function that keeps the recurrence, and the invariant says that
  there is one and that every one of them ends in the run's own tally
  (`Determined`). Two results that are both determined by one feed and one replay
  are therefore equal. Of each of the two report files the invariant keeps which
  call left it, whole or cut, and which result that call was about; that no call's
  system errors are there without that call's report or a later one is an order
  on the calls, and holds whichever results they are of.
* **ProgramProofs: Registry.** `RegistryIsWhole`, `SeverityHasOneSource` and
  `CompatIsWhatTheManifestLists`, for every tree of modules and whatever was imported
  before. `RegisteredInv`: every module that was imported is registered under what
  it claims, each is sound as `register` judges, and no id is there twice. That alone
  says nothing of what is missing, so `DiscoveryInv` adds that while discovery
  goes on a module it looks for is imported or still queued, and that a registry
  that was built was built of the whole.
* **ProgramProofs: ReplayDirectory.** `NoFileIsEverLost`, `FilesComeInOrder`,
  `ClocksFollow` and the type invariant, for any number of changes to the directory.
  `ListedInv`: a regular file is among those kept or still to be filtered, and in
  neither twice. `SortInv` and `OrderInv` follow the sort through its opening run, up
  or down, and through each binary insertion: what it has is the first of the files
  in the order of the times it took, every one of which is in its cache, and the file
  it inserts belongs in the span that is left. `StillInv` says what more holds of a
  directory that is left alone. TLC was asked first whether each part holds.
* **ProgramProofs: UpstreamRules.** `EachEventHasOneRule`, `EachWalkRunsOnce` and the
  type invariant, for any messages and registries. `TodoInv`: what has spoken and what
  is to do make up the registry's order. `KeptInv`: the memo keeps under a walk's name
  what that walk yields, for the walks that ran and no others, so a walk that is not
  kept has not run. `ReportedInv`: a rule of a walk has reported its own events of it,
  and a rule that walks for itself only stops and halves. The table of 45 rules gives an
  id one rule (`TableIsOne`); `LegalInputs` says that a walk yields events of its own
  rules. `E011`, `E015` and `W005` lay lists end to end with a recursive function of
  the library: `LaidOneWay` and `LaidEndToEnd` prove by the least counterexample that
  one function keeps that recurrence and what the lists hold is all it holds.

**Model-checked only.** `RunEnds`, `WalkEnds` and `LoopsEnd` are liveness.
`Wire` declares recursive operators and `CrossFeed` computes on bits, and they are
for TLC alone. `SilentStartTimeIsTheSchedules` of the walk over descriptors rests
on what recursive functions read from a text, which is induction over data. The
properties of `MCParts` are conjunctions over components: of `HeadwaysHold`,
`MessagesAgree` (the pairs), `TripDescriptorsHold`, `PlacesHold` (the vehicles),
`TranslationsHold` (all but the URLs), `RegistriesHold` (the registry, the upstream rules)
and `RunsHold` (requests and the directory) the parts named above are theorems of
their components; the other parts, and a conjunction as such, are TLC's. Those other
parts are mostly rules over one message in a single step, whose inputs TLC
enumerates and for which an inductive invariant would say nothing more.

## 6. Not modelled

The offset curve of a buffered line and the predicates on it (`geometry/`,
except `bbox.py`) and the rendering of doubles (`javafmt.py`, `_floatingdecimal`)
are floating-point algorithms: TLC has integers, and a model on integers would be
of another algorithm. The way from a position to a line enters `VehicleWalk` as
an integer measure. The zone database and daylight saving are external. The wording of
occurrences and of ids, the layout of reports and the scripts under `src/tools`
carry no property stated here. `Wire` skips a group however deep groups nest in it
and reads a message however deep; Python's recursion limit, at which the decoder
would raise something that is no `DecodeError`, is not modelled. `LegalInputs` of
`Headways` is what its comment says and a little narrower than what the gate lets
through: a headway whose sum with a period's end leaves the jar's `int` is left
out. The rules of `rules/spec` and `rules/practice`
that filter one shared walk for one code are modelled by that walk.

## 7. Plan

`Runner` over the inputs `ReplayDirectory` yields, and `Requests` over `Runner`,
where now each chooses what the other may do.
