------------------------------- MODULE Requests -------------------------------
(***************************************************************************)
(* The library's side of a run (api.py, runner/config.py, results.py,      *)
(* report/): a caller reads a static archive once or for every request,    *)
(* runs requests against it while the archive changes on disk, and the     *)
(* two writers put what was found where each puts it.                      *)
(*                                                                         *)
(* What a message is found to break depends on nothing here: a message     *)
(* comes with the rules it breaks and how often.                           *)
(*                                                                         *)
(* Every file is written in place.  It is opened, which empties it, and    *)
(* then filled, so a write that fails leaves the file as it was (it could  *)
(* not be opened) or a cut one; and a result is written whenever its       *)
(* caller likes, as often as it likes, over what another one left.         *)
(***************************************************************************)
EXTENDS Integers, Sequences, FiniteSets, SequencesExt

CONSTANTS
  Replays,         \* the inputs of a request: sequences of messages
  Arguments,       \* what else it is given: [mode, ignore_shapes, abort]
  Rules,           \* rule ids in modern's order (numbers)
  output_order,    \* the rule ids compat can reach in the order its files have
  Versions,        \* how often the archive is replaced, at most
  MaxFeeds, MaxRuns, MaxWrites,
  None

VARIABLES
  archive,                     \* which archive lies at the path
  feeds,                       \* the prepared feeds the caller holds
  config, request,             \* the run under way
  at, notices, system_errors, validated, skipped,
  disk,                        \* the files of the runs
  results,                     \* what the calls came to, in order
  writes                       \* the calls of Result.write, and what they came to

vars == <<archive, feeds, config, request, at, notices, system_errors, validated, skipped, disk, results, writes>>
Running == <<config, request, at, notices, system_errors, validated, skipped>>

Modes == {"compat", "modern"}

\* A file whose write failed once it was open, by the run or the call that wrote it.
Cut(writer) == [by |-> writer, whole |-> FALSE]

\* Calls are numbered from 1.
NoFile == Cut(0)

LegalInputs ==
  /\ Arguments \subseteq [mode : Modes, ignore_shapes : BOOLEAN, abort : BOOLEAN]
  /\ \A replay \in Replays : replay \in Seq(Range(replay))
  /\ \A replay \in Replays : \A k \in DOMAIN replay : DOMAIN replay[k].found \subseteq Rules
  /\ Range(output_order) \subseteq Rules

Init ==
  /\ archive = 1 /\ feeds = <<>> /\ config = None /\ request = None
  /\ at = 1 /\ notices = <<>> /\ system_errors = <<>> /\ validated = 0 /\ skipped = 0
  /\ disk = [results |-> <<>>, report |-> NoFile, system_errors |-> NoFile] /\ results = <<>>
  /\ writes = <<>>

\* The archive at the path becomes another one.
replace_archive ==
  /\ archive < Versions
  /\ archive' = archive + 1
  /\ UNCHANGED <<feeds, Running, disk, results, writes>>

\* What the gate had to say of an archive: modern's notes on the second.
prepare_static(mode, version) == IF mode = "modern" /\ version = 2 THEN <<"note">> ELSE <<>>

\* What was read once, as the archive was then.
PreparedFeed(mode, ignore_shapes) ==
  [mode |-> mode, ignore_shapes |-> ignore_shapes, version |-> archive, system_errors |-> prepare_static(mode, archive)]

prepare_feed ==
  /\ request = None /\ Len(feeds) < MaxFeeds
  /\ \E given \in Arguments : feeds' = Append(feeds, PreparedFeed(given.mode, given.ignore_shapes))
  /\ UNCHANGED <<archive, Running, disk, results, writes>>

mismatch(feed, mode, ignore_shapes) == feed.mode # mode \/ feed.ignore_shapes # ignore_shapes

Answer(kind) == [request |-> request, kind |-> kind, system_errors |-> <<>>, notices |-> <<>>, validated |-> 0, skipped |-> 0]

\* A container of its own for every run, with what the feed's reading found.
fresh_errors(feed) == feed.system_errors

\* A request names a feed by its number, or the path by 0.
_feed_for(r) == IF r.gtfs = 0 THEN PreparedFeed(r.mode, r.ignore_shapes) ELSE feeds[r.gtfs]

Request ==
  {[mode |-> given.mode, ignore_shapes |-> given.ignore_shapes, gtfs |-> gtfs, abort |-> given.abort, replay |-> replay] :
     given \in Arguments, gtfs \in 0..Len(feeds), replay \in Replays}

\* The equal-message abort is compat's, whoever asks for it.  lay is history: what
\* lay at the path when the run was asked for.
RunConfig(feed, r) ==
  [mode |-> feed.mode, ignore_shapes |-> feed.ignore_shapes, version |-> feed.version, lay |-> archive,
   abort_on_equal_message |-> r.abort /\ feed.mode = "compat"]

validate ==
  /\ request = None /\ Len(results) < MaxRuns
  /\ \E r \in Request :
       IF r.gtfs # 0 /\ mismatch(feeds[r.gtfs], r.mode, r.ignore_shapes)
       THEN /\ results' = Append(results, [Answer("usage error") EXCEPT !.request = r])
            /\ UNCHANGED Running
       ELSE /\ request' = r
            /\ config' = RunConfig(_feed_for(r), r)
            /\ system_errors' = fresh_errors(_feed_for(r))
            /\ at' = 1 /\ notices' = <<>> /\ validated' = 0 /\ skipped' = 0
            /\ UNCHANGED results
  /\ UNCHANGED <<archive, feeds, disk, writes>>

Message == request.replay[at]

Ends(kind) ==
  /\ results' = Append(results, [Answer(kind) EXCEPT !.system_errors = system_errors, !.notices = notices,
                                                     !.validated = validated, !.skipped = skipped])
  /\ request' = None /\ config' = None
  /\ UNCHANGED <<archive, feeds, at, notices, system_errors, validated, skipped, writes>>

\* What cannot be read or decoded is passed over and noted.
skip ==
  /\ request # None /\ at <= Len(request.replay) /\ ~Message.decodes
  /\ system_errors' = Append(system_errors, Message.name) /\ skipped' = skipped + 1 /\ at' = at + 1
  /\ UNCHANGED <<archive, feeds, config, request, notices, validated, disk, results, writes>>

Merged(found) ==
  [r \in DOMAIN notices \cup DOMAIN found |->
     (IF r \in DOMAIN notices THEN notices[r] ELSE 0) + (IF r \in DOMAIN found THEN found[r] ELSE 0)]

\* One results file: a message's own findings, in the jar's order of rules.
entries(found) ==
  LET ids == SelectSeq(output_order, LAMBDA r : r \in DOMAIN found)
  IN  [k \in DOMAIN ids |-> <<ids[k], found[ids[k]]>>]

WithResults(file) == [disk EXCEPT !.results = (Message.name :> file) @@ @]

\* The sink comes before the run's own record.
ResultsWriter ==
  /\ request # None /\ at <= Len(request.replay) /\ Message.decodes
  /\ ~(config.abort_on_equal_message /\ Message.same)
  /\ IF config.mode = "compat"
     THEN disk' = WithResults([by |-> Len(results) + 1, whole |-> TRUE, entries |-> entries(Message.found)])
     ELSE UNCHANGED disk
  /\ notices' = Merged(Message.found) /\ validated' = validated + 1 /\ at' = at + 1
  /\ UNCHANGED <<archive, feeds, config, request, system_errors, skipped, results, writes>>

\* Its failure ends the run, with the file not opened or cut.
SinkFails ==
  /\ request # None /\ at <= Len(request.replay) /\ Message.decodes /\ config.mode = "compat"
  /\ ~(config.abort_on_equal_message /\ Message.same)
  /\ Ends("OSError")
  /\ \/ UNCHANGED disk
     \/ disk' = WithResults(Cut(Len(results) + 1))

AbortOnEqualMessage ==
  /\ request # None /\ at <= Len(request.replay) /\ Message.decodes
  /\ config.abort_on_equal_message /\ Message.same
  /\ Ends("equal message") /\ UNCHANGED disk

finish ==
  /\ request # None /\ at > Len(request.replay)
  /\ Ends("result") /\ UNCHANGED disk

\* Result.write has written the report and not yet the system errors.
Writing == writes # <<>> /\ Last(writes).came = "under way"

CanWrite(n) == ~Writing /\ Len(writes) < MaxWrites /\ n \in DOMAIN results /\ results[n].kind = "result"

Called(n, came) == writes' = Append(writes, [result |-> n, came |-> came])

Returned(came) == writes' = [writes EXCEPT ![Len(writes)].came = came]

\* What two of a result's parts make of it, by the call that wrote them.
Report(n, writer) ==
  [by |-> writer, whole |-> TRUE, notices |-> results[n].notices,
   summary |-> [mode |-> results[n].request.mode, messagesValidated |-> results[n].validated,
                filesSkipped |-> results[n].skipped]]

SystemErrors(n, writer) == [by |-> writer, whole |-> TRUE, notices |-> results[n].system_errors]

\* Compat's results are its sink's to write.
refuse_write ==
  /\ \E n \in DOMAIN results : CanWrite(n) /\ results[n].request.mode = "compat" /\ Called(n, "usage error")
  /\ UNCHANGED <<archive, feeds, Running, disk, results>>

\* The two files one after the other, of any result there is.
write_report ==
  /\ \E n \in DOMAIN results :
       /\ CanWrite(n) /\ results[n].request.mode = "modern"
       /\ \/ disk' = [disk EXCEPT !.report = Report(n, Len(writes) + 1)] /\ Called(n, "under way")
          \/ disk' = [disk EXCEPT !.report = Cut(Len(writes) + 1)] /\ Called(n, "raised")
          \/ UNCHANGED disk /\ Called(n, "raised")
  /\ UNCHANGED <<archive, feeds, Running, results>>

write_system_errors ==
  /\ Writing
  /\ \/ /\ disk' = [disk EXCEPT !.system_errors = SystemErrors(Last(writes).result, Len(writes))]
        /\ Returned("returned")
     \/ disk' = [disk EXCEPT !.system_errors = Cut(Len(writes))] /\ Returned("raised")
     \/ UNCHANGED disk /\ Returned("raised")
  /\ UNCHANGED <<archive, feeds, Running, results>>

Next ==
  \/ replace_archive
  \/ prepare_feed
  \/ validate
  \/ skip
  \/ ResultsWriter
  \/ SinkFails
  \/ AbortOnEqualMessage
  \/ finish
  \/ refuse_write
  \/ write_report
  \/ write_system_errors

Spec == Init /\ [][Next]_vars

-----------------------------------------------------------------------------
\* A run is under way with a request and a configuration or with neither, and of
\* the calls of Result.write only the last may be.
TypeOK ==
  /\ (request = None) <=> (config = None)
  /\ request # None => at \in 1..(Len(request.replay) + 1) /\ validated + skipped = at - 1
  /\ \A w \in DOMAIN writes :
       /\ writes[w].result \in DOMAIN results
       /\ writes[w].came \in {"usage error", "raised", "returned"} \cup (IF w = Len(writes) THEN {"under way"} ELSE {})

\* A run is in the mode and with the shapes it was asked for; on the feed it was
\* handed as the feed was when it was read or, handed a path, on the archive that
\* lay there when it was asked for, whatever lies there by now; and a compat flag
\* does nothing to a modern run (PreparedFeed.mismatch and config, _feed_for).
RunsOnWhatItAskedFor ==
  request # None =>
    /\ config.mode = request.mode /\ config.ignore_shapes = request.ignore_shapes
    /\ config.version = IF request.gtfs = 0 THEN config.lay ELSE feeds[request.gtfs].version
    /\ config.abort_on_equal_message => request.mode = "compat" /\ request.abort

\* Two results for the same request of the same prepared feed say the same,
\* however many runs there were between and whatever lies at the path by then.
TheHundredthSaysAsMuch ==
  \A i, j \in DOMAIN results :
    results[i].request = results[j].request /\ results[i].request.gtfs # 0 /\ results[i].kind = results[j].kind /\ results[i].kind = "result"
      => results[i] = results[j]

\* However the last compat run ended, it has written whole files of its first
\* messages, one each, and of no others but, where a write failed, a cut file of
\* the very next; and a run that says it finished left no message out.  What any
\* run wrote whole is all that the message was found to break, and what any left
\* cut it was ended by (write_results, _ordered_groups).  A modern run writes no
\* such file.
FilesAreAPrefix ==
  \A n \in 1..(Len(results) + 1) :
    LET run == IF n <= Len(results) THEN results[n].request ELSE request
        kind == IF n <= Len(results) THEN results[n].kind ELSE "under way"
        last == IF request = None THEN Len(results) ELSE Len(results) + 1
        read == IF run = None THEN <<>> ELSE SelectSeq(run.replay, LAMBDA m : m.decodes)
        left == {k \in DOMAIN read : read[k].name \in DOMAIN disk.results /\ disk.results[read[k].name].by = n}
        whole == {k \in left : disk.results[read[k].name].whole}
    IN  /\ \A k \in whole :
             {<<r, read[k].found[r]>> : r \in DOMAIN read[k].found} = Range(disk.results[read[k].name].entries)
        /\ left # whole => kind = "OSError"
        /\ n = last /\ run # None =>
             /\ whole = 1..Cardinality(whole)
             /\ left \ whole \subseteq {Cardinality(whole) + 1}
             /\ run.mode = "compat" /\ kind = "result" => whole = DOMAIN read
             /\ run.mode = "modern" => left = {}

\* Whatever a whole file says is what the result its call was about found.  The
\* report is of the call that the system errors beside it are of or of a later
\* one, and never cut where they are of the same.  What a call wrote and returned
\* is not replaced by an older one's: either file is of that call, and whole, or of
\* a later.  So two whole files of different results are what a later call left
\* that failed half-way, and the findings are the newer of the two (write_reports).
TheReportLeads ==
  /\ disk.report.whole =>
       LET of == results[writes[disk.report.by].result] IN
       /\ disk.report.notices = of.notices
       /\ disk.report.summary.messagesValidated + disk.report.summary.filesSkipped = Len(of.request.replay)
  /\ disk.system_errors.whole =>
       disk.system_errors.notices = results[writes[disk.system_errors.by].result].system_errors
  /\ disk.system_errors.by <= disk.report.by
  /\ disk.system_errors.by = disk.report.by /\ disk.system_errors # NoFile => disk.report.whole
  /\ \A w \in DOMAIN writes : writes[w].came = "returned" =>
       /\ w <= disk.report.by /\ (w = disk.report.by => disk.report.whole)
       /\ w <= disk.system_errors.by /\ (w = disk.system_errors.by => disk.system_errors.whole)
=============================================================================
