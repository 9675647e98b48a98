-------------------------- MODULE ReplayDirectory --------------------------
(***************************************************************************)
(* A replay of a directory: what it reads, in which order (runner/         *)
(* dedupe.py, runner/sources.py) and by which clock (runner/clock.py),     *)
(* while somebody else writes to the directory.                            *)
(*                                                                         *)
(* Listing the directory, asking each entry what it is, each comparison of *)
(* the sort and each file's turn to be read are steps of their own, and a  *)
(* file can be written again or go away between any two.  The sort is      *)
(* CPython's for short lists: the run the list begins with, then binary    *)
(* insertion.  A name is its stem and its extension.                       *)
(***************************************************************************)
EXTENDS Integers, Sequences, FiniteSets, SequencesExt, Orders

CONSTANTS
  Disks,        \* directories: what every entry is and when it was written
  NameOrder,    \* the names in the order of their UTF-16 code units
  Long,         \* the stems of 20 characters or more
  Instant,      \* Instant[stem]: what the last 20 say of those that are an ISO instant
  Requests,     \* what the run asks: the sort, and which clock
  NOW,          \* the wall clock
  MaxChanges,   \* bound: what happens to the directory during the run
  None

VARIABLES
  disk, changes,      \* the directory, and how often it was changed
  request,
  unfiltered, files,  \* rglob's entries, and those that are regular files
  cache, failed,      \* the sort's stats, and whether one of them raised
  run, ordered, at,   \* the sort: its phase, the files so far in order, the binary search
  readings,           \* what each file's turn came to
  pc

vars == <<disk, changes, request, unfiltered, files, cache, failed, run, ordered, at, readings, pc>>

Sorting == <<cache, failed, run, ordered, at>>

\* What the replays of a model may be: directories of finitely many entries, each
\* under a name, and a file with the time it was written.
LegalInputs ==
  /\ \A d \in Disks :
       /\ IsFiniteSet(DOMAIN d)
       /\ \A f \in DOMAIN d : d[f] \in [name : Range(NameOrder), kind : {"file", "dir", "gone"}, mtime : Int]
  /\ \A r \in Requests :
       r.sort \in {"date", "name"} /\ r.at \in Int \cup {None} /\ r.directory_replay \in BOOLEAN
  /\ NameOrder \in Seq(Range(NameOrder)) /\ Instant \in [DOMAIN Instant -> Int] /\ NOW \in Int /\ MaxChanges \in Nat
  /\ None \notin Int \cup {"name_too_short", "unparsable"}

Init ==
  /\ disk \in Disks /\ changes = 0 /\ request \in Requests
  /\ unfiltered = <<>> /\ files = <<>>
  /\ cache = <<>> /\ failed = FALSE /\ run = None /\ ordered = <<>> /\ at = <<0, 0>>
  /\ readings = <<>> /\ pc = "walk"

\* Whoever publishes the feeds writes a file again, or takes it away.
Touch(f) ==
  /\ changes < MaxChanges /\ pc # "done" /\ disk[f].kind = "file"
  /\ disk' = [disk EXCEPT ![f].mtime = @ + 2] /\ changes' = changes + 1
  /\ UNCHANGED <<request, unfiltered, files, Sorting, readings, pc>>

Unlink(f) ==
  /\ changes < MaxChanges /\ pc # "done" /\ disk[f].kind # "gone"
  /\ disk' = [disk EXCEPT ![f].kind = "gone"] /\ changes' = changes + 1
  /\ UNCHANGED <<request, unfiltered, files, Sorting, readings, pc>>

there(f) == disk[f].kind # "gone"

\* The entries come in whatever order the directory holds them.
List ==
  /\ pc = "walk" /\ pc' = "filter"
  /\ \E order \in SetToSeqs({f \in DOMAIN disk : there(f)}) : unfiltered' = order
  /\ UNCHANGED <<disk, changes, request, files, Sorting, readings>>

\* is_file of one entry; no extension is asked for.
Filter ==
  /\ pc = "filter" /\ unfiltered # <<>>
  /\ files' = IF disk[Head(unfiltered)].kind = "file" THEN Append(files, Head(unfiltered)) ELSE files
  /\ unfiltered' = Tail(unfiltered)
  /\ UNCHANGED <<disk, changes, request, Sorting, readings, pc>>

\* The base name alone, in UTF-16 code units.
_name_sort_key(f) == CHOOSE k \in DOMAIN NameOrder : NameOrder[k] = disk[f].name

\* The place of a file in a list, under its name: of one name, the one listed first.
name_order(list) ==
  {p \in (DOMAIN list) \X (DOMAIN list) :
     \/ _name_sort_key(list[p[1]]) < _name_sort_key(list[p[2]])
     \/ _name_sort_key(list[p[1]]) = _name_sort_key(list[p[2]]) /\ p[1] < p[2]}

by_name(list) == [k \in DOMAIN list |-> list[Ranked(DOMAIN list, name_order(list))[k]]]

\* sorted() of nothing or of one file compares nothing.
Filtered ==
  /\ pc = "filter" /\ unfiltered = <<>>
  /\ IF request.sort = "name" \/ Len(files) < 2
     THEN ordered' = (IF request.sort = "name" THEN by_name(files) ELSE files) /\ pc' = "read" /\ UNCHANGED run
     ELSE ordered' = <<Head(files)>> /\ run' = "begun" /\ pc' = "sort"
  /\ UNCHANGED <<disk, changes, request, unfiltered, files, cache, failed, at, readings>>

\* A mistake: every comparison asks again, and the last answer stands.
stat_again(pair) == [f \in DOMAIN cache \cup {g \in Range(pair) : there(g)} |->
                       IF f \in Range(pair) /\ there(f) THEN disk[f].mtime ELSE cache[f]]

\* A stat of each that has none; the first to fail ends it.
stat(pair) ==
  LET first_fails == pair[1] \notin DOMAIN cache /\ ~there(pair[1])
      answered == IF first_fails THEN {} ELSE {f \in Range(pair) : f \notin DOMAIN cache /\ there(f)}
  IN  [f \in DOMAIN cache \cup answered |-> IF f \in DOMAIN cache THEN cache[f] ELSE disk[f].mtime]

\* The pair compares equal where a stat failed.
compare(pair) ==
  LET known == stat(pair)
  IN  IF ~(Range(pair) \subseteq DOMAIN known) THEN 0
      ELSE IF known[pair[1]] > known[pair[2]] THEN 1 ELSE IF known[pair[1]] < known[pair[2]] THEN -1 ELSE 0

Stats(pair) ==
  /\ cache' = stat(pair)
  /\ failed' = (failed \/ ~(Range(pair) \subseteq DOMAIN stat(pair)))

\* The list begins with a run: up, or strictly down, which is turned around.
Next1 == files[Len(ordered) + 1]

CountRun ==
  /\ pc = "sort" /\ run \in {"begun", "up", "down"} /\ Len(ordered) < Len(files)
  /\ LET last == files[Len(ordered)]
         less == compare(<<Next1, last>>) = -1
     IN  /\ Stats(<<Next1, last>>)
         /\ IF run = "begun" \/ (run = "down") = less
            THEN /\ ordered' = IF less THEN <<Next1>> \o ordered ELSE Append(ordered, Next1)
                 /\ run' = IF less THEN "down" ELSE "up"
                 /\ UNCHANGED at
            ELSE /\ run' = "insert" /\ at' = <<0, Len(ordered)>>
                 /\ UNCHANGED ordered
  /\ UNCHANGED <<disk, changes, request, unfiltered, files, readings, pc>>

\* One comparison of a binary insertion, and the insertion after the last.
Insert ==
  /\ pc = "sort" /\ run = "insert" /\ Len(ordered) < Len(files)
  /\ LET mid   == (at[1] + at[2]) \div 2
         less  == compare(<<Next1, ordered[mid + 1]>>) = -1
         after == IF less THEN <<at[1], mid>> ELSE <<mid + 1, at[2]>>
     IN  /\ Stats(<<Next1, ordered[mid + 1]>>)
         /\ IF after[1] < after[2] THEN at' = after /\ UNCHANGED ordered
            ELSE ordered' = InsertAt(ordered, after[1] + 1, Next1) /\ at' = <<0, Len(ordered) + 1>>
  /\ UNCHANGED <<disk, changes, request, unfiltered, files, run, readings, pc>>

Sorted ==
  /\ pc = "sort" /\ Len(ordered) = Len(files)
  /\ pc' = "read"
  /\ UNCHANGED <<disk, changes, request, unfiltered, files, Sorting, readings>>

-----------------------------------------------------------------------------
last_modified(f) == disk[f].mtime

stem(f) == disk[f].name[1]

\* timestamp_from_file_name: why there is none, the length being looked at first.
refusal(f) ==
  IF stem(f) \notin Long THEN "name_too_short" ELSE IF stem(f) \notin DOMAIN Instant THEN "unparsable" ELSE None

names_a_time(f) == request.sort = "name" /\ refusal(f) = None

\* compat_reading: the name's instant, or the file's where it says none.
compat_reading(f) ==
  IF names_a_time(f) THEN [file |-> f, millis |-> Instant[stem(f)], source |-> "file_name", fallback_reason |-> None]
  ELSE [file |-> f, millis |-> last_modified(f), source |-> "last_modified",
        fallback_reason |-> IF request.sort = "name" THEN refusal(f) ELSE None]

\* modern_reading: a pinned instant, else the replay's, else now.
reading(f) ==
  IF request.at # None THEN [file |-> f, millis |-> request.at, source |-> "fixed", fallback_reason |-> None]
  ELSE IF request.directory_replay THEN compat_reading(f)
  ELSE [file |-> f, millis |-> NOW, source |-> "now", fallback_reason |-> None]

\* One file's turn: its bytes and, where the clock asks for it, its stat.
Read ==
  /\ pc = "read" /\ Len(readings) < Len(ordered)
  /\ LET f == ordered[Len(readings) + 1]
     IN  readings' = Append(readings, IF there(f) THEN reading(f) ELSE [file |-> f, millis |-> None, source |-> "skipped", fallback_reason |-> None])
  /\ UNCHANGED <<disk, changes, request, unfiltered, files, Sorting, pc>>

Done ==
  /\ pc = "read" /\ Len(readings) = Len(ordered)
  /\ pc' = "done"
  /\ UNCHANGED <<disk, changes, request, unfiltered, files, Sorting, readings>>

Next ==
  \/ \E f \in DOMAIN disk : Touch(f) \/ Unlink(f)
  \/ List \/ Filter \/ Filtered \/ CountRun \/ Insert \/ Sorted \/ Read \/ Done

Spec == Init /\ [][Next]_vars

-----------------------------------------------------------------------------
\* Every variable holds what the code could hold there.
TypeOK ==
  /\ changes \in 0..MaxChanges
  /\ DOMAIN cache \subseteq Range(files)
  /\ run \in {None, "begun", "up", "down", "insert"}
  /\ pc \in {"walk", "filter", "sort", "read", "done"}
  /\ Len(readings) <= Len(ordered)

\* Whatever is written or taken away meanwhile, the sort loses no file and
\* doubles none, and what it sorted was a regular file when it was asked
\* (dedupe.walk).
NoFileIsLost ==
  pc \in {"read", "done"} =>
    /\ IsInjective(ordered) /\ Range(ordered) = Range(files)
    /\ \A f \in DOMAIN disk : disk[f].kind = "file" => f \in Range(ordered)
    /\ \A f \in Range(ordered) : disk[f].kind # "dir"

\* As long as no stat failed, the files come in the order of one instant each,
\* though one was written again between two comparisons, and files of one
\* instant stay as they were listed (_compare_by_date_modified, "the stat cache
\* is ours").
OneInstantEach ==
  pc \in {"read", "done"} /\ request.sort = "date" /\ Len(files) > 1 /\ ~failed =>
    /\ DOMAIN cache = Range(files)
    /\ \A k \in 2..Len(ordered) :
         \/ cache[ordered[k - 1]] < cache[ordered[k]]
         \/ /\ cache[ordered[k - 1]] = cache[ordered[k]]
            /\ \E i, j \in DOMAIN files : i < j /\ files[i] = ordered[k - 1] /\ files[j] = ordered[k]

\* In a directory left alone a replay skips nothing, its clocks by date never
\* run backwards, by name two files of one stem have one clock, and wherever a
\* name's instant could not be had the reading says why; a pinned clock is one
\* clock (clock.py, "which is what makes an archive replay reproducible").
ClocksFollowTheFiles ==
  \A j, k \in DOMAIN readings :
    LET one == readings[j]
        two == readings[k]
    IN  /\ changes = 0 => one.source # "skipped"
        /\ changes = 0 /\ request.sort = "date" /\ j < k => one.millis <= two.millis
        /\ one.source = "file_name" /\ two.source = "file_name" /\ stem(one.file) = stem(two.file) => one.millis = two.millis
        /\ one.source # "skipped" /\ request.at # None => one.millis = request.at
        /\ one.source = "last_modified" => (one.fallback_reason # None <=> request.sort = "name")
=============================================================================
