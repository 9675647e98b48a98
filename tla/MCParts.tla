------------------------------ MODULE MCParts -------------------------------
\* One run over the parts that share no state: each behaviour is one of one part.
\* A part's variables are kept in the cells from the first on, in the order its
\* module declares them, and the cells it has no use for hold None.
EXTENDS Integers

CONSTANTS None, Unset, Absent, Bad, Odd

VARIABLES part, c1, c2, c3, c4, c5, c6, c7, c8, c9, c10, c11, c12

cells == <<part, c1, c2, c3, c4, c5, c6, c7, c8, c9, c10, c11, c12>>

\* The cells after the k-th.
After11 == <<c12>>
After9 == <<c10, c11, After11>>
After8 == <<c9, After9>>
After7 == <<c8, After8>>
After6 == <<c7, After7>>
After5 == <<c6, After6>>
After4 == <<c5, After5>>
After3 == <<c4, After4>>

Unused11 == c12 = None
Unused9 == c10 = None /\ c11 = None /\ Unused11
Unused8 == c9 = None /\ Unused9
Unused7 == c8 = None /\ Unused8
Unused6 == c7 = None /\ Unused7
Unused5 == c6 = None /\ Unused6
Unused4 == c5 = None /\ Unused5
Unused3 == c4 = None /\ Unused4

Input   == INSTANCE MCPartsData
Message == INSTANCE MCMessageData

Descriptors == INSTANCE TripDescriptorWalk WITH
  message <- c1, pc <- c2, index <- c3, position <- c4, w009 <- c5, found_w009 <- c6, found <- c7,
  Messages <- Message!DescriptorMessages, Ids <- Message!DescriptorIds, Times <- Message!Times,
  Dates <- Message!Dates, Empty <- Message!NoText, HalfWord <- 4, route_ids <- Message!Routes,
  agency_ids <- Message!Agencies, trips <- Message!DescriptorTrips, arrivals <- Message!Arrivals,
  frequency_trips <- Message!FrequencyTrips, UNSET <- Unset, MISSING_VALUE <- Message!BlankTime

Trips == INSTANCE TripRules WITH
  message <- c1, previous <- c2, pc <- c3, found <- c4,
  Exchanges <- Message!Exchanges, Strings <- Message!RuleStrings, trips <- Message!RuleTrips,
  stop_ids <- Message!StopIds, exact_times_zero_trip_ids <- Message!ExactTimesZero,
  exact_times_one_trips <- Message!ExactTimesOne, trip_stop_times <- Message!StopTimes,
  now_millis <- 10000

Entities == INSTANCE EntityRules WITH
  cycle <- c1, pending <- c2, found <- c3,
  Cycles <- Input!EntityCycles, RoleOrder <- Input!RoleOrder,
  Strings <- Input!EntityStrings, Default <- Input!NoText,
  shape_ids <- Input!EntityShapes, route_stop_ids <- Input!ServedStops

Detours == INSTANCE DetourRules WITH
  cycle <- c1, pending <- c2, found <- c3,
  Cycles <- Input!DetourCycles, RoleOrder <- Input!RoleOrder,
  Strings <- Input!DetourStrings, shape_ids <- Input!DetourShapes,
  shapes_withheld <- FALSE, stop_location_types <- Input!LocationTypes,
  now_seconds <- Input!NowSeconds, utc_offset <- Input!UtcOffset

Withheld == INSTANCE DetourRules WITH
  cycle <- c1, pending <- c2, found <- c3,
  Cycles <- Input!Shapes, RoleOrder <- Input!RoleOrder, Strings <- Input!DetourStrings,
  shape_ids <- Input!DetourShapes, shapes_withheld <- TRUE,
  stop_location_types <- Input!LocationTypes, now_seconds <- Input!NowSeconds,
  utc_offset <- Input!UtcOffset

Texts == INSTANCE Translations WITH
  schema <- c1, message <- c2, wanted <- c3, pc <- c4, holders <- c5, rest <- c6, growing <- c7,
  stack <- c8, sites <- c9,
  Worlds <- Input!TranslationWorlds, Translated <- Input!Translated, Depth <- 4

Boxes == INSTANCE Extents WITH
  feed <- c1, ignore_shapes <- c2, distance <- c3, pc <- c4, stop_box <- c5, shape_box <- c6,
  stop_box_buffered <- c7, shape_box_buffered <- c8,
  Half <- 6, Pole <- 3, Asin <- Input!ExtentAsin, Feeds <- Input!ExtentFeeds,
  Distances <- Input!Distances

Vehicles == INSTANCE VehicleWalk WITH
  world <- c1, entities <- c2, index <- c3, seen_vehicle_ids <- c4, found <- c5, pc <- c6,
  Half <- 6, Pole <- 3, Asin <- Input!FlatAsin, Worlds <- Input!VehicleWorlds,
  Lacking <- Input!Lacking, NaN <- Input!NaN, TripBuffer <- 2, North <- 110, East <- Input!East

Frequencies == INSTANCE Headways WITH
  periods <- c1, half <- c2, wanted <- c3, ours <- c4, jar <- c5,
  Searches <- Input!Searches, IntMax <- 32767

Gate == INSTANCE StaticFeed WITH
  archive <- c1, mode <- c2, ignore_shapes <- c3, raw <- c4, pc <- c5, refusal <- c6, notes <- c7,
  static <- c8, timezone <- c9,
  Archives <- Input!Archives

Lines == INSTANCE CommandLine WITH
  argv <- c1, args <- c2, pending <- c3, present <- c4, values <- c5, pc <- c6, request <- c7,
  outcome <- c8, exit <- c9,
  Argvs <- Input!Argvs, Plain <- Input!Plain, Targets <- {"file", "name", "-", "dir"},
  Directories <- {"dir"}

Calls == INSTANCE Requests WITH
  archive <- c1, feeds <- c2, config <- c3, request <- c4, at <- c5, notices <- c6, system_errors <- c7,
  validated <- c8, skipped <- c9, disk <- c10, results <- c11, writes <- c12,
  Replays <- Input!Replays, Arguments <- Input!Arguments, Rules <- {1, 2, 3}, output_order <- Input!OutputOrder,
  Versions <- 2, MaxFeeds <- 1, MaxRuns <- 2, MaxWrites <- 2

Discovery == INSTANCE Registry WITH
  tree <- c1, imported <- c2, registered <- c3, queue <- c4, pc <- c5, wanted <- c6, rules <- c7,
  Trees <- Input!Trees, Declared <- Input!Declared, Reachable <- Input!Reachable,
  Grave <- Input!Grave

Replay == INSTANCE ReplayDirectory WITH
  disk <- c1, changes <- c2, request <- c3, unfiltered <- c4, files <- c5, cache <- c6, failed <- c7,
  run <- c8, ordered <- c9, at <- c10, readings <- c11, pc <- c12,
  Disks <- Input!Disks, NameOrder <- Input!NameOrder, Long <- {"10", "20", "no"},
  Instant <- Input!Instants, Requests <- Input!RunRequests, NOW <- 50, MaxChanges <- 1

Pairs == INSTANCE MessagePairs WITH
  stream <- c1, n <- c2, previous <- c3, reported <- c4,
  Streams <- Message!Streams, Decimal <- Message!Decimal, Word <- Message!Word,
  PosixWindow <- Message!PosixWindow, Second <- Message!Second

Across == INSTANCE CrossFeed WITH
  feed <- c1, unread <- c2, trip_to_vehicle <- c3, vehicle_to_trip <- c4,
  trips_without_vehicles <- c5, vp_vehicle_to_trip <- c6, vp_trip_to_vehicle <- c7,
  vehicles_without_trips <- c8, counted <- c9, memo <- c10, pc <- c11, found <- c12,
  Feeds <- Message!CrossFeeds, block_id <- Message!Blocks, Words <- 256, Shift <- 16,
  INITIAL_CAPACITY <- 4, TREEIFY_THRESHOLD <- 2, MIN_TREEIFY_CAPACITY <- 8

Upstream == INSTANCE UpstreamRules WITH
  message <- c1, name <- c2, todo <- c3, memo <- c4, ran <- c5, pc <- c6, occurrences <- c7,
  Messages <- Message!UpstreamMessages, Orders <- Message!RuleOrders, Names <- Message!Names

Clocks == INSTANCE ClockTexts WITH
  timezone <- c1, pc <- c2, at <- c3, hours <- c4, num <- c5, width <- c6, seen_colon <- c7, minutes <- c8,
  Ids <- Message!TimezoneIds, TzDatabase <- Message!TzDatabase, Long <- 1000000000,
  Moments <- Message!MomentsOfDay, Nows <- Message!NowsOfDay

Drawings == INSTANCE Polylines WITH
  encoded <- c1, position <- c2, result <- c3, shift <- c4, latitude_delta <- c5, points <- c6,
  error <- c7, done <- c8,
  Encodings <- Input!EncodedTexts, Paths <- Input!EncodedLines, CONTINUATION <- 32

Decoder == INSTANCE Wire WITH
  input <- c1, pos <- c2, msg <- c3, phase <- c4,
  Inputs <- Message!Inputs

ASSUME PartsAssumption ==
  /\ Descriptors!LegalInputs
  /\ Trips!LegalInputs
  /\ Entities!LegalInputs
  /\ Detours!LegalInputs
  /\ Withheld!LegalInputs
  /\ Texts!LegalInputs
  /\ Boxes!LegalInputs
  /\ Vehicles!LegalInputs
  /\ Frequencies!LegalInputs
  /\ Calls!LegalInputs
  /\ Discovery!LegalInputs
  /\ Replay!LegalInputs
  /\ Pairs!LegalInputs
  /\ Upstream!LegalInputs
  /\ Clocks!LegalInputs
  /\ Drawings!LegalInputs
  /\ Boxes!LegalSphere /\ Vehicles!LegalSphere

Init ==
  \/ part = "trip descriptors" /\ Descriptors!Init /\ Unused7
  \/ part = "trip rules" /\ Trips!Init /\ Unused4
  \/ part = "entity rules" /\ Entities!Init /\ Unused3
  \/ part = "detours" /\ Detours!Init /\ Unused3
  \/ part = "detours, shapes withheld" /\ Withheld!Init /\ Unused3
  \/ part = "translations" /\ Texts!Init /\ Unused9
  \/ part = "extents" /\ Boxes!Init /\ Unused8
  \/ part = "vehicles" /\ Vehicles!Init /\ Unused6
  \/ part = "headways" /\ Frequencies!Init /\ Unused5
  \/ part = "static feed" /\ Gate!Init /\ Unused9
  \/ part = "command line" /\ Lines!Init /\ Unused9
  \/ part = "requests" /\ Calls!Init
  \/ part = "registry" /\ Discovery!Init /\ Unused7
  \/ part = "replay directory" /\ Replay!Init
  \/ part = "message pairs" /\ Pairs!Init /\ Unused4
  \/ part = "cross-feed" /\ Across!Init
  \/ part = "upstream rules" /\ Upstream!Init /\ Unused7
  \/ part = "clock texts" /\ Clocks!Init /\ Unused8
  \/ part = "polylines" /\ Drawings!Init /\ Unused8
  \/ part = "wire" /\ Decoder!Init /\ Unused4

DescriptorsStep == part = "trip descriptors" /\ Descriptors!Next /\ UNCHANGED <<part, After7>>
TripsStep == part = "trip rules" /\ Trips!Next /\ UNCHANGED <<part, After4>>
EntitiesStep == part = "entity rules" /\ Entities!Next /\ UNCHANGED <<part, After3>>
DetoursStep == part = "detours" /\ Detours!Next /\ UNCHANGED <<part, After3>>
WithheldStep == part = "detours, shapes withheld" /\ Withheld!Next /\ UNCHANGED <<part, After3>>
TextsStep == part = "translations" /\ Texts!Next /\ UNCHANGED <<part, After9>>
BoxesStep == part = "extents" /\ Boxes!Next /\ UNCHANGED <<part, After8>>
VehiclesStep == part = "vehicles" /\ Vehicles!Next /\ UNCHANGED <<part, After6>>
FrequencySearch == part = "headways" /\ Frequencies!_search /\ UNCHANGED <<part, After5>>
FrequencyOfTheJar == part = "headways" /\ Frequencies!FrequencyTypeOneValidator /\ UNCHANGED <<part, After5>>
GateStep == part = "static feed" /\ Gate!Next /\ UNCHANGED <<part, After9>>
LinesStep == part = "command line" /\ Lines!Next /\ UNCHANGED <<part, After9>>
CallsStep == part = "requests" /\ Calls!Next /\ UNCHANGED part
DiscoveryStep == part = "registry" /\ Discovery!Next /\ UNCHANGED <<part, After7>>
ReplayStep == part = "replay directory" /\ Replay!Next /\ UNCHANGED part
PairsStep == part = "message pairs" /\ Pairs!Next /\ UNCHANGED <<part, After4>>
AcrossStep == part = "cross-feed" /\ Across!Next /\ UNCHANGED part
UpstreamStep == part = "upstream rules" /\ Upstream!Next /\ UNCHANGED <<part, After7>>
ClocksStep == part = "clock texts" /\ Clocks!Next /\ UNCHANGED <<part, After8>>
DrawingsStep == part = "polylines" /\ Drawings!Next /\ UNCHANGED <<part, After8>>
DecoderStep == part = "wire" /\ Decoder!Next /\ UNCHANGED <<part, After4>>

Next ==
  DescriptorsStep \/ TripsStep \/ EntitiesStep \/ DetoursStep \/ WithheldStep \/
  TextsStep \/ BoxesStep \/ VehiclesStep \/ FrequencySearch \/ FrequencyOfTheJar \/
  GateStep \/ LinesStep \/ CallsStep \/ DiscoveryStep \/ ReplayStep \/ PairsStep \/
  AcrossStep \/ UpstreamStep \/ ClocksStep \/ DrawingsStep \/ DecoderStep

\* What a single call computes is computed to its end: the closure and the walk of
\* the translations, the two loops of E019, and the reading of a command line.
Fairness ==
  /\ WF_cells(TextsStep) /\ WF_cells(LinesStep)
  /\ WF_cells(FrequencySearch) /\ WF_cells(FrequencyOfTheJar)

Spec == Init /\ [][Next]_cells /\ Fairness

-----------------------------------------------------------------------------
\* Every part's variables hold what its code could hold there.
TypesHold ==
  /\ part = "trip descriptors" => Descriptors!TypeOK
  /\ part = "trip rules"       => Trips!TypeOK
  /\ part = "entity rules"     => Entities!TypeOK
  /\ part = "detours"          => Detours!TypeOK
  /\ part = "translations"     => Texts!TypeOK
  /\ part = "extents"          => Boxes!TypeOK
  /\ part = "vehicles"         => Vehicles!TypeOK
  /\ part = "headways"         => Frequencies!TypeOK
  /\ part = "static feed"      => Gate!TypeOK
  /\ part = "command line"     => Lines!TypeOK
  /\ part = "requests"         => Calls!TypeOK
  /\ part = "registry"         => Discovery!TypeOK
  /\ part = "replay directory" => Replay!TypeOK
  /\ part = "message pairs"    => Pairs!TypeOK
  /\ part = "cross-feed"       => Across!TypeOK
  /\ part = "upstream rules"   => Upstream!TypeOK
  /\ part = "clock texts"      => Clocks!TypeOK
  /\ part = "polylines"        => Drawings!TypeOK
  /\ part = "wire"             => Decoder!TypeOK

\* walk_trip_descriptor.py over a whole message: W009 comes of the first update
\* that declares nothing in a feed's list; a reference to a trip, a route or an
\* agency that is not there is one finding and not one per rule; E031, E035 and
\* their like need two sources to disagree; a start_time that is let pass is the
\* schedule's.
TripDescriptorsHold ==
  part = "trip descriptors" =>
    /\ Descriptors!WarnsOfTheFirst
    /\ Descriptors!OneFindingPerReference
    /\ Descriptors!NoDisagreementAlone
    /\ Descriptors!SilentStartTimeIsTheSchedules

\* The rules that read resolved relationships (schedule_relationship.py and the
\* spec rules over it): UNSCHEDULED is all of a trip's updates or none; an update
\* with one time is let pass only at an end of its trip; two updates of a trip
\* are told apart by what names an instance; a trip that calls nowhere is one
\* finding; and S021 speaks of a moved instance where both messages say which it
\* is, once and at the first descriptor that does, and nowhere else.
TripRulesHold ==
  part = "trip rules" =>
    /\ Trips!UnscheduledIsAllOrNothing
    /\ Trips!OneTimeIsEnoughOnlyAtAnEnd
    /\ Trips!InstancesAreToldApart
    /\ Trips!CallingNowhereIsOneFinding
    /\ Trips!MovedMeansBothAreClear

\* The entity walk and the index of alerts over the files of a cycle: the alert
\* that excuses a cancellation may be in any file; no payload of an entity hides
\* another; every impact lies in a communicated window (S026); and an alert that
\* names all stops of a line is answered by naming the line (P012).  A polyline is
\* read back as it was written, and a broken one keeps the points before the break.
EntitiesHold ==
  /\ part = "entity rules" =>
       /\ Entities!AnyFileMayHoldTheAlert
       /\ Entities!NoPayloadHidesAnother
       /\ Entities!ImpactsAreCommunicated
       /\ Entities!NamingTheLineIsTheRemedy
  /\ part = "polylines" => Drawings!LinesAreReadBack /\ Drawings!BrokenKeepsItsPoints

\* The walk of trip modifications and the index of what a cycle defines: neither
\* the order of a message's entities nor the files they are split over decide
\* what is found; a shape that is withheld, or broken half-way, is read as not
\* known and never as wrong; replacement stops that are let pass go forward; and
\* service dates within eight days of the agency's day are silent.
DetoursHold ==
  /\ part = "detours" =>
       /\ Detours!OrderOfEntitiesDecidesNothing
       /\ Detours!OneSentenceOneReading
       /\ Detours!WhatIsLeftGoesForward
       /\ Detours!EightDaysAreSilent
       /\ Detours!SplittingDecidesNothing
       /\ Detours!ABrokenShapeDecidesNothing
  /\ part = "detours, shapes withheld" => Withheld!OneSentenceOneReading

\* walk_translations.py: the closure over the schema finds every type that can
\* hold a translated string or image, so the walk that prunes by it visits every
\* such value and in the message's order; a URL that is let pass is a URI
\* (S035, S036); and a value that is let pass has one untranslated member at most.
TranslationsHold ==
  part = "translations" =>
    /\ Texts!EverySiteIsFound
    /\ Texts!SitesAreInOrder
    /\ Texts!SilentUrlsAreUris
    /\ Texts!OneLastResort

\* bbox.py and walk_vehicle.py: a box is the narrowest round the sphere that
\* holds its points, on either side of the meridian; the wider one holds whatever
\* strayed no further than the buffer; E028 and E029 complain of no place of the
\* feed's own; an id belongs to one vehicle; a place is complained of once; only a
\* trip of a single point raises; a detour anywhere in the cycle excuses the
\* vehicle; and a train's carriages are numbered from its front.
PlacesHold ==
  /\ part = "extents" =>
       /\ Boxes!AMeridianIsAPlace
       /\ Boxes!NoNarrowerBoxHoldsThem
       /\ Boxes!StrayingThatFarIsInside
       /\ Boxes!OwnPlacesAreInside
  /\ part = "vehicles" =>
       /\ Vehicles!AnIdHasOneBearer
       /\ Vehicles!OnlyAOnePointShapeRaises
       /\ Vehicles!APlaceIsComplainedOfOnce
       /\ Vehicles!ADetourExcusesTheVehicle
       /\ Vehicles!ATrainIsReadFromTheFront

\* frequencies.py: a start_time that is let pass is a departure, and on every feed
\* the gate lets through the search says what the jar's loop says, down to the
\* candidate and the headway its prefix shows; a vehicle's from midnight on.
HeadwaysHold ==
  part = "headways" => Frequencies!SilentIsADeparture /\ Frequencies!AsTheJarSays

\* gate.py, adapter.py and context.py: a feed is handed on whole or refused with
\* its reason; compat's rows point at rows that are there; a line is that of a
\* trip; and a table that is absent is never read as one that is empty.  zones.py,
\* timestamp_text.py: the feed's timezone is the offset its id writes, and the
\* clocks of an E050 are as far apart as the age it gives.
FeedsHold ==
  /\ part = "static feed" =>
       /\ Gate!ArrivedWhole
       /\ Gate!CompatPointsNowhere
       /\ Gate!LinesAreTheTrips
       /\ Gate!AbsentIsNotEmpty
  /\ part = "clock texts" => Clocks!OffsetsAreWritten /\ Clocks!TheSentenceAddsUp

\* What surrounds a run.  cliargs.py, compatcli.py: compat reads a line as
\* commons-cli does, and no line is read by both surfaces.  api.py, config.py,
\* report/: a run uses a feed only in the mode and with the shapes it was read
\* for; a feed gives the same answer however often it is used; the whole files of a
\* run are a prefix of it, with a cut one after them only if a write failed; and of
\* the two reports the findings are never the older, whichever results are written
\* in whichever order and whatever write fails.  dedupe.py, clock.py, sources.py
\* over a directory that changes underneath: no file listed is lost, each is read
\* at one instant, and the clocks follow the order of the files.
RunsHold ==
  /\ part = "command line" => Lines!CompatReadsWhatCommonsCliDoes /\ Lines!OneSurface
  /\ part = "requests" =>
       /\ Calls!RunsOnWhatItAskedFor
       /\ Calls!TheHundredthSaysAsMuch
       /\ Calls!FilesAreAPrefix
       /\ Calls!TheReportLeads
  /\ part = "replay directory" =>
       /\ Replay!NoFileIsLost
       /\ Replay!OneInstantEach
       /\ Replay!ClocksFollowTheFiles

\* registry.py and walks.py: whatever was imported before, a registry holds the
\* whole tree or is not made, compat's is the manifest's, and a severity has one
\* source; every event of a shared walk is reported once, by its own rule, and
\* the walk runs once in a message's context.
RegistriesHold ==
  /\ part = "registry" =>
       /\ Discovery!CompatIsTheManifests
       /\ Discovery!WholeTreeOrNoRegistry
       /\ Discovery!OneSourceOfSeverity
  /\ part = "upstream rules" => Upstream!EachEventHasOneRule /\ Upstream!EachWalkRunsOnce

\* The rules between two messages and between the files of a cycle: the bands of
\* P004 and W007 meet and do not overlap, and two header stamps are spoken of twice
\* only where the signed word and the unsigned disagree; a trip that moved is
\* reported once; versions are compared as the jar's floats are; W003 and E047 speak
\* in the order of a Java HashMap whatever the keys; and they are silent exactly
\* when the two files agree.
MessagesAgree ==
  /\ part = "message pairs" =>
       Pairs!TheBandsMeet /\ Pairs!AMoveIsReportedOnce /\ Pairs!VersionsAreReadOneWay
  /\ part = "cross-feed" => Across!OrderIsTheTables /\ Across!SilenceIsAgreement

\* decode.py over wire.py: reading on from any field is merging what the rest says
\* alone; what was read can be written and read again; the narrow and the wide
\* varint end at the same byte; equal_messages takes two writings of one content
\* for equal and nothing else; an enum's getter answers a member; and the two
\* schemas are whole and are two views of one message.
WireHolds ==
  part = "wire" =>
    /\ Decoder!ConcatenationMerges
    /\ Decoder!ReadingBackIsTheSame
    /\ Decoder!VarintsAgree
    /\ Decoder!ReEncodingsAreEqual
    /\ Decoder!EqualMeansTheSameBytes
    /\ Decoder!ValuesAreNamed
    /\ Decoder!TwoViewsAgree
    /\ Decoder!SchemasAreWhole

\* What must end does: the closure over a schema whose types hold each other and
\* the walk after it; the search of E019 on any headway, and the jar's on any feed
\* the gate lets through (spinning_frequency); and the reading of a command line.
LoopsEnd ==
  <>(/\ part = "translations" => Texts!Walked
     /\ part = "headways"     => Frequencies!Searched
     /\ part = "command line" => Lines!Answered)

-----------------------------------------------------------------------------
\* What e019.py says of a vehicle's candidates: none is before midnight, where the
\* two languages divide differently.
VehicleClocksAgree == part = "headways" => Frequencies!VehicleClocksAgree

\* What registry.py says of modern(): its order does not depend on who imported
\* what first.
RegistryOrderIsDiscoverys == part = "registry" => Discovery!OrderIsDiscoverys

\* What gate.py says of FALLBACK_TIMEZONE: compat runs on it only where modern
\* does, on a feed that declares no timezone.
TheFallbackIsModerns == part = "static feed" => Gate!TheFallbackIsModerns
=============================================================================
